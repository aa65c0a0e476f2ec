-------------------------- MODULE TikTokPass_proofs --------------------------
(***************************************************************************)
(* Theorems about TikTokPass, for any number of links, workers and         *)
(* cancellations: what a pass over a workbook reports is in the file; the  *)
(* pools of a pass are released after the last of its workers; every link  *)
(* is in one place and recorded once; no recorded result is lost; a pass   *)
(* keeps the promise of PassPromise. About TikTokNames, for any number of  *)
(* threads: one of them asks for the page of a profile, and a failed check *)
(* keeps the name of its row. About TikTokPage, for any pages, retries,    *)
(* addresses and polls: a row gets the numbers of its own post, and loses  *)
(* them only on proof.                                                     *)
(***************************************************************************)
EXTENDS MCTikTok, FiniteSetTheorems, SequenceTheorems, TLAPS

-----------------------------------------------------------------------------
(* Saves before reports.                                                   *)

\* Results that are not reported yet are in the open workbook or in the file.
SaveInv == ~store => reported \subseteq stored /\ unsaved \subseteq buffered \cup stored

\* Steps that leave the chain of saves alone.
LEMMA ChainKept ==
    ASSUME SaveInv, UNCHANGED <<store, chain>>
    PROVE SaveInv'
BY DEF SaveInv, chain

\* Results are recorded in the workbook before they wait for their save.
LEMMA ChainGrows ==
    ASSUME SaveInv, NEW S,
           buffered' = buffered \cup S, unsaved' = unsaved \cup S,
           UNCHANGED <<store, stored, reported>>
    PROVE SaveInv'
BY DEF SaveInv

LEMMA WorkersKeepChain ==
    ASSUME SaveInv, NEW w \in Workers, WorkerStep(w) \/ Dies(w)
    PROVE SaveInv'
BY ChainKept DEF WorkerStep, RequestTake, BrowserTake, RequestDone, BrowserDone, Recycled, Opens,
                 Stopped, Dies

LEMMA PassKeepsChain ==
    ASSUME SaveInv, PassStep
    PROVE SaveInv'
<1>1. CASE Start \/ ResultTold \/ WaitOver \/ WaitAgain \/ LoopOver \/ Joined \/ JoinedWorkers
           \/ ReleasedPools \/ Prepared \/ NotesTold \/ HookDone
  BY <1>1, ChainKept DEF Start, ResultTold, WaitOver, WaitAgain, LoopOver, Joined, JoinedWorkers,
                         ReleasedPools, Prepared, NotesTold, HookDone, Same
<1>2. CASE TakeResult
  BY <1>2, ChainGrows DEF TakeResult
<1>3. CASE Abandon
  BY <1>3, ChainGrows DEF Abandon, Same
<1>4. CASE SaveDone
  BY <1>4 DEF SaveDone, SaveInv, Same
<1>5. CASE SaveFails
  BY <1>5 DEF SaveFails, SaveInv, Same
<1> QED
  BY <1>1, <1>2, <1>3, <1>4, <1>5 DEF PassStep

LEMMA CancelKeepsChain ==
    ASSUME SaveInv, Cancel
    PROVE SaveInv'
<1>1. store' = store
  BY DEF Cancel, Same
<1>2. CASE CancelFlush
  BY <1>1, <1>2 DEF CancelFlush, SaveInv
<1>3. CASE CancelLoop \/ CancelOwned \/ CancelSave \/ CancelLast
  BY <1>1, <1>3, ChainKept DEF CancelLoop, CancelOwned, CancelSave, CancelLast
<1>4. CASE CancelNotes \/ CancelWarning
  BY <1>1, <1>4 DEF CancelNotes, CancelWarning, SaveInv
<1> QED
  BY <1>2, <1>3, <1>4 DEF Cancel

\* scan_journal.py: "A row enters rows only after the workbook save that wrote it succeeded", however a
\* pass over a workbook is cancelled and whichever of its saves fail.
THEOREM ReportsInFile == Spec => []ReportedIsInFile
<1>1. Init => SaveInv
  BY DEF Init, SaveInv
<1>2. SaveInv /\ [Next]_vars => SaveInv'
  <2> SUFFICES ASSUME SaveInv, [Next]_vars PROVE SaveInv'
    OBVIOUS
  <2>1. CASE \E w \in Workers : WorkerStep(w) \/ Dies(w)
    BY <2>1, WorkersKeepChain
  <2>2. CASE MarkEnds \/ Released \/ StartFails \/ LoopFails
    BY <2>2, ChainKept DEF MarkEnds, Released, StartFails, LoopFails, Same
  <2>3. CASE PassStep
    BY <2>3, PassKeepsChain
  <2>4. CASE Cancel
    BY <2>4, CancelKeepsChain
  <2>5. CASE UNCHANGED vars
    BY <2>5, ChainKept DEF vars
  <2> QED
    BY <2>1, <2>2, <2>3, <2>4, <2>5 DEF Next
<1>3. SaveInv => ReportedIsInFile
  BY DEF SaveInv, ReportedIsInFile
<1> QED
  BY <1>1, <1>2, <1>3, PTL DEF Spec

-----------------------------------------------------------------------------
(* The workers before the pools.                                           *)

\* Where the pass stands once _shutdown_scan has joined the workers.
AfterJoin == {"stopSave", "stopHook", "release", "lateSave", "lateHook", "prepare", "notes", "prepareSave",
              "prepareHook", "finalSave", "finalHook", "end"}

\* Every worker has ended, or has not begun.
NoWorker == \A w \in Workers : at[w] = "gone"

PoolInv ==
    /\ hands \subseteq Workers
    /\ DOMAIN at = Workers
    /\ \A w \in Workers \ hands : at[w] = "gone"
    /\ pc \in AfterJoin \cup {"start"} => NoWorker

\* Steps of the pass that do not touch the workers, and pass the join of the workers only backwards.
LEMMA CrewKept ==
    ASSUME PoolInv, UNCHANGED <<hands, at>>,
           pc' \in AfterJoin \cup {"start"} => pc \in AfterJoin \cup {"start"}
    PROVE PoolInv'
BY DEF PoolInv, NoWorker

\* A worker that steps has not ended, so the pass has not joined it.
LEMMA WorkersKeepPool ==
    ASSUME PoolInv, NEW w \in Workers, WorkerStep(w) \/ Dies(w)
    PROVE PoolInv'
<1> USE DEF Put
<1>1. hands' = hands /\ pc' = pc
  BY DEF WorkerStep, RequestTake, BrowserTake, RequestDone, BrowserDone, Recycled, Opens, Stopped, Dies,
         flow
<1>2. at[w] # "gone"
  BY DEF WorkerStep, RequestTake, BrowserTake, RequestDone, BrowserDone, Recycled, Opens, Stopped, Dies,
         TakeFrom, Gone
<1>3. \E place : at' = [at EXCEPT ![w] = place]
  BY DEF WorkerStep, RequestTake, BrowserTake, RequestDone, BrowserDone, Recycled, Opens, Stopped, Dies,
         TakeFrom
<1>4. PICK place : at' = [at EXCEPT ![w] = place]
  BY <1>3
<1>5. w \in hands /\ pc \notin AfterJoin \cup {"start"}
  BY <1>2 DEF PoolInv, NoWorker
<1> QED
  BY <1>1, <1>4, <1>5 DEF PoolInv, NoWorker

LEMMA PassKeepsPool ==
    ASSUME PoolInv, PassStep
    PROVE PoolInv'
<1> USE DEF Goto, AfterJoin
<1>1. CASE Start
  <2>1. hands' = hands /\ pc' = "consume" /\ at' = [w \in Workers |-> FirstPlace(w)]
    BY <1>1 DEF Start
  <2>2. \A w \in Workers \ hands : FirstPlace(w) = "gone"
    BY DEF FirstPlace
  <2> QED
    BY <2>1, <2>2 DEF PoolInv
<1>2. CASE TakeResult \/ ResultTold \/ WaitOver \/ WaitAgain \/ Abandon \/ LoopOver \/ Joined
  BY <1>2, CrewKept DEF TakeResult, ResultTold, WaitOver, WaitAgain, Abandon, LoopOver, Joined, Same, crew
<1>3. CASE JoinedWorkers
  <2>1. NoWorker
    BY <1>3 DEF JoinedWorkers, AllGone, Gone, NoWorker, PoolInv
  <2> QED
    BY <1>3, <2>1 DEF JoinedWorkers, crew, PoolInv, NoWorker
<1>4. CASE ReleasedPools \/ Prepared \/ NotesTold
  BY <1>4, CrewKept DEF ReleasedPools, Prepared, NotesTold, Same, crew
<1>5. CASE SaveDone
  BY <1>5, CrewKept DEF SaveDone, SavePc, Hook, Same, crew
<1>6. CASE SaveFails
  BY <1>6, CrewKept DEF SaveFails, SavePc, Same, crew
<1>7. CASE HookDone
  BY <1>7, CrewKept DEF HookDone, HookPc, AfterHook, Same, crew
<1> QED
  BY <1>1, <1>2, <1>3, <1>4, <1>5, <1>6, <1>7 DEF PassStep

LEMMA CancelKeepsPool ==
    ASSUME PoolInv, Cancel
    PROVE PoolInv'
<1>1. UNCHANGED <<hands, at>>
  BY DEF Cancel, Same, crew
<1>2. pc' \in AfterJoin \cup {"start"} => pc \in AfterJoin \cup {"start"}
  BY DEF Cancel, CancelLoop, CancelOwned, CancelSave, CancelFlush, CancelLast, CancelNotes, CancelWarning,
         Goto, AfterJoin
<1> QED
  BY <1>1, <1>2, CrewKept

LEMMA PoolInit == Init => PoolInv
BY DEF Init, PoolInv, NoWorker, Workers

LEMMA PoolStep == PoolInv /\ [Next]_vars => PoolInv'
<1> SUFFICES ASSUME PoolInv, [Next]_vars PROVE PoolInv'
  OBVIOUS
<1>1. CASE \E w \in Workers : WorkerStep(w) \/ Dies(w)
  BY <1>1, WorkersKeepPool
<1>2. CASE MarkEnds \/ Released
  BY <1>2, CrewKept DEF MarkEnds, Released, crew, flow
<1>3. CASE StartFails \/ LoopFails
  BY <1>3, CrewKept DEF StartFails, LoopFails, Goto, AfterJoin, Same, crew
<1>4. CASE PassStep
  BY <1>4, PassKeepsPool
<1>5. CASE Cancel
  BY <1>5, CancelKeepsPool
<1>6. CASE UNCHANGED vars
  BY <1>6, CrewKept DEF vars, crew, flow
<1> QED
  BY <1>1, <1>2, <1>3, <1>4, <1>5, <1>6 DEF Next

\* runner.py: "Never replace the shared proxy pool while that HTTP work is alive", however the workers of
\* a pass end and wherever it is cancelled.
THEOREM PoolsOutlive == Spec => []PoolIsFree
<1>1. PoolInv => PoolIsFree
  BY DEF PoolInv, PoolIsFree, AfterJoin, NoWorker, AllGone, Gone
<1> QED
  BY <1>1, PoolInit, PoolStep, PTL DEF Spec

-----------------------------------------------------------------------------
(* Queues of links and end markers.                                        *)

Item == Links \cup {NoLink}

\* No link is in a queue twice; no link follows an end marker; there is no end marker.
Once(q) == \A i, j \in 1 .. Len(q) : q[i] = q[j] /\ q[i] # NoLink => i = j
Ordered(q) == \A i, j \in 1 .. Len(q) : i < j /\ q[i] = NoLink => q[j] = NoLink
Unmarked(q) == \A i \in 1 .. Len(q) : q[i] # NoLink

LEMMA QueueReads ==
    ASSUME NEW q \in Seq(Item)
    PROVE  ReadLinks(q) = {q[i] : i \in 1 .. Len(q)} \ {NoLink} /\ ReadLinks(q) \subseteq Links
<1>1. DOMAIN q = 1 .. Len(q) /\ \A i \in 1 .. Len(q) : q[i] \in Item
  BY LenProperties, ElementOfSeq
<1> QED
  BY <1>1 DEF ReadLinks, Item

LEMMA QueueTail ==
    ASSUME NEW q \in Seq(Item), q # <<>>, Once(q)
    PROVE  /\ Tail(q) \in Seq(Item) /\ Once(Tail(q)) /\ Head(q) \in Item
           /\ ReadLinks(Tail(q)) = ReadLinks(q) \ {Head(q)}
           /\ Head(q) # NoLink => Head(q) \in ReadLinks(q)
           /\ Ordered(q) => Ordered(Tail(q)) /\ (Head(q) = NoLink => ReadLinks(q) = {})
           /\ Unmarked(q) => Unmarked(Tail(q)) /\ Head(q) # NoLink
<1> DEFINE t == Tail(q)
<1>1. /\ t \in Seq(Item) /\ Len(t) = Len(q) - 1 /\ Len(q) \in Nat \ {0}
      /\ Head(q) \in Item /\ Head(q) = q[1]
      /\ \A k \in 1 .. Len(t) : t[k] = q[k + 1]
  BY HeadTailProperties, EmptySeq
<1>2. /\ ReadLinks(q) = {q[i] : i \in 1 .. Len(q)} \ {NoLink}
      /\ ReadLinks(t) = {t[i] : i \in 1 .. Len(t)} \ {NoLink}
  BY <1>1, QueueReads
<1> HIDE DEF t
<1>3. Once(t) /\ (Ordered(q) => Ordered(t)) /\ (Unmarked(q) => Unmarked(t) /\ q[1] # NoLink)
  BY <1>1 DEF Once, Ordered, Unmarked
<1>4. q[1] # NoLink => q[1] \in ReadLinks(q)
  BY <1>1, <1>2
<1>5. ReadLinks(t) \subseteq ReadLinks(q) \ {q[1]}
  <2> SUFFICES ASSUME NEW k \in 1 .. Len(t), t[k] # NoLink PROVE t[k] \in ReadLinks(q) /\ t[k] # q[1]
    BY <1>2
  <2>1. k + 1 \in 1 .. Len(q) /\ t[k] = q[k + 1] /\ k + 1 # 1 /\ 1 \in 1 .. Len(q)
    BY <1>1
  <2> QED
    BY <1>2, <2>1 DEF Once
<1>6. ReadLinks(q) \ {q[1]} \subseteq ReadLinks(t)
  <2> SUFFICES ASSUME NEW k \in 1 .. Len(q), q[k] # NoLink, q[k] # q[1] PROVE q[k] \in ReadLinks(t)
    BY <1>2
  <2>1. k - 1 \in 1 .. Len(t) /\ t[k - 1] = q[k]
    BY <1>1
  <2> QED
    BY <1>2, <2>1
<1>7. Ordered(q) /\ q[1] = NoLink => ReadLinks(q) = {}
  <2> SUFFICES ASSUME Ordered(q), q[1] = NoLink, NEW k \in 1 .. Len(q) PROVE q[k] = NoLink
    BY <1>2
  <2>1. k = 1 \/ (1 < k /\ 1 \in 1 .. Len(q))
    BY <1>1
  <2> QED
    BY <2>1 DEF Ordered
<1> QED
  BY <1>1, <1>3, <1>4, <1>5, <1>6, <1>7 DEF t

LEMMA QueueAppend ==
    ASSUME NEW q \in Seq(Item), NEW l \in Links, Once(q), l \notin ReadLinks(q)
    PROVE  /\ Append(q, l) \in Seq(Item) /\ Once(Append(q, l))
           /\ ReadLinks(Append(q, l)) = ReadLinks(q) \cup {l}
           /\ Unmarked(q) => Unmarked(Append(q, l))
<1> DEFINE t == Append(q, l)
<1>1. /\ t \in Seq(Item) /\ Len(t) = Len(q) + 1 /\ Len(q) \in Nat
      /\ \A k \in 1 .. Len(q) : t[k] = q[k]
      /\ t[Len(q) + 1] = l
  BY AppendProperties, LenProperties DEF Item
<1>2. /\ ReadLinks(q) = {q[i] : i \in 1 .. Len(q)} \ {NoLink}
      /\ ReadLinks(t) = {t[i] : i \in 1 .. Len(t)} \ {NoLink}
  BY <1>1, QueueReads
<1> HIDE DEF t
<1>3. 1 .. Len(t) = 1 .. Len(q) \cup {Len(q) + 1} /\ l # NoLink
  BY <1>1, PassAssumption
<1>4. ReadLinks(t) = ReadLinks(q) \cup {l}
  BY <1>1, <1>2, <1>3
<1>5. Once(t)
  BY <1>1, <1>2, <1>3 DEF Once
<1>6. Unmarked(q) => Unmarked(t)
  BY <1>1, <1>3 DEF Unmarked
<1> QED
  BY <1>1, <1>4, <1>5, <1>6 DEF t

LEMMA QueueMarked ==
    ASSUME NEW q \in Seq(Item), NEW n \in Nat, Once(q)
    PROVE  /\ q \o EndMarkers(n) \in Seq(Item) /\ Once(q \o EndMarkers(n))
           /\ ReadLinks(q \o EndMarkers(n)) = ReadLinks(q)
           /\ Unmarked(q) => Ordered(q \o EndMarkers(n))
<1> DEFINE m == EndMarkers(n)
           t == q \o m
<1>1. m \in Seq(Item) /\ Len(m) = n /\ \A k \in 1 .. n : m[k] = NoLink
  <2>1. m \in [1 .. n -> Item]
    BY DEF EndMarkers, Item
  <2>2. m \in Seq(Item)
    BY <2>1, SeqDef
  <2> QED
    BY <2>1, <2>2, LenProperties DEF EndMarkers
<1> HIDE DEF m
<1>2. /\ t \in Seq(Item) /\ Len(t) = Len(q) + n /\ Len(q) \in Nat
      /\ \A k \in 1 .. Len(q) + n : t[k] = IF k <= Len(q) THEN q[k] ELSE m[k - Len(q)]
  BY <1>1, ConcatProperties, LenProperties
<1>3. /\ ReadLinks(q) = {q[i] : i \in 1 .. Len(q)} \ {NoLink}
      /\ ReadLinks(t) = {t[i] : i \in 1 .. Len(t)} \ {NoLink}
  BY <1>2, QueueReads
<1> HIDE DEF t
<1>4. /\ \A k \in 1 .. Len(q) : k \in 1 .. Len(t) /\ t[k] = q[k]
      /\ \A k \in 1 .. Len(t) : k \in 1 .. Len(q) \/ (k > Len(q) /\ t[k] = NoLink)
  <2>1. ASSUME NEW k \in 1 .. Len(q) PROVE k \in 1 .. Len(t) /\ t[k] = q[k]
    BY <1>2
  <2>2. ASSUME NEW k \in 1 .. Len(t), k \notin 1 .. Len(q) PROVE k > Len(q) /\ t[k] = NoLink
    <3>1. k - Len(q) \in 1 .. n /\ ~(k <= Len(q))
      BY <1>2, <2>2
    <3>2. t[k] = m[k - Len(q)]
      BY <1>2, <3>1
    <3> QED
      BY <1>1, <1>2, <3>1, <3>2
  <2> QED
    BY <2>1, <2>2
<1>5. ReadLinks(t) = ReadLinks(q)
  BY <1>3, <1>4
<1>6. Once(t)
  BY <1>4 DEF Once
<1>7. Unmarked(q) => Ordered(t)
  BY <1>2, <1>4 DEF Unmarked, Ordered
<1> QED
  BY <1>2, <1>5, <1>6, <1>7 DEF t, m

\* The queue of a pass holds every link once to begin with.
LEMMA LinksQueued ==
    /\ SetToSeq(Links) \in Seq(Item) /\ Once(SetToSeq(Links)) /\ Unmarked(SetToSeq(Links))
    /\ ReadLinks(SetToSeq(Links)) = Links
<1> DEFINE s == SetToSeq(Links)
           n == Cardinality(Links)
<1>1. n \in Nat /\ ExistsBijection(1 .. n, Links)
  BY PassAssumption, FS_CardinalityType
<1>2. s \in [1 .. n -> Links] /\ IsInjective(s)
  <2>1. \E f \in [1 .. n -> Links] : IsInjective(f)
    BY <1>1 DEF ExistsBijection, Bijection, Injection
  <2>2. s = CHOOSE f \in [1 .. n -> Links] : IsInjective(f)
    BY DEF SetToSeq
  <2> HIDE DEF s, n
  <2> QED
    BY <2>1, <2>2
<1>3. s \in Injection(1 .. n, Links)
  BY <1>2 DEF Injection
<1>4. s \in Surjection(1 .. n, Links)
  <2>1. IsFiniteSet(Links) /\ Cardinality(1 .. n) = n
    BY <1>1, FS_Interval, PassAssumption
  <2> QED
    BY <1>3, <2>1, FS_Injection
<1>5. s \in Seq(Item) /\ s \in Seq(Links) /\ Len(s) = n /\ DOMAIN s = 1 .. n
  <2>1. s \in [1 .. n -> Item] /\ s \in [1 .. n -> Links]
    BY <1>2 DEF Item
  <2>2. s \in Seq(Item) /\ s \in Seq(Links)
    BY <1>1, <2>1, SeqDef
  <2>3. DOMAIN s = 1 .. n /\ DOMAIN s = 1 .. Len(s) /\ Len(s) \in Nat
    BY <2>1, <2>2, LenProperties
  <2>4. Len(s) = n
    BY <1>1, <2>3
  <2> QED
    BY <2>2, <2>3, <2>4
<1>6. ReadLinks(s) = {s[i] : i \in 1 .. n} \ {NoLink}
  BY <1>5, QueueReads
<1> HIDE DEF s, n
<1>7. \A i \in 1 .. n : s[i] \in Links /\ s[i] # NoLink
  BY <1>2, PassAssumption
<1>8. \A l \in Links : \E i \in 1 .. n : s[i] = l
  BY <1>4 DEF Surjection
<1>9. Once(s) /\ Unmarked(s)
  BY <1>2, <1>5, <1>7 DEF Once, Unmarked, IsInjective
<1>10. ReadLinks(s) = Links
  BY <1>6, <1>7, <1>8
<1> QED
  BY <1>5, <1>9, <1>10 DEF s

-----------------------------------------------------------------------------
(* Every link in one place.                                                *)

\* Where the loop still takes results.
LoopPc == {"start", "consume", "result", "late", "save", "hook"}

LinkType ==
    /\ hands \in {RequestWorkers, Workers, BrowserWorkers} \ {{}}
    /\ workQueue \in Seq(Item) /\ browserQueue \in Seq(Item) /\ resultQueue \in Seq(Item)
    /\ at \in [Workers -> {"open", "get", "work", "recycle", "gone"}] /\ item \in [Workers -> Item]
    /\ \A w \in Workers : (at[w] = "work" <=> item[w] # NoLink) /\ (w \notin hands => at[w] = "gone")
    /\ marker \in {"none", "requests", "browsers", "over"} /\ died \in BOOLEAN
    /\ times \in [Links -> {0, 1}] /\ processed = Cardinality(Recorded)

\* The links in hand, each in those of one worker.
Held == {item[w] : w \in Workers} \ {NoLink}
HeldOnce == \A v, w \in Workers : item[v] = item[w] /\ item[v] # NoLink => v = w

\* Every link waits in one queue, or is in hand, or is recorded.
Shared(a, b, c, d, e) ==
    /\ a \cup b \cup c \cup d \cup e = Links
    /\ a \cap (b \cup c \cup d \cup e) = {} /\ b \cap (c \cup d \cup e) = {} /\ c \cap (d \cup e) = {} /\ d \cap e = {}
InOnePlace ==
    /\ Once(workQueue) /\ Once(browserQueue) /\ Once(resultQueue) /\ Unmarked(resultQueue) /\ HeldOnce
    /\ Shared(ReadLinks(workQueue), ReadLinks(browserQueue), ReadLinks(resultQueue), Held, Recorded)
PlaceInv == pc \in LoopPc => InOnePlace /\ givenUp = {}

\* As long as no worker has died, one that is gone has left no link in the queue it reads.
Readers == IF UseRequest THEN Requests ELSE Browsers
WorkEnds == Ordered(workQueue) /\ (pc # "start" => \A w \in Readers : Gone(w) => ReadLinks(workQueue) = {})
FallbackOpen == marker = "requests" /\ Unmarked(browserQueue) /\ \A w \in Browsers : ~Gone(w)
FallbackEnds ==
    /\ marker \in {"browsers", "over"} /\ Ordered(browserQueue) /\ \A w \in Requests : Gone(w)
    /\ \A w \in Browsers : Gone(w) => ReadLinks(browserQueue) = {}
EndsInv ==
    pc \in LoopPc /\ ~died =>
        /\ WorkEnds
        /\ ~Hybrid \/ pc = "start" => browserQueue = <<>>
        /\ Hybrid /\ pc # "start" => FallbackOpen \/ FallbackEnds

\* A link is given up once all workers are gone, with its result on the way or a worker dead.
GivenInv ==
    givenUp # {} => /\ pc \notin LoopPc /\ \A w \in Workers : at[w] = "gone"
                    /\ givenUp \subseteq ReadLinks(resultQueue) \/ died

\* Only a hybrid run marks the end of the fallback workers' queue.
MarkInv == marker = "requests" => Hybrid

LinkInv == LinkType /\ PlaceInv /\ EndsInv /\ GivenInv /\ MarkInv

LEMMA HandTakes ==
    ASSUME LinkType, HeldOnce, NEW w \in Workers, item[w] = NoLink, NEW l \in Links, l \notin Held,
           item' = [item EXCEPT ![w] = l]
    PROVE  HeldOnce' /\ Held' = Held \cup {l}
<1>1. /\ item' \in [Workers -> Item] /\ item'[w] = l /\ l # NoLink /\ \A v \in Workers : v # w => item'[v] = item[v]
  BY PassAssumption DEF LinkType, Item
<1>2. Held' = Held \cup {l}
  BY <1>1 DEF Held
<1>3. HeldOnce'
  BY <1>1 DEF HeldOnce, Held
<1> QED
  BY <1>2, <1>3

LEMMA HandGives ==
    ASSUME LinkType, HeldOnce, NEW w \in Workers, item[w] # NoLink, item' = [item EXCEPT ![w] = NoLink]
    PROVE  HeldOnce' /\ Held' = Held \ {item[w]} /\ item[w] \in Held /\ item[w] \in Links
<1>1. /\ item[w] \in Item /\ item'[w] = NoLink /\ \A v \in Workers : v # w => item'[v] = item[v]
  BY DEF LinkType, Item
<1>2. Held' = Held \ {item[w]}
  BY <1>1 DEF Held, HeldOnce
<1>3. HeldOnce'
  BY <1>1 DEF HeldOnce
<1> QED
  BY <1>1, <1>2, <1>3 DEF Held, Item

LEMMA LinkInit == Init => LinkInv
<1> SUFFICES ASSUME Init PROVE LinkInv
  OBVIOUS
<1>1. /\ hands \in {RequestWorkers, Workers, BrowserWorkers} \ {{}} /\ browserQueue = <<>> /\ resultQueue = <<>>
      /\ at = [w \in Workers |-> "gone"] /\ item = [w \in Workers |-> NoLink] /\ marker = "none" /\ pc = "start"
      /\ processed = 0 /\ times = [l \in Links |-> 0] /\ givenUp = {} /\ died = FALSE
  BY DEF Init
<1>2. PICK n \in Nat : workQueue = SetToSeq(Links) \o EndMarkers(n)
  <2>1. IsFiniteSet(Requests) /\ IsFiniteSet(Browsers)
    BY PassAssumption, FS_Subset DEF Requests, Browsers, Workers
  <2>2. Cardinality(IF UseRequest THEN Requests ELSE Browsers) \in Nat
    BY <2>1, FS_CardinalityType
  <2> QED
    BY <2>2 DEF Init
<1>3. workQueue \in Seq(Item) /\ Once(workQueue) /\ ReadLinks(workQueue) = Links /\ Ordered(workQueue)
  BY <1>2, LinksQueued, QueueMarked
<1>4. <<>> \in Seq(Item) /\ Once(<<>>) /\ Unmarked(<<>>) /\ ReadLinks(<<>>) = {}
  <2>1. <<>> \in Seq(Item) /\ Len(<<>>) = 0
    BY EmptySeq
  <2>2. PICK e : e = <<>>
    OBVIOUS
  <2>3. e \in Seq(Item) /\ 1 .. Len(e) = {}
    BY <2>1, <2>2
  <2>4. Once(e) /\ Unmarked(e) /\ ReadLinks(e) = {}
    BY <2>3, QueueReads DEF Once, Unmarked
  <2> QED
    BY <2>2, <2>3, <2>4
<1>5. Held = {} /\ HeldOnce /\ Recorded = {}
  BY <1>1 DEF Held, HeldOnce, Recorded
<1>6. LinkType
  BY <1>1, <1>3, <1>4, <1>5, FS_EmptySet DEF LinkType, Item
<1>7. PlaceInv
  BY <1>1, <1>3, <1>4, <1>5 DEF PlaceInv, InOnePlace, Shared
<1>8. EndsInv /\ GivenInv
  BY <1>1, <1>3 DEF EndsInv, GivenInv, WorkEnds
<1> QED
  BY <1>1, <1>6, <1>7, <1>8 DEF LinkInv, MarkInv

\* What the steps of a worker leave alone, and what they cannot do.
LEMMA WorkersTyped ==
    ASSUME LinkInv, NEW w \in Workers, WorkerStep(w) \/ Dies(w)
    PROVE  LinkType' /\ GivenInv' /\ pc' = pc /\ UNCHANGED <<hands, marker, times, givenUp>> /\ w \in hands /\ at[w] # "gone"
<1>1. LinkType /\ GivenInv
  BY DEF LinkInv
<1>2. at[w] # "gone"
  BY DEF WorkerStep, RequestTake, BrowserTake, RequestDone, BrowserDone, Recycled, Opens, Stopped, Dies, TakeFrom, Gone
<1>3. w \in hands /\ givenUp = {}
  BY <1>1, <1>2 DEF LinkType, GivenInv
<1>4. UNCHANGED <<hands, marker, pc, times, processed, givenUp>>
  BY DEF WorkerStep, RequestTake, BrowserTake, RequestDone, BrowserDone, Recycled, Opens, Stopped, Dies, flow, counts
<1>5. \E p \in {"open", "get", "work", "recycle", "gone"}, x \in Item :
          /\ at' = [at EXCEPT ![w] = p] /\ item' = [item EXCEPT ![w] = x] /\ (p = "work" <=> x # NoLink)
  <2>1. item[w] \in Item /\ item = [item EXCEPT ![w] = item[w]] /\ (at[w] = "work" <=> item[w] # NoLink) /\ NoLink \in Item
    BY <1>1 DEF LinkType, Item
  <2>2. CASE RequestTake(w) \/ BrowserTake(w)
    <3>1. \E q \in {workQueue, browserQueue} : TakeFrom(w, q)
      BY <2>2 DEF RequestTake, BrowserTake, BrowserInput
    <3>2. PICK q \in {workQueue, browserQueue} : TakeFrom(w, q)
      BY <3>1
    <3>3. Head(q) \in Item
      BY <1>1, <3>2, HeadTailProperties DEF LinkType, TakeFrom
    <3> QED
      BY <2>1, <3>2, <3>3 DEF TakeFrom, Put
  <2>3. CASE RequestDone(w) \/ Stopped(w) \/ Dies(w)
    BY <2>1, <2>3 DEF RequestDone, Stopped, Dies, Put
  <2>4. CASE BrowserDone(w)
    BY <2>1, <2>4 DEF BrowserDone, Put
  <2>5. CASE Recycled(w) \/ Opens(w)
    BY <2>1, <2>5 DEF Recycled, Opens
  <2> QED
    BY <2>2, <2>3, <2>4, <2>5 DEF WorkerStep
<1>6. workQueue' \in Seq(Item) /\ browserQueue' \in Seq(Item) /\ resultQueue' \in Seq(Item) /\ died' \in BOOLEAN
  <2>1. /\ workQueue \in Seq(Item) /\ browserQueue \in Seq(Item) /\ resultQueue \in Seq(Item)
        /\ item[w] \in Item /\ died \in BOOLEAN
    BY <1>1 DEF LinkType
  <2>2. \A q \in Seq(Item) : Append(q, item[w]) \in Seq(Item) /\ (q # <<>> => Tail(q) \in Seq(Item))
    BY <2>1, AppendProperties, HeadTailProperties
  <2>3. CASE RequestTake(w) \/ BrowserTake(w)
    BY <2>1, <2>2, <2>3 DEF RequestTake, BrowserTake, BrowserInput, TakeFrom
  <2>4. CASE RequestDone(w) \/ BrowserDone(w) \/ Dies(w)
    BY <2>1, <2>2, <2>4 DEF RequestDone, BrowserDone, Dies
  <2>5. CASE Stopped(w) \/ Recycled(w) \/ Opens(w)
    BY <2>1, <2>5 DEF Stopped, Recycled, Opens, queues
  <2> QED
    BY <2>3, <2>4, <2>5 DEF WorkerStep
<1>7. LinkType'
  <2>1. PICK p \in {"open", "get", "work", "recycle", "gone"}, x \in Item :
          /\ at' = [at EXCEPT ![w] = p] /\ item' = [item EXCEPT ![w] = x] /\ (p = "work" <=> x # NoLink)
    BY <1>5
  <2>2. /\ at' \in [Workers -> {"open", "get", "work", "recycle", "gone"}] /\ item' \in [Workers -> Item]
        /\ \A v \in Workers : (at'[v] = "work" <=> item'[v] # NoLink) /\ (v \notin hands => at'[v] = "gone")
    BY <1>1, <1>3, <2>1 DEF LinkType
  <2>3. Recorded' = Recorded
    BY <1>4 DEF Recorded
  <2> QED
    BY <1>1, <1>4, <1>6, <2>2, <2>3 DEF LinkType
<1>8. GivenInv'
  BY <1>3, <1>4 DEF GivenInv
<1> QED
  BY <1>2, <1>3, <1>4, <1>7, <1>8

\* A worker takes a link, or an end marker, off the queue it reads.
LEMMA LinkTaken ==
    ASSUME LinkType, HeldOnce, NEW w \in Workers, NEW q \in {workQueue, browserQueue}, Once(q), TakeFrom(w, q),
           Held \cap ReadLinks(q) = {}
    PROVE  /\ Tail(q) \in Seq(Item) /\ Once(Tail(q)) /\ HeldOnce' /\ q # <<>>
           /\ Ordered(q) => Ordered(Tail(q)) /\ (at'[w] = "gone" => ReadLinks(q) = {})
           /\ Unmarked(q) => Unmarked(Tail(q)) /\ at'[w] # "gone"
           /\ \E s \in SUBSET ReadLinks(q) : ReadLinks(Tail(q)) = ReadLinks(q) \ s /\ Held' = Held \cup s
           /\ \A v \in Workers : v # w => at'[v] = at[v]
<1>1. q \in Seq(Item) /\ q # <<>> /\ at[w] = "get" /\ item[w] = NoLink
  BY DEF LinkType, TakeFrom
<1>2. /\ Tail(q) \in Seq(Item) /\ Once(Tail(q)) /\ Head(q) \in Item
      /\ ReadLinks(Tail(q)) = ReadLinks(q) \ {Head(q)}
      /\ Head(q) # NoLink => Head(q) \in ReadLinks(q)
      /\ Ordered(q) => Ordered(Tail(q)) /\ (Head(q) = NoLink => ReadLinks(q) = {})
      /\ Unmarked(q) => Unmarked(Tail(q)) /\ Head(q) # NoLink
  BY <1>1, QueueTail
<1>3. CASE Head(q) = NoLink
  <2>1. at' = [at EXCEPT ![w] = "gone"] /\ item' = [item EXCEPT ![w] = NoLink]
    BY <1>3 DEF TakeFrom, Put
  <2>2. item' = item
    BY <1>1, <2>1 DEF LinkType
  <2>3. Held' = Held /\ HeldOnce'
    BY <2>2 DEF Held, HeldOnce
  <2>4. ReadLinks(Tail(q)) = ReadLinks(q) \ {}
    BY <1>2, <1>3 DEF ReadLinks
  <2> QED
    BY <1>1, <1>2, <1>3, <2>1, <2>3, <2>4 DEF LinkType
<1>4. CASE Head(q) # NoLink
  <2>1. at' = [at EXCEPT ![w] = "work"] /\ item' = [item EXCEPT ![w] = Head(q)]
    BY <1>4 DEF TakeFrom, Put
  <2>2. Head(q) \in Links /\ Head(q) \in ReadLinks(q) /\ Head(q) \notin Held
    BY <1>2, <1>4 DEF Item
  <2>3. HeldOnce' /\ Held' = Held \cup {Head(q)}
    BY <1>1, <2>1, <2>2, HandTakes
  <2>4. at'[w] # "gone"
    BY <2>1 DEF LinkType
  <2> QED
    BY <1>1, <1>2, <2>1, <2>2, <2>3, <2>4 DEF LinkType
<1> QED
  BY <1>3, <1>4

\* A set of links moves from one place to another.
LEMMA SharedMoves ==
    ASSUME NEW a, NEW b, NEW c, NEW d, NEW e, NEW s, Shared(a, b, c, d, e)
    PROVE  /\ s \subseteq a => Shared(a \ s, b, c, d \cup s, e)
           /\ s \subseteq b => Shared(a, b \ s, c, d \cup s, e)
           /\ s \subseteq c => Shared(a, b, c \ s, d, e \cup s)
           /\ s \subseteq d => Shared(a \cup s, b, c, d \ s, e) /\ Shared(a, b \cup s, c, d \ s, e) /\ Shared(a, b, c \cup s, d \ s, e)
BY DEF Shared

LEMMA TakeKeepsLinks ==
    ASSUME LinkInv, NEW w \in Workers, RequestTake(w) \/ BrowserTake(w), pc \in LoopPc
    PROVE  InOnePlace' /\ EndsInv'
<1>1. LinkType /\ InOnePlace /\ EndsInv
  BY DEF LinkInv, PlaceInv
<1>2. /\ pc' = pc /\ pc # "start" /\ UNCHANGED <<hands, marker, times, resultQueue, died>> /\ Recorded' = Recorded
      /\ w \in Requests \cup Browsers
  BY DEF RequestTake, BrowserTake, Working, flow, counts, Recorded
<1>3. RequestWorkers \cap BrowserWorkers = {}
  BY PassAssumption
<1>4. UNCHANGED <<Requests, Browsers, Readers>> /\ (UseRequest' <=> UseRequest) /\ (Hybrid' <=> Hybrid)
  BY <1>2 DEF Requests, Browsers, UseRequest, Hybrid, Readers
<1>5. Readers \subseteq Workers /\ Browsers \subseteq Workers /\ Requests \subseteq Workers
  BY DEF Readers, Requests, Browsers, Workers
<1>6. CASE TakeFrom(w, workQueue) /\ workQueue' = Tail(workQueue) /\ browserQueue' = browserQueue /\ w \in Readers
  <2>1. Once(workQueue) /\ HeldOnce /\ Held \cap ReadLinks(workQueue) = {}
    BY <1>1 DEF InOnePlace, Shared
  <2>2. /\ Once(Tail(workQueue)) /\ HeldOnce' /\ workQueue # <<>>
        /\ Ordered(workQueue) => Ordered(Tail(workQueue)) /\ (at'[w] = "gone" => ReadLinks(workQueue) = {})
        /\ \E s \in SUBSET ReadLinks(workQueue) :
              ReadLinks(Tail(workQueue)) = ReadLinks(workQueue) \ s /\ Held' = Held \cup s
        /\ \A v \in Workers : v # w => at'[v] = at[v]
    BY <1>1, <1>6, <2>1, LinkTaken
  <2>3. PICK s \in SUBSET ReadLinks(workQueue) : ReadLinks(Tail(workQueue)) = ReadLinks(workQueue) \ s /\ Held' = Held \cup s
    BY <2>2
  <2>4. ReadLinks(workQueue)' = ReadLinks(workQueue) \ s
    BY <1>6, <2>3 DEF ReadLinks
  <2>5. Shared(ReadLinks(workQueue), ReadLinks(browserQueue), ReadLinks(resultQueue), Held, Recorded)'
    <3>1. Shared(ReadLinks(workQueue) \ s, ReadLinks(browserQueue), ReadLinks(resultQueue), Held \cup s, Recorded)
      BY <1>1, SharedMoves DEF InOnePlace
    <3>2. ReadLinks(browserQueue)' = ReadLinks(browserQueue) /\ ReadLinks(resultQueue)' = ReadLinks(resultQueue)
      BY <1>2, <1>6 DEF ReadLinks
    <3> QED
      BY <1>2, <2>3, <2>4, <3>1, <3>2 DEF Shared
  <2>6. Once(workQueue)' /\ Once(browserQueue)' /\ Once(resultQueue)' /\ Unmarked(resultQueue)'
    BY <1>1, <1>2, <1>6, <2>2 DEF InOnePlace, Once, Unmarked
  <2>7. InOnePlace'
    BY <2>2, <2>5, <2>6 DEF InOnePlace
  <2>8. ASSUME ~died, WorkEnds PROVE WorkEnds'
    <3>1. Ordered(workQueue)'
      BY <1>6, <2>2, <2>8 DEF WorkEnds, Ordered
    <3>2. ASSUME NEW v \in Readers, at'[v] = "gone" PROVE ReadLinks(workQueue)' = {}
      BY <1>2, <1>5, <2>2, <2>4, <2>8, <3>2 DEF WorkEnds, Gone
    <3> QED
      BY <1>4, <3>1, <3>2 DEF WorkEnds, Gone
  <2>9. ASSUME ~died, Hybrid, FallbackOpen \/ FallbackEnds PROVE (FallbackOpen \/ FallbackEnds)'
    <3>1. w \notin Browsers /\ w \in Requests /\ at[w] # "gone"
      BY <1>3, <1>6, <2>9 DEF Hybrid, UseRequest, Readers, Requests, Browsers, TakeFrom
    <3>2. FallbackOpen
      BY <2>9, <3>1 DEF FallbackEnds, Gone
    <3>3. FallbackOpen'
      BY <1>2, <1>4, <1>5, <1>6, <2>2, <3>1, <3>2 DEF FallbackOpen, Unmarked, Gone
    <3> QED
      BY <3>3
  <2> QED
    BY <1>1, <1>2, <1>4, <1>6, <2>7, <2>8, <2>9 DEF EndsInv
<1>7. CASE TakeFrom(w, browserQueue) /\ browserQueue' = Tail(browserQueue) /\ workQueue' = workQueue /\ w \in Browsers /\ Hybrid
  <2>1. Once(browserQueue) /\ HeldOnce /\ Held \cap ReadLinks(browserQueue) = {}
    BY <1>1 DEF InOnePlace, Shared
  <2>2. /\ Once(Tail(browserQueue)) /\ HeldOnce' /\ browserQueue # <<>>
        /\ Ordered(browserQueue) => Ordered(Tail(browserQueue)) /\ (at'[w] = "gone" => ReadLinks(browserQueue) = {})
        /\ Unmarked(browserQueue) => Unmarked(Tail(browserQueue)) /\ at'[w] # "gone"
        /\ \E s \in SUBSET ReadLinks(browserQueue) :
              ReadLinks(Tail(browserQueue)) = ReadLinks(browserQueue) \ s /\ Held' = Held \cup s
        /\ \A v \in Workers : v # w => at'[v] = at[v]
    BY <1>1, <1>7, <2>1, LinkTaken
  <2>3. PICK s \in SUBSET ReadLinks(browserQueue) :
          ReadLinks(Tail(browserQueue)) = ReadLinks(browserQueue) \ s /\ Held' = Held \cup s
    BY <2>2
  <2>4. ReadLinks(browserQueue)' = ReadLinks(browserQueue) \ s
    BY <1>7, <2>3 DEF ReadLinks
  <2>5. Shared(ReadLinks(workQueue), ReadLinks(browserQueue), ReadLinks(resultQueue), Held, Recorded)'
    <3>1. Shared(ReadLinks(workQueue), ReadLinks(browserQueue) \ s, ReadLinks(resultQueue), Held \cup s, Recorded)
      BY <1>1, SharedMoves DEF InOnePlace
    <3>2. ReadLinks(workQueue)' = ReadLinks(workQueue) /\ ReadLinks(resultQueue)' = ReadLinks(resultQueue)
      BY <1>2, <1>7 DEF ReadLinks
    <3> QED
      BY <1>2, <2>3, <2>4, <3>1, <3>2 DEF Shared
  <2>6. Once(workQueue)' /\ Once(browserQueue)' /\ Once(resultQueue)' /\ Unmarked(resultQueue)'
    BY <1>1, <1>2, <1>7, <2>2 DEF InOnePlace, Once, Unmarked
  <2>7. InOnePlace'
    BY <2>2, <2>5, <2>6 DEF InOnePlace
  <2>8. w \notin Requests /\ w \notin Readers
    BY <1>3, <1>7 DEF Hybrid, Readers, Requests, Browsers
  <2>9. WorkEnds => WorkEnds'
    <3>1. \A v \in Readers : at'[v] = at[v]
      BY <1>5, <2>2, <2>8
    <3>2. ReadLinks(workQueue)' = ReadLinks(workQueue)
      BY <1>7 DEF ReadLinks
    <3> QED
      BY <1>2, <1>4, <1>7, <3>1, <3>2 DEF WorkEnds, Ordered, Gone
  <2>10. FallbackOpen => FallbackOpen'
    <3>1. Unmarked(browserQueue) => Unmarked(browserQueue)' /\ at'[w] # "gone"
      BY <1>7, <2>2 DEF Unmarked
    <3> QED
      BY <1>2, <1>4, <1>5, <2>2, <3>1 DEF FallbackOpen, Gone
  <2>11. FallbackEnds => FallbackEnds'
    <3>1. Ordered(browserQueue) => Ordered(browserQueue)' /\ (at'[w] = "gone" => ReadLinks(browserQueue) = {})
      BY <1>7, <2>2 DEF Ordered
    <3>2. \A v \in Requests : at'[v] = at[v]
      BY <1>5, <2>2, <2>8
    <3>3. ASSUME FallbackEnds, NEW v \in Browsers, at'[v] = "gone" PROVE ReadLinks(browserQueue)' = {}
      BY <1>5, <2>2, <2>4, <3>1, <3>3 DEF FallbackEnds, Gone
    <3> QED
      BY <1>2, <1>4, <3>1, <3>2, <3>3 DEF FallbackEnds, Gone
  <2> QED
    BY <1>1, <1>2, <1>4, <1>7, <2>7, <2>9, <2>10, <2>11 DEF EndsInv
<1> QED
  BY <1>2, <1>6, <1>7 DEF RequestTake, BrowserTake, BrowserInput, Readers, UseRequest, Hybrid

\* The steps at which a worker lets go of a link, or has none.
LEMMA GiveKeepsLinks ==
    ASSUME LinkInv, NEW w \in Workers, RequestDone(w) \/ BrowserDone(w) \/ Recycled(w) \/ Opens(w) \/ Dies(w), pc \in LoopPc
    PROVE  InOnePlace' /\ EndsInv'
<1>1. LinkType /\ InOnePlace /\ EndsInv /\ RequestWorkers \cap BrowserWorkers = {}
  BY PassAssumption DEF LinkInv, PlaceInv
<1>2. /\ pc' = pc /\ pc # "start" /\ UNCHANGED <<hands, marker, times>> /\ Recorded' = Recorded
      /\ at[w] # "gone" /\ \A v \in Workers : v # w => at'[v] = at[v]
  BY <1>1 DEF RequestDone, BrowserDone, Recycled, Opens, Dies, Put, Working, flow, counts, Recorded, LinkType
<1>3. UNCHANGED <<Requests, Browsers, Readers>> /\ (UseRequest' <=> UseRequest) /\ (Hybrid' <=> Hybrid)
      /\ Readers \subseteq Workers /\ Browsers \subseteq Workers /\ Requests \subseteq Workers
  BY <1>2 DEF Requests, Browsers, UseRequest, Hybrid, Readers, Workers
<1>4. CASE item[w] # NoLink
  <2>1. item' = [item EXCEPT ![w] = NoLink] /\ at[w] = "work"
    BY <1>1, <1>4 DEF RequestDone, BrowserDone, Recycled, Opens, Dies, Put, LinkType
  <2>2. HeldOnce' /\ Held' = Held \ {item[w]} /\ item[w] \in Held /\ item[w] \in Links
    BY <1>1, <1>4, <2>1, HandGives DEF InOnePlace
  <2>3. PICK l \in Links : l = item[w]
    BY <2>2
  <2>4. /\ Once(workQueue) /\ Once(browserQueue) /\ Once(resultQueue)
        /\ l \notin ReadLinks(workQueue) /\ l \notin ReadLinks(browserQueue) /\ l \notin ReadLinks(resultQueue)
    BY <1>1, <2>2, <2>3 DEF InOnePlace, Shared
  <2>5. \/ workQueue' = Append(workQueue, l) /\ UNCHANGED <<browserQueue, resultQueue>>
        \/ browserQueue' = Append(browserQueue, l) /\ UNCHANGED <<workQueue, resultQueue>>
        \/ resultQueue' = Append(resultQueue, l) /\ UNCHANGED <<workQueue, browserQueue>>
    BY <1>1, <1>4, <2>1, <2>3 DEF RequestDone, BrowserDone, Recycled, Opens, Dies, Put, LinkType
  <2>6. InOnePlace'
    <3>1. Shared(ReadLinks(workQueue), ReadLinks(browserQueue), ReadLinks(resultQueue), Held, Recorded) /\ {l} \subseteq Held
      BY <1>1, <2>2, <2>3 DEF InOnePlace
    <3>2. CASE workQueue' = Append(workQueue, l) /\ UNCHANGED <<browserQueue, resultQueue>>
      <4>1. Once(workQueue') /\ ReadLinks(workQueue') = ReadLinks(workQueue) \cup {l}
        BY <1>1, <2>4, <3>2, QueueAppend DEF LinkType
      <4>2. Shared(ReadLinks(workQueue) \cup {l}, ReadLinks(browserQueue), ReadLinks(resultQueue), Held \ {l}, Recorded)
        BY <3>1, SharedMoves
      <4>3. Unmarked(resultQueue) /\ Unmarked(resultQueue') = Unmarked(resultQueue)
        BY <1>1, <3>2 DEF InOnePlace
      <4> QED
        BY <1>2, <2>2, <2>3, <2>4, <3>2, <4>1, <4>2, <4>3 DEF InOnePlace
    <3>3. CASE browserQueue' = Append(browserQueue, l) /\ UNCHANGED <<workQueue, resultQueue>>
      <4>1. Once(browserQueue') /\ ReadLinks(browserQueue') = ReadLinks(browserQueue) \cup {l}
        BY <1>1, <2>4, <3>3, QueueAppend DEF LinkType
      <4>2. Shared(ReadLinks(workQueue), ReadLinks(browserQueue) \cup {l}, ReadLinks(resultQueue), Held \ {l}, Recorded)
        BY <3>1, SharedMoves
      <4>3. Unmarked(resultQueue) /\ Unmarked(resultQueue') = Unmarked(resultQueue)
        BY <1>1, <3>3 DEF InOnePlace
      <4> QED
        BY <1>2, <2>2, <2>3, <2>4, <3>3, <4>1, <4>2, <4>3 DEF InOnePlace
    <3>4. CASE resultQueue' = Append(resultQueue, l) /\ UNCHANGED <<workQueue, browserQueue>>
      <4>1. Once(resultQueue') /\ Unmarked(resultQueue') /\ ReadLinks(resultQueue') = ReadLinks(resultQueue) \cup {l}
        BY <1>1, <2>4, <3>4, QueueAppend DEF LinkType, InOnePlace
      <4>2. Shared(ReadLinks(workQueue), ReadLinks(browserQueue), ReadLinks(resultQueue) \cup {l}, Held \ {l}, Recorded)
        BY <3>1, SharedMoves
      <4> QED
        BY <1>2, <2>2, <2>3, <2>4, <3>4, <4>1, <4>2 DEF InOnePlace
    <3> QED
      BY <2>5, <3>2, <3>3, <3>4
  <2>7. EndsInv'
    <3>1. CASE Dies(w)
      BY <3>1 DEF Dies, EndsInv
    <3>2. CASE RequestDone(w) \/ BrowserDone(w)
      <4>1. died' = died /\ workQueue' = workQueue /\ at'[w] # "gone"
        BY <1>1, <3>2 DEF RequestDone, BrowserDone, Put, LinkType
      <4>2. WorkEnds => WorkEnds'
        BY <1>2, <1>3, <4>1 DEF WorkEnds, Ordered, Gone, ReadLinks
      <4>3. browserQueue' = browserQueue \/ (Hybrid /\ w \in Requests /\ browserQueue' = Append(browserQueue, l))
        BY <2>3, <3>2 DEF RequestDone, BrowserDone
      <4>4. Hybrid /\ FallbackOpen => FallbackOpen'
        <5>1. Unmarked(browserQueue) => Unmarked(browserQueue)'
          <6>1. CASE browserQueue' = browserQueue
            BY <6>1 DEF Unmarked
          <6>2. CASE browserQueue' = Append(browserQueue, l)
            BY <1>1, <2>4, <6>2, QueueAppend DEF LinkType
          <6> QED
            BY <4>3, <6>1, <6>2
        <5> QED
          BY <1>2, <1>3, <4>1, <5>1 DEF FallbackOpen, Gone
      <4>5. FallbackEnds => FallbackEnds'
        <5>1. FallbackEnds => browserQueue' = browserQueue
          BY <1>2, <4>3 DEF FallbackEnds, Gone
        <5>2. \A v \in Workers : at'[v] = "gone" => at[v] = "gone"
          BY <1>2, <4>1
        <5>3. \A v \in Workers : at[v] = "gone" => at'[v] = "gone"
          BY <1>2
        <5> QED
          BY <1>2, <1>3, <5>1, <5>2, <5>3 DEF FallbackEnds, Ordered, Gone, ReadLinks
      <4>6. ~Hybrid => browserQueue' = browserQueue
        BY <4>3
      <4> QED
        BY <1>1, <1>2, <1>3, <4>1, <4>2, <4>4, <4>5, <4>6 DEF EndsInv
    <3> QED
      BY <2>1, <3>1, <3>2 DEF Recycled, Opens
  <2> QED
    BY <2>6, <2>7
<1>5. CASE item[w] = NoLink
  <2>1. item' = item /\ UNCHANGED <<workQueue, browserQueue, resultQueue>>
    BY <1>1, <1>5 DEF RequestDone, BrowserDone, Recycled, Opens, Dies, Put, LinkType, queues
  <2>2. InOnePlace'
    BY <1>1, <1>2, <2>1 DEF InOnePlace, Held, HeldOnce, Once, Unmarked, ReadLinks
  <2>3. died' \/ (died' = died /\ at'[w] # "gone")
    BY <1>1, <1>5 DEF RequestDone, BrowserDone, Recycled, Opens, Dies, Put, LinkType
  <2>4. \A v \in Workers : at[v] = "gone" => at'[v] = "gone"
    BY <1>2
  <2>5. ASSUME ~died' PROVE EndsInv'
    <3>1. died' = died /\ \A v \in Workers : at'[v] = "gone" => at[v] = "gone"
      BY <1>2, <2>3, <2>5
    <3>2. WorkEnds => WorkEnds'
      BY <1>2, <1>3, <2>1, <3>1 DEF WorkEnds, Ordered, Gone, ReadLinks
    <3>3. (FallbackOpen => FallbackOpen') /\ (FallbackEnds => FallbackEnds')
      BY <1>2, <1>3, <2>1, <2>4, <3>1 DEF FallbackOpen, FallbackEnds, Unmarked, Ordered, Gone, ReadLinks
    <3> QED
      BY <1>1, <1>2, <1>3, <2>1, <3>1, <3>2, <3>3 DEF EndsInv
  <2> QED
    BY <2>2, <2>5 DEF EndsInv
<1> QED
  BY <1>4, <1>5

\* Steps that leave the links, the queues and the workers alone.
LEMMA LinksKept ==
    ASSUME LinkInv, UNCHANGED <<hands, queues, crew, times, processed, givenUp>>,
           pc' \in LoopPc \ {"start"} => pc \in LoopPc \ {"start"}, pc' # "start" \/ pc = "start",
           marker' = marker \/ (pc' \notin LoopPc /\ marker' = "over")
    PROVE  LinkInv'
<1>1. UNCHANGED <<hands, workQueue, browserQueue, resultQueue, at, item, died, times, processed, givenUp>>
  BY DEF queues, crew
<1>2. UNCHANGED <<Requests, Browsers, Readers, Recorded, Held>> /\ (UseRequest' <=> UseRequest) /\ (Hybrid' <=> Hybrid)
  BY <1>1 DEF Requests, Browsers, UseRequest, Hybrid, Readers, Recorded, Held
<1>3. LinkType'
  BY <1>1, <1>2 DEF LinkInv, LinkType
<1>4. PlaceInv'
  BY <1>1, <1>2 DEF LinkInv, PlaceInv, InOnePlace, Once, Unmarked, HeldOnce, ReadLinks, LoopPc
<1>5. GivenInv'
  <2>1. pc' \in LoopPc => pc \in LoopPc
    BY DEF LoopPc
  <2> QED
    BY <1>1, <2>1 DEF LinkInv, GivenInv, ReadLinks
<1>6. EndsInv'
  <2> SUFFICES ASSUME pc' \in LoopPc, ~died PROVE EndsInv'
    BY <1>1 DEF EndsInv
  <2>1. pc \in LoopPc /\ marker' = marker /\ (pc' = "start" <=> pc = "start")
    BY DEF LoopPc
  <2>2. WorkEnds => WorkEnds'
    BY <1>1, <1>2, <2>1 DEF WorkEnds, Ordered, Gone, ReadLinks
  <2>3. (FallbackOpen => FallbackOpen') /\ (FallbackEnds => FallbackEnds')
    BY <1>1, <1>2, <2>1 DEF FallbackOpen, FallbackEnds, Unmarked, Ordered, Gone, ReadLinks
  <2> QED
    BY <1>1, <1>2, <2>1, <2>2, <2>3 DEF LinkInv, EndsInv
<1>7. MarkInv'
  BY <1>2 DEF LinkInv, MarkInv
<1> QED
  BY <1>3, <1>4, <1>5, <1>6, <1>7 DEF LinkInv

LEMMA MarkersKeepLinks ==
    ASSUME LinkInv, MarkEnds \/ Released
    PROVE  LinkInv'
<1>1. LinkType /\ PlaceInv /\ EndsInv /\ GivenInv
  BY DEF LinkInv
<1>2. /\ UNCHANGED <<hands, workQueue, resultQueue, at, item, died, pc, times, processed, givenUp>> /\ pc # "start"
      /\ marker' \in {"browsers", "over"}
  BY DEF MarkEnds, Released, Working, crew, flow, counts, queues
<1>3. UNCHANGED <<Requests, Browsers, Readers, Recorded, Held>> /\ (UseRequest' <=> UseRequest) /\ (Hybrid' <=> Hybrid)
  BY <1>2 DEF Requests, Browsers, UseRequest, Hybrid, Readers, Recorded, Held
<1>4. PICK n \in Nat : n = Cardinality(Browsers)
  <2>1. IsFiniteSet(Browsers)
    BY PassAssumption, FS_Subset DEF Browsers, Workers
  <2> QED
    BY <2>1, FS_CardinalityType
<1>5. browserQueue' = browserQueue \o EndMarkers(n) \/ browserQueue' = browserQueue
  BY <1>4 DEF MarkEnds, Released, queues
<1>6. browserQueue' \in Seq(Item)
  <2>1. EndMarkers(n) \in Seq(Item)
    BY <1>4, SeqDef DEF EndMarkers, Item
  <2>2. browserQueue \in Seq(Item)
    BY <1>1 DEF LinkType
  <2>3. browserQueue \o EndMarkers(n) \in Seq(Item)
    BY <2>1, <2>2, ConcatProperties
  <2> QED
    BY <1>5, <2>2, <2>3
<1>7. LinkType' /\ GivenInv'
  BY <1>1, <1>2, <1>3, <1>6 DEF LinkType, GivenInv, ReadLinks
<1>8. ASSUME pc \in LoopPc PROVE Once(browserQueue') /\ ReadLinks(browserQueue') = ReadLinks(browserQueue)
                                 /\ (Unmarked(browserQueue) /\ MarkEnds => Ordered(browserQueue'))
  <2>1. Once(browserQueue)
    BY <1>1, <1>8 DEF PlaceInv, InOnePlace
  <2>2. CASE browserQueue' = browserQueue \o EndMarkers(n)
    BY <1>1, <2>1, <2>2, <1>4, QueueMarked DEF LinkType
  <2>3. CASE browserQueue' = browserQueue /\ ~MarkEnds
    BY <2>1, <2>3
  <2> QED
    BY <1>4, <1>5, <2>2, <2>3 DEF MarkEnds
<1>9. PlaceInv'
  <2> SUFFICES ASSUME pc \in LoopPc PROVE InOnePlace' /\ givenUp' = {}
    BY <1>2 DEF PlaceInv
  <2>1. ReadLinks(workQueue)' = ReadLinks(workQueue) /\ ReadLinks(resultQueue)' = ReadLinks(resultQueue)
        /\ Once(workQueue)' = Once(workQueue) /\ Once(resultQueue)' = Once(resultQueue) /\ HeldOnce' = HeldOnce
        /\ Unmarked(resultQueue)' = Unmarked(resultQueue)
    BY <1>2 DEF ReadLinks, Once, Unmarked, HeldOnce
  <2>2. ReadLinks(browserQueue)' = ReadLinks(browserQueue) /\ Once(browserQueue)'
    BY <1>8
  <2> QED
    BY <1>1, <1>2, <1>3, <2>1, <2>2 DEF PlaceInv, InOnePlace
<1>10. EndsInv'
  <2> SUFFICES ASSUME pc \in LoopPc, ~died PROVE EndsInv'
    BY <1>2 DEF EndsInv
  <2>1. WorkEnds'
    BY <1>1, <1>2, <1>3 DEF EndsInv, WorkEnds, Ordered, Gone, ReadLinks
  <2>2. Hybrid => FallbackEnds'
    <3>1. ASSUME Hybrid, MarkEnds PROVE FallbackEnds'
      <4>1. FallbackOpen /\ \A w \in Requests : Gone(w)
        BY <1>1, <1>2, <3>1 DEF EndsInv, MarkEnds, FallbackEnds
      <4>2. Ordered(browserQueue')
        BY <1>8, <3>1, <4>1 DEF FallbackOpen
      <4> QED
        BY <1>2, <1>3, <4>1, <4>2 DEF FallbackOpen, FallbackEnds, Gone
    <3>2. ASSUME Hybrid, Released PROVE FallbackEnds'
      <4>1. FallbackEnds /\ browserQueue' = browserQueue
        BY <1>1, <1>2, <3>2 DEF EndsInv, Released, FallbackOpen, queues
      <4> QED
        BY <1>2, <1>3, <4>1 DEF FallbackEnds, Ordered, Gone, ReadLinks
    <3> QED
      BY <3>1, <3>2
  <2>3. ~Hybrid => browserQueue' = browserQueue
    BY DEF LinkInv, MarkInv, MarkEnds, Released, queues
  <2> QED
    BY <1>1, <1>2, <1>3, <2>1, <2>2, <2>3 DEF EndsInv
<1> QED
  BY <1>2, <1>7, <1>9, <1>10 DEF LinkInv, MarkInv

LEMMA RecordedFinite == IsFiniteSet(Links) /\ IsFiniteSet(Recorded) /\ Recorded \subseteq Links
<1>1. IsFiniteSet(Links) /\ Recorded \in SUBSET Links
  BY PassAssumption DEF Recorded
<1> QED
  BY <1>1, FS_Subset

LEMMA StartKeepsLinks ==
    ASSUME LinkInv, PoolInv, Start
    PROVE  LinkInv'
<1>1. LinkType /\ PlaceInv /\ EndsInv /\ GivenInv
  BY DEF LinkInv
<1>2. /\ pc = "start" /\ pc' = "consume" /\ at' = [w \in Workers |-> FirstPlace(w)]
      /\ marker' = IF Hybrid THEN "requests" ELSE "none"
      /\ UNCHANGED <<hands, workQueue, browserQueue, resultQueue, item, died, times, processed, givenUp>>
  BY DEF Start, Goto, counts, queues
<1>3. UNCHANGED <<Requests, Browsers, Readers, Recorded, Held>> /\ (UseRequest' <=> UseRequest) /\ (Hybrid' <=> Hybrid)
  BY <1>2 DEF Requests, Browsers, UseRequest, Hybrid, Readers, Recorded, Held
<1>4. \A w \in Workers : item[w] = NoLink /\ FirstPlace(w) \in {"open", "get", "gone"} /\ (FirstPlace(w) = "gone" <=> w \notin hands)
  BY <1>1, <1>2 DEF PoolInv, NoWorker, LinkType, FirstPlace
<1>5. LinkType'
  BY <1>1, <1>2, <1>3, <1>4 DEF LinkType
<1>6. PlaceInv'
  BY <1>1, <1>2, <1>3 DEF PlaceInv, InOnePlace, Once, Unmarked, HeldOnce, ReadLinks, LoopPc
<1>7. GivenInv' /\ MarkInv'
  BY <1>1, <1>2, <1>3 DEF GivenInv, PlaceInv, LoopPc, MarkInv
<1>8. EndsInv'
  <2> SUFFICES ASSUME ~died PROVE EndsInv'
    BY <1>2 DEF EndsInv
  <2>1. Ordered(workQueue) /\ browserQueue = <<>>
    BY <1>1, <1>2 DEF EndsInv, WorkEnds, LoopPc
  <2>2. Readers \subseteq hands /\ Browsers \subseteq hands /\ Requests \subseteq hands /\ hands \subseteq Workers
    BY <1>1 DEF Readers, Requests, Browsers, LinkType, Workers
  <2>3. WorkEnds'
    BY <1>2, <1>3, <1>4, <2>1, <2>2 DEF WorkEnds, Ordered, Gone
  <2>4. Hybrid => FallbackOpen'
    <3>1. Len(browserQueue) = 0
      BY <2>1
    <3>2. Unmarked(browserQueue)
      BY <3>1 DEF Unmarked
    <3> QED
      BY <1>2, <1>3, <1>4, <2>2, <3>2 DEF FallbackOpen, Gone, Unmarked
  <2> QED
    BY <1>2, <1>3, <2>1, <2>3, <2>4 DEF EndsInv
<1> QED
  BY <1>5, <1>6, <1>7, <1>8 DEF LinkInv

LEMMA ResultKeepsLinks ==
    ASSUME LinkInv, TakeResult
    PROVE  LinkInv' /\ Head(resultQueue) \in Links /\ Recorded' = Recorded \cup {Head(resultQueue)}
<1>1. LinkType /\ InOnePlace /\ EndsInv /\ GivenInv /\ MarkInv /\ givenUp = {}
  BY DEF LinkInv, PlaceInv, TakeResult, LoopPc
<1>2. PICK l : l = Head(resultQueue)
  OBVIOUS
<1>3. /\ pc = "consume" /\ pc' = "result" /\ resultQueue # <<>> /\ resultQueue' = Tail(resultQueue)
      /\ times' = [times EXCEPT ![l] = @ + 1] /\ processed' = processed + 1
      /\ UNCHANGED <<hands, workQueue, browserQueue, at, item, died, marker, givenUp>>
  BY <1>2 DEF TakeResult, Goto, crew
<1>4. UNCHANGED <<Requests, Browsers, Readers, Held>> /\ (UseRequest' <=> UseRequest) /\ (Hybrid' <=> Hybrid)
  BY <1>3 DEF Requests, Browsers, UseRequest, Hybrid, Readers, Held
<1>5. /\ resultQueue' \in Seq(Item) /\ Once(resultQueue)' /\ Unmarked(resultQueue)'
      /\ ReadLinks(resultQueue)' = ReadLinks(resultQueue) \ {l} /\ l \in ReadLinks(resultQueue) /\ l \in Links
  <2>1. resultQueue \in Seq(Item) /\ Once(resultQueue) /\ Unmarked(resultQueue)
    BY <1>1 DEF LinkType, InOnePlace
  <2>2. /\ Tail(resultQueue) \in Seq(Item) /\ Once(Tail(resultQueue)) /\ Unmarked(Tail(resultQueue))
        /\ ReadLinks(Tail(resultQueue)) = ReadLinks(resultQueue) \ {l} /\ l \in ReadLinks(resultQueue)
    BY <1>2, <1>3, <2>1, QueueTail
  <2>3. ReadLinks(resultQueue) \subseteq Links
    BY <2>1, QueueReads
  <2> QED
    BY <1>3, <2>2, <2>3
<1>6. l \notin Recorded /\ Recorded' = Recorded \cup {l} /\ times' \in [Links -> {0, 1}]
  <2>1. l \notin Recorded
    BY <1>1, <1>5 DEF InOnePlace, Shared
  <2>2. times[l] = 0 /\ times \in [Links -> {0, 1}]
    BY <1>1, <1>5, <2>1 DEF LinkType, Recorded
  <2>3. times'[l] = 1 /\ times' \in [Links -> {0, 1}] /\ \A k \in Links : k # l => times'[k] = times[k]
    BY <1>3, <1>5, <2>2
  <2> QED
    BY <1>5, <2>1, <2>3 DEF Recorded
<1>7. Cardinality(Recorded') = Cardinality(Recorded) + 1
  <2>1. Cardinality(Recorded \cup {l}) = Cardinality(Recorded) + 1
    BY <1>6, RecordedFinite, FS_AddElement
  <2> QED
    BY <1>6, <2>1
<1>8. LinkType'
  BY <1>1, <1>3, <1>5, <1>6, <1>7 DEF LinkType
<1>9. InOnePlace'
  <2>1. Shared(ReadLinks(workQueue), ReadLinks(browserQueue), ReadLinks(resultQueue) \ {l}, Held, Recorded \cup {l})
    BY <1>1, <1>5, SharedMoves DEF InOnePlace
  <2>2. /\ Once(workQueue)' /\ Once(browserQueue)' /\ HeldOnce'
        /\ ReadLinks(workQueue)' = ReadLinks(workQueue) /\ ReadLinks(browserQueue)' = ReadLinks(browserQueue)
    BY <1>1, <1>3 DEF InOnePlace, Once, HeldOnce, ReadLinks
  <2> QED
    BY <1>4, <1>5, <1>6, <2>1, <2>2 DEF InOnePlace
<1>10. EndsInv'
  <2>1. WorkEnds => WorkEnds'
    BY <1>3, <1>4 DEF WorkEnds, Ordered, Gone, ReadLinks
  <2>2. (FallbackOpen => FallbackOpen') /\ (FallbackEnds => FallbackEnds')
    BY <1>3, <1>4 DEF FallbackOpen, FallbackEnds, Unmarked, Ordered, Gone, ReadLinks
  <2> QED
    BY <1>1, <1>3, <1>4, <2>1, <2>2 DEF EndsInv, LoopPc
<1> QED
  BY <1>1, <1>2, <1>3, <1>4, <1>5, <1>6, <1>8, <1>9, <1>10 DEF LinkInv, PlaceInv, GivenInv, MarkInv

\* As the last wait ends with every worker gone and none dead, whatever has no result is on its way.
LEMMA NothingOwed ==
    ASSUME LinkInv, pc = "late", ~died, AllGone
    PROVE  Remaining \subseteq ReadLinks(resultQueue)
<1>1. LinkType /\ InOnePlace /\ EndsInv /\ WorkEnds
  BY DEF LinkInv, PlaceInv, EndsInv, LoopPc
<1>2. Readers \subseteq hands /\ Readers # {} /\ Browsers \subseteq hands
  BY <1>1 DEF Readers, UseRequest, Requests, Browsers, LinkType, Workers
<1>3. ReadLinks(workQueue) = {}
  BY <1>1, <1>2 DEF WorkEnds, AllGone
<1>4. ReadLinks(browserQueue) = {}
  <2>1. CASE Hybrid
    <3>1. Browsers # {} /\ ~FallbackOpen
      BY <1>2, <2>1 DEF Hybrid, FallbackOpen, AllGone
    <3>2. FallbackEnds
      BY <1>1, <2>1, <3>1 DEF EndsInv, LoopPc
    <3> QED
      BY <1>2, <3>1, <3>2 DEF FallbackEnds, AllGone
  <2>2. CASE ~Hybrid
    BY <1>1, <2>2 DEF EndsInv, LoopPc, ReadLinks
  <2> QED
    BY <2>1, <2>2
<1>5. Held = {}
  BY <1>1 DEF Held, LinkType, AllGone, Gone
<1>6. Remaining \cap Recorded = {} /\ Remaining \subseteq Links
  BY <1>1 DEF Remaining, Recorded, LinkType
<1> QED
  BY <1>1, <1>3, <1>4, <1>5, <1>6 DEF InOnePlace, Shared

LEMMA AbandonKeepsLinks ==
    ASSUME LinkInv, Abandon
    PROVE  LinkInv' /\ processed' = Cardinality(Links) /\ Recorded' = Links
<1>1. LinkType /\ MarkInv
  BY DEF LinkInv
<1>2. /\ pc = "late" /\ AllGone /\ pc' = "join" /\ givenUp' = Remaining
      /\ times' = [l \in Links |-> IF l \in Remaining THEN 1 ELSE times[l]]
      /\ processed' = processed + Cardinality(Remaining)
      /\ UNCHANGED <<hands, workQueue, browserQueue, resultQueue, at, item, died, marker>>
  BY DEF Abandon, Goto, Same, queues, crew
<1>3. Remaining = Links \ Recorded /\ Recorded \subseteq Links
  BY <1>1 DEF Remaining, Recorded, LinkType
<1>4. times' \in [Links -> {0, 1}] /\ Recorded' = Links
  <2>1. \A l \in Links : times'[l] = 1
    BY <1>1, <1>2, <1>3 DEF Recorded, LinkType
  <2> QED
    BY <1>1, <1>2, <2>1 DEF Recorded, LinkType
<1>5. Cardinality(Links) = Cardinality(Recorded) + Cardinality(Remaining)
  <2>1. IsFiniteSet(Remaining) /\ IsFiniteSet(Recorded)
    BY <1>3, RecordedFinite, FS_Subset
  <2>2. Cardinality(Recorded \cup Remaining) = Cardinality(Recorded) + Cardinality(Remaining) - Cardinality(Recorded \cap Remaining)
    BY <2>1, FS_Union
  <2>3. Recorded \cup Remaining = Links /\ Recorded \cap Remaining = {}
    BY <1>3
  <2>4. Cardinality(Recorded \cup Remaining) = Cardinality(Links) /\ Cardinality(Recorded \cap Remaining) = 0
    BY <2>3, FS_EmptySet
  <2>5. Cardinality(Recorded) \in Nat /\ Cardinality(Remaining) \in Nat
    BY <2>1, FS_CardinalityType
  <2> QED
    BY <2>2, <2>4, <2>5
<1>6. processed' = Cardinality(Links)
  BY <1>1, <1>2, <1>5 DEF LinkType
<1>7. LinkType'
  BY <1>1, <1>2, <1>4, <1>6 DEF LinkType
<1>8. GivenInv'
  <2>1. \A w \in Workers : at[w] = "gone"
    BY <1>1, <1>2 DEF AllGone, Gone, LinkType
  <2>2. Remaining \subseteq ReadLinks(resultQueue) \/ died
    BY <1>2, NothingOwed DEF LinkType
  <2> QED
    BY <1>2, <2>1, <2>2 DEF GivenInv, LoopPc, ReadLinks
<1>9. PlaceInv' /\ EndsInv' /\ MarkInv'
  BY <1>1, <1>2 DEF PlaceInv, EndsInv, LoopPc, MarkInv, Hybrid, UseRequest, Requests, Browsers
<1> QED
  BY <1>4, <1>6, <1>7, <1>8, <1>9 DEF LinkInv

LEMMA WorkersKeepLinks ==
    ASSUME LinkInv, NEW w \in Workers, WorkerStep(w) \/ Dies(w)
    PROVE  LinkInv'
<1>1. LinkType' /\ GivenInv' /\ pc' = pc /\ UNCHANGED <<hands, marker, givenUp>>
  BY WorkersTyped
<1>2. MarkInv'
  BY <1>1 DEF LinkInv, MarkInv, Hybrid, UseRequest, Requests, Browsers
<1>3. CASE pc \in LoopPc
  <2>1. ~Stopped(w)
    BY <1>3 DEF Stopped, LoopPc
  <2>2. InOnePlace' /\ EndsInv'
    BY <1>3, <2>1, TakeKeepsLinks, GiveKeepsLinks DEF WorkerStep
  <2> QED
    BY <1>1, <1>2, <1>3, <2>2 DEF LinkInv, PlaceInv
<1>4. CASE pc \notin LoopPc
  BY <1>1, <1>2, <1>4 DEF LinkInv, PlaceInv, EndsInv
<1> QED
  BY <1>3, <1>4

\* Steps of the pass that move it on without a result.
LEMMA PassKeepsLinks ==
    ASSUME LinkInv, PassStep, ~Start, ~TakeResult, ~Abandon
    PROVE  LinkInv'
<1> USE DEF Goto, LoopPc, Same
<1>1. CASE ResultTold \/ WaitOver \/ WaitAgain \/ LoopOver \/ Joined
  BY <1>1, LinksKept DEF ResultTold, WaitOver, WaitAgain, LoopOver, Joined, counts
<1>2. CASE JoinedWorkers
  BY <1>2, LinksKept DEF JoinedWorkers, counts
<1>3. CASE ReleasedPools \/ Prepared \/ NotesTold
  BY <1>3, LinksKept DEF ReleasedPools, Prepared, NotesTold, counts
<1>4. CASE SaveDone
  BY <1>4, LinksKept DEF SaveDone, SavePc, Hook, counts
<1>5. CASE SaveFails
  BY <1>5, LinksKept DEF SaveFails, SavePc, counts
<1>6. CASE HookDone
  BY <1>6, LinksKept DEF HookDone, HookPc, AfterHook, counts
<1> QED
  BY <1>1, <1>2, <1>3, <1>4, <1>5, <1>6 DEF PassStep

LEMMA CancelKeepsLinks ==
    ASSUME LinkInv, Cancel
    PROVE  LinkInv'
<1>1. UNCHANGED <<hands, queues, crew, marker, times, processed, givenUp>>
  BY DEF Cancel, Same, counts
<1>2. pc' = pc \/ pc' \notin LoopPc
  BY DEF Cancel, CancelLoop, CancelOwned, CancelSave, CancelFlush, CancelLast, CancelNotes, CancelWarning,
         Goto, LoopPc
<1> QED
  BY <1>1, <1>2, LinksKept DEF LoopPc

LEMMA LinkStep == LinkInv /\ PoolInv /\ [Next]_vars => LinkInv'
<1> SUFFICES ASSUME LinkInv, PoolInv, [Next]_vars PROVE LinkInv'
  OBVIOUS
<1>1. CASE \E w \in Workers : WorkerStep(w) \/ Dies(w)
  BY <1>1, WorkersKeepLinks
<1>2. CASE MarkEnds \/ Released
  BY <1>2, MarkersKeepLinks
<1>3. CASE StartFails \/ LoopFails
  BY <1>3, LinksKept DEF StartFails, LoopFails, Goto, LoopPc, Same, counts
<1>4. CASE PassStep
  BY <1>4, StartKeepsLinks, ResultKeepsLinks, AbandonKeepsLinks, PassKeepsLinks
<1>5. CASE Cancel
  BY <1>5, CancelKeepsLinks
<1>6. CASE UNCHANGED vars
  BY <1>6, LinksKept DEF vars, flow, counts
<1> QED
  BY <1>1, <1>2, <1>3, <1>4, <1>5, <1>6 DEF Next
-----------------------------------------------------------------------------
(* Where the pass stands, and what it has in memory.                       *)

PassPc == LoopPc \cup AfterJoin \cup {"join", "shutdown"}

FlowType ==
    /\ store \in BOOLEAN /\ pc \in PassPc /\ err \in {"none", "cancelled", "failed"}
    /\ cut \in BOOLEAN /\ complete \in BOOLEAN /\ saveFailed \in BOOLEAN /\ notesCut \in BOOLEAN
    /\ cancels \in 0 .. MaxCancels
    /\ buffered \subseteq Links /\ unsaved \subseteq Links /\ stored \subseteq Links
    /\ reported \subseteq Links /\ givenUp \subseteq Links

LEMMA FlowInit == Init => FlowType
<1> SUFFICES ASSUME Init PROVE FlowType
  OBVIOUS
<1>1. store \in BOOLEAN /\ 0 \in 0 .. MaxCancels
  BY PassAssumption DEF Init
<1> QED
  BY <1>1 DEF Init, FlowType, PassPc, LoopPc

LEMMA PassKeepsFlow ==
    ASSUME LinkInv, FlowType, PassStep
    PROVE  FlowType'
<1> USE DEF FlowType, Goto, Raise, Same, counts, chain, losses, PassPc, LoopPc, AfterJoin
<1>1. CASE Start \/ ResultTold \/ WaitOver \/ WaitAgain \/ LoopOver \/ Joined \/ JoinedWorkers
  BY <1>1 DEF Start, ResultTold, WaitOver, WaitAgain, LoopOver, Joined, JoinedWorkers
<1>2. CASE TakeResult
  BY <1>2, ResultKeepsLinks DEF TakeResult
<1>3. CASE Abandon
  BY <1>3 DEF Abandon, Remaining
<1>4. CASE ReleasedPools
  BY <1>4 DEF ReleasedPools
<1>5. CASE Prepared \/ NotesTold
  BY <1>5 DEF Prepared, NotesTold
<1>6. CASE SaveDone
  <2>1. pc' \in PassPc
    BY <1>6 DEF SaveDone, SavePc, Hook
  <2>2. /\ UNCHANGED <<store, cancels, complete, saveFailed, notesCut, givenUp>> /\ cut' \in BOOLEAN
        /\ err' \in {"none", "cancelled", "failed"}
    BY <1>6 DEF SaveDone
  <2>3. buffered' \subseteq Links /\ unsaved' \subseteq Links /\ stored' \subseteq Links /\ reported' \subseteq Links
    BY <1>6 DEF SaveDone
  <2> QED
    BY <2>1, <2>2, <2>3
<1>7. CASE SaveFails
  BY <1>7 DEF SaveFails, SavePc
<1>8. CASE HookDone
  BY <1>8 DEF HookDone, HookPc, AfterHook
<1> QED
  BY <1>1, <1>2, <1>3, <1>4, <1>5, <1>6, <1>7, <1>8 DEF PassStep

LEMMA CancelKeepsFlow ==
    ASSUME FlowType, Cancel
    PROVE  FlowType'
<1> USE DEF FlowType, Goto, Raise, Same, counts, chain, losses, PassPc, LoopPc, AfterJoin
<1>1. UNCHANGED <<store, complete, givenUp>> /\ cancels' \in 0 .. MaxCancels
  BY PassAssumption DEF Cancel
<1>2. CASE CancelLoop \/ CancelOwned \/ CancelSave \/ CancelLast \/ CancelNotes \/ CancelWarning
  BY <1>1, <1>2 DEF CancelLoop, CancelOwned, CancelSave, CancelLast, CancelNotes, CancelWarning
<1>3. CASE CancelFlush
  BY <1>1, <1>3 DEF CancelFlush
<1> QED
  BY <1>2, <1>3 DEF Cancel

LEMMA FlowStep == LinkInv /\ FlowType /\ [Next]_vars => FlowType'
<1> SUFFICES ASSUME LinkInv, FlowType, [Next]_vars PROVE FlowType'
  OBVIOUS
<1>1. CASE \E w \in Workers : WorkerStep(w) \/ Dies(w)
  <2>1. UNCHANGED <<store, flow, counts, chain>>
    BY <1>1 DEF WorkerStep, RequestTake, BrowserTake, RequestDone, BrowserDone, Recycled, Opens, Stopped, Dies
  <2> QED
    BY <2>1 DEF FlowType, flow, counts, chain, losses
<1>2. CASE MarkEnds \/ Released \/ UNCHANGED vars
  BY <1>2 DEF MarkEnds, Released, vars, FlowType, flow, counts, chain, losses
<1>3. CASE StartFails \/ LoopFails
  BY <1>3 DEF StartFails, LoopFails, Goto, Raise, Same, FlowType, counts, chain, losses, PassPc
<1>4. CASE PassStep
  BY <1>4, PassKeepsFlow
<1>5. CASE Cancel
  BY <1>5, CancelKeepsFlow
<1> QED
  BY <1>1, <1>2, <1>3, <1>4, <1>5 DEF Next

\* What a pass keeps true of its links: the parts lean on one another.
PassInv == PoolInv /\ LinkInv /\ FlowType

LEMMA PassInvariant == Spec => []PassInv
<1>1. Init => PassInv
  BY PoolInit, LinkInit, FlowInit DEF PassInv
<1>2. PassInv /\ [Next]_vars => PassInv'
  BY PoolStep, LinkStep, FlowStep DEF PassInv
<1> QED
  BY <1>1, <1>2, PTL DEF Spec

\* No link is recorded twice, the counter the loop of run_scraper ends on counts the links recorded, and
\* none is given up while anybody could still report it, whichever workers die and whatever is cancelled.
THEOREM LinksStay == Spec => []LinksAccounted
<1>1. PassInv => LinksAccounted
  <2> SUFFICES ASSUME PassInv PROVE LinksAccounted
    OBVIOUS
  <2>1. LinkType /\ GivenInv /\ FlowType
    BY DEF PassInv, LinkInv
  <2>2. processed \in 0 .. Total
    <3>1. Cardinality(Recorded) \in Nat /\ Cardinality(Links) \in Nat /\ Cardinality(Recorded) <= Cardinality(Links)
      BY RecordedFinite, FS_CardinalityType, FS_Subset
    <3> QED
      BY <2>1, <3>1 DEF LinkType, Total
  <2>3. TypeOK
    <3>1. hands \subseteq Workers
      BY <2>1 DEF LinkType, Workers
    <3>2. times \in [Links -> 0 .. 2]
      BY <2>1 DEF LinkType
    <3>3. {workQueue, browserQueue, resultQueue} \subseteq Seq(Links \cup {NoLink}) /\ item \in [Workers -> Links \cup {NoLink}]
      BY <2>1 DEF LinkType, Item
    <3>4. pc \in SavePc \cup HookPc \cup {"start", "consume", "result", "late", "join", "shutdown",
                                         "release", "prepare", "notes", "end"}
      BY <2>1 DEF FlowType, PassPc, LoopPc, AfterJoin, SavePc, HookPc
    <3>5. {cut, complete, died, saveFailed, notesCut} \subseteq BOOLEAN
      BY <2>1 DEF FlowType, LinkType
    <3> QED
      BY <2>1, <2>2, <3>1, <3>2, <3>3, <3>4, <3>5 DEF TypeOK, LinkType, FlowType
  <2>4. RecordedOnce
    BY <2>1 DEF LinkType, RecordedOnce
  <2>5. GivenUpOnlyIfDead
    BY <2>1 DEF GivenInv, GivenUpOnlyIfDead
  <2> QED
    BY <2>3, <2>4, <2>5 DEF LinksAccounted
<1> QED
  BY <1>1, PassInvariant, PTL

-----------------------------------------------------------------------------
(* Results in memory, in the file, and told to the journal.                *)

\* A result recorded waits to be reported or has been; what is not saved waits to be reported; nothing
\* waits behind a report, nor at the end of a pass, unless a save failed, a flush was cancelled or the pass
\* was cancelled in its notes.
ResultsInv ==
    /\ Recorded = unsaved \cup reported /\ buffered \subseteq unsaved
    /\ err = "none" \/ ~store => Recorded \subseteq buffered \cup stored
    /\ pc \notin LoopPc /\ err = "none" => Recorded = Links
    /\ pc \in HookPc => unsaved = {}
    /\ (pc = "release" /\ ~complete) \/ pc = "end" => store \/ saveFailed \/ notesCut \/ buffered = {}
    /\ pc = "end" /\ err = "none" => unsaved = {}

\* Steps that leave the results alone: those of the loop, and those past it.
LEMMA ResultsKept ==
    ASSUME ResultsInv, UNCHANGED <<store, times, chain>>, err' = "none" => err = "none",
           pc' \notin LoopPc /\ err' = "none" => pc \notin LoopPc \/ Recorded = Links,
           pc' \in HookPc => pc \in HookPc,
           (pc' = "release" /\ ~complete') \/ pc' = "end" => buffered = {} \/ (pc' = pc /\ complete' = complete),
           pc' = "end" /\ err' = "none" => unsaved = {}
    PROVE  ResultsInv'
<1>1. UNCHANGED <<store, times, buffered, unsaved, stored, reported, saveFailed, notesCut>> /\ Recorded' = Recorded
  BY DEF chain, losses, Recorded
<1>2. Recorded' = unsaved' \cup reported' /\ buffered' \subseteq unsaved'
  BY <1>1 DEF ResultsInv
<1>3. err' = "none" \/ ~store' => Recorded' \subseteq buffered' \cup stored'
  BY <1>1 DEF ResultsInv
<1>4. pc' \notin LoopPc /\ err' = "none" => Recorded' = Links
  BY <1>1 DEF ResultsInv
<1>5. pc' \in HookPc => unsaved' = {}
  BY <1>1 DEF ResultsInv
<1>6. (pc' = "release" /\ ~complete') \/ pc' = "end" => store' \/ saveFailed' \/ notesCut' \/ buffered' = {}
  BY <1>1 DEF ResultsInv
<1> QED
  BY <1>1, <1>2, <1>3, <1>4, <1>5, <1>6 DEF ResultsInv

\* The loop ends by itself only when every link is recorded.
LEMMA LoopOverCounts ==
    ASSUME LinkType, LoopOver
    PROVE  Recorded = Links
<1>1. IsFiniteSet(Links) /\ Recorded \in SUBSET Links
  BY RecordedFinite
<1>2. Cardinality(Recorded) \in Nat /\ Cardinality(Links) \in Nat /\ Cardinality(Recorded) <= Cardinality(Links)
      /\ (Cardinality(Recorded) = Cardinality(Links) => Recorded = Links)
  BY <1>1, RecordedFinite, FS_CardinalityType, FS_Subset
<1>3. Cardinality(Recorded) >= Cardinality(Links)
  BY DEF LinkType, LoopOver, Total
<1> QED
  BY <1>2, <1>3

LEMMA PassKeepsResults ==
    ASSUME PassInv, ResultsInv, PassStep
    PROVE  ResultsInv'
<1> USE DEF Goto, Raise, Same, LoopPc, HookPc
<1>1. CASE Start \/ ResultTold \/ WaitOver \/ WaitAgain
  BY <1>1, ResultsKept DEF Start, ResultTold, WaitOver, WaitAgain, counts
<1>2. CASE TakeResult
  <2>1. PICK l : l = Head(resultQueue)
    OBVIOUS
  <2>2. /\ Recorded' = Recorded \cup {l} /\ buffered' = buffered \cup {l} /\ unsaved' = unsaved \cup {l} /\ pc' = "result"
        /\ UNCHANGED <<store, err, stored, reported>>
    BY <1>2, <2>1, ResultKeepsLinks DEF TakeResult, PassInv
  <2> QED
    BY <2>2 DEF ResultsInv
<1>3. CASE Abandon
  <2>1. /\ Recorded' = Links /\ Remaining \subseteq Links /\ Recorded \subseteq Links /\ Links = Recorded \cup Remaining
    BY <1>3, AbandonKeepsLinks DEF PassInv, LinkInv, LinkType, Remaining, Recorded
  <2>2. /\ buffered' = buffered \cup Remaining /\ unsaved' = unsaved \cup Remaining /\ pc' = "join"
        /\ UNCHANGED <<store, err, stored, reported>>
    BY <1>3 DEF Abandon
  <2> QED
    BY <2>1, <2>2 DEF ResultsInv
<1>4. CASE LoopOver
  BY <1>4, LoopOverCounts, ResultsKept DEF LoopOver, counts, PassInv, LinkInv
<1>5. CASE Joined
  BY <1>5, ResultsKept DEF Joined, counts
<1>6. CASE JoinedWorkers
  <2>1. buffered \subseteq unsaved /\ (unsaved = {} => buffered = {})
    BY DEF ResultsInv
  <2> QED
    BY <1>6, <2>1, ResultsKept DEF JoinedWorkers, counts
<1>7. CASE ReleasedPools
  <2>1. buffered \subseteq unsaved /\ (unsaved = {} => buffered = {})
    BY DEF ResultsInv
  <2>2. UNCHANGED <<store, times, chain, complete>> /\ pc = "release" /\ (err' = "none" => err = "none")
    BY <1>7 DEF ReleasedPools, counts
  <2>3. pc' \in {"finalSave", "prepare", "lateSave", "end"} /\ (pc' = "end" => err' # "none" /\ (~complete \/ unsaved = {}))
    BY <1>7 DEF ReleasedPools
  <2>4. UNCHANGED <<store, times, buffered, unsaved, stored, reported, saveFailed, notesCut>> /\ Recorded' = Recorded
    BY <2>2 DEF chain, losses, Recorded
  <2>5. pc' = "end" => store \/ saveFailed \/ notesCut \/ buffered = {}
    BY <2>1, <2>2, <2>3 DEF ResultsInv
  <2> QED
    BY <2>2, <2>3, <2>4, <2>5 DEF ResultsInv
<1>8. CASE Prepared \/ NotesTold
  <2>1. buffered \subseteq unsaved /\ (unsaved = {} => buffered = {})
    BY DEF ResultsInv
  <2> QED
    BY <1>8, <2>1, ResultsKept DEF Prepared, NotesTold, counts
<1>9. CASE SaveDone
  <2>1. UNCHANGED <<store, times, complete>> /\ Recorded' = Recorded /\ stored' = stored \cup buffered /\ buffered' = {}
    BY <1>9 DEF SaveDone, counts, Recorded
  <2>2. CASE cut
    BY <1>9, <2>1, <2>2 DEF SaveDone, SavePc, ResultsInv
  <2>3. CASE ~cut
    <3>1. reported' = reported \cup unsaved /\ unsaved' = {} /\ err' = err
      BY <1>9, <2>3 DEF SaveDone
    <3>2. pc' \in HookPc /\ (pc' \notin LoopPc => pc \notin LoopPc)
      BY <1>9, <2>3 DEF SaveDone, SavePc, Hook
    <3>3. Recorded' = unsaved' \cup reported' /\ buffered' \subseteq unsaved'
      BY <2>1, <3>1 DEF ResultsInv
    <3>4. err' = "none" \/ ~store' => Recorded' \subseteq buffered' \cup stored'
      BY <2>1, <3>1 DEF ResultsInv
    <3> QED
      BY <2>1, <3>1, <3>2, <3>3, <3>4 DEF ResultsInv
  <2> QED
    BY <2>2, <2>3
<1>10. CASE SaveFails
  <2>1. UNCHANGED <<store, times, buffered, unsaved, stored, reported>> /\ saveFailed' /\ Recorded' = Recorded
    BY <1>10 DEF SaveFails, counts, Recorded
  <2>2. (pc' = "consume" /\ err' = err) \/ (pc' \in {"release", "end"} /\ err' = "failed")
    BY <1>10 DEF SaveFails
  <2> QED
    BY <2>1, <2>2 DEF ResultsInv
<1>11. CASE HookDone
  <2>1. pc \in HookPc /\ pc' \in {"consume", "release", "end"} /\ (pc' # "consume" => pc \notin LoopPc) /\ complete' = complete
        /\ err' = err /\ UNCHANGED <<store, times, chain>>
    BY <1>11 DEF HookDone, AfterHook, counts
  <2>2. unsaved = {} /\ buffered = {}
    BY <2>1 DEF ResultsInv
  <2> QED
    BY <2>1, <2>2, ResultsKept
<1> QED
  BY <1>1, <1>2, <1>3, <1>4, <1>5, <1>6, <1>7, <1>8, <1>9, <1>10, <1>11 DEF PassStep

LEMMA CancelKeepsResults ==
    ASSUME ResultsInv, Cancel
    PROVE  ResultsInv'
<1> USE DEF Goto, Raise, LoopPc, HookPc
<1>1. UNCHANGED <<store, times, complete>> /\ Recorded' = Recorded
  BY DEF Cancel, Same, counts, Recorded
<1>2. CASE CancelLoop
  BY <1>1, <1>2, ResultsKept DEF CancelLoop
<1>3. CASE CancelOwned
  BY <1>1, <1>3, ResultsKept DEF CancelOwned
<1>4. CASE CancelSave
  BY <1>1, <1>4, ResultsKept DEF CancelSave
<1>5. CASE CancelFlush
  BY <1>1, <1>5 DEF CancelFlush, ResultsInv
<1>6. CASE CancelLast
  <2>1. unsaved = {} /\ buffered = {}
    BY <1>6 DEF CancelLast, ResultsInv
  <2> QED
    BY <1>1, <1>6, <2>1, ResultsKept DEF CancelLast
<1>7. CASE CancelNotes
  BY <1>1, <1>7 DEF CancelNotes, ResultsInv
<1>8. CASE CancelWarning
  BY <1>1, <1>8 DEF CancelWarning, ResultsInv
<1> QED
  BY <1>2, <1>3, <1>4, <1>5, <1>6, <1>7, <1>8 DEF Cancel

LEMMA ResultsStep == PassInv /\ ResultsInv /\ [Next]_vars => ResultsInv'
<1> SUFFICES ASSUME PassInv, ResultsInv, [Next]_vars PROVE ResultsInv'
  OBVIOUS
<1>1. CASE \E w \in Workers : WorkerStep(w) \/ Dies(w)
  <2>1. UNCHANGED <<store, flow, counts, chain>>
    BY <1>1 DEF WorkerStep, RequestTake, BrowserTake, RequestDone, BrowserDone, Recycled, Opens, Stopped, Dies
  <2>2. ASSUME pc = "end" /\ err = "none" PROVE unsaved = {}
    BY <2>2 DEF ResultsInv
  <2> QED
    BY <2>1, <2>2, ResultsKept DEF flow, counts
<1>2. CASE MarkEnds \/ Released \/ UNCHANGED vars
  <2>1. UNCHANGED <<store, flow, counts, chain>>
    BY <1>2 DEF MarkEnds, Released, vars
  <2>2. ASSUME pc = "end" /\ err = "none" PROVE unsaved = {}
    BY <2>2 DEF ResultsInv
  <2> QED
    BY <2>1, <2>2, ResultsKept DEF flow, counts
<1>3. CASE StartFails \/ LoopFails
  BY <1>3, ResultsKept DEF StartFails, LoopFails, Goto, Raise, Same, counts, HookPc
<1>4. CASE PassStep
  BY <1>4, PassKeepsResults
<1>5. CASE Cancel
  BY <1>5, CancelKeepsResults
<1> QED
  BY <1>1, <1>2, <1>3, <1>4, <1>5 DEF Next

\* What a pass over a workbook reports is in the file. A pass that ends normally has recorded, saved and
\* reported every link; one over a workbook that is cancelled has saved every result it recorded, unless a
\* save failed, wherever the cancellation arrives but in the notes between the preparation and the last save.
THEOREM ResultsStay == Spec => []NothingLost
<1>1. Init => ResultsInv
  BY DEF Init, ResultsInv, Recorded, LoopPc, HookPc
<1>2. PassInv /\ ResultsInv /\ ReportedIsInFile => NothingLost
  <2> SUFFICES ASSUME PassInv, ResultsInv, ReportedIsInFile, pc = "end" PROVE NothingLost
    BY DEF NothingLost, DoneCoversAll, ElsewhereKeepsResults, StoppedKeepsResults
  <2>1. pc \notin LoopPc /\ buffered \subseteq Links /\ stored \subseteq Links /\ reported \subseteq Links
    BY DEF LoopPc, PassInv, FlowType
  <2>2. DoneCoversAll
    BY <2>1 DEF DoneCoversAll, ResultsInv
  <2>3. ElsewhereKeepsResults
    BY DEF ElsewhereKeepsResults, StoppedKeepsResults, ResultsInv
  <2> QED
    BY <2>2, <2>3 DEF NothingLost
<1> QED
  BY <1>1, <1>2, ResultsStep, PassInvariant, ReportsInFile, PTL DEF Spec

-----------------------------------------------------------------------------
(* The promise of a pass.                                                  *)

\* What a pass owes when it ends, in terms of its own state.
OwesNothing ==
    pc = "end" =>
        /\ err = "none" => unsaved = {} /\ reported = Links
        /\ ~store /\ ~saveFailed /\ ~notesCut => unsaved \subseteq stored

LEMMA NothingOwing == PassInv' /\ ResultsInv' => OwesNothing'
<1> SUFFICES ASSUME PassInv', ResultsInv', pc' = "end" PROVE OwesNothing'
  BY DEF OwesNothing
<1>1. pc' \notin LoopPc
  BY DEF LoopPc
<1>2. reported' \subseteq Links
  BY DEF PassInv, FlowType
<1> QED
  BY <1>1, <1>2 DEF ResultsInv, OwesNothing

\* A step of the pass that ends it keeps the last part of its promise.
LEMMA EndsWell ==
    ASSUME pc # "end", store' = store, OwesNothing',
           \/ Promise!Record \/ Promise!Save \/ Promise!CutSave \/ Promise!FailSave \/ Promise!Rest
    PROVE  Promise!Next
<1>1. Promise!Ending
  BY DEF Promise!Ending, OwesNothing
<1> QED
  BY <1>1 DEF Promise!Next

\* Every step of the pass is a step of its promise, or leaves what that is about alone.
LEMMA PassStepPromises ==
    ASSUME PassInv, ResultsInv, LinkInv', OwesNothing', PassStep
    PROVE  [Promise!Next]_(Promise!vars)
<1> USE DEF Goto, Raise, Same
<1>1. pc # "end" /\ store' = store
  BY DEF PassStep, Start, TakeResult, ResultTold, WaitOver, WaitAgain, Abandon, LoopOver, Joined, JoinedWorkers,
         ReleasedPools, Prepared, NotesTold, SaveDone, SaveFails, HookDone, SavePc, HookPc
<1>2. CASE Start \/ ResultTold \/ WaitOver \/ WaitAgain \/ LoopOver \/ Joined \/ JoinedWorkers
           \/ ReleasedPools \/ Prepared \/ NotesTold \/ HookDone
  <2>1. Promise!Rest
    BY <1>2 DEF Start, ResultTold, WaitOver, WaitAgain, LoopOver, Joined, JoinedWorkers, ReleasedPools,
                Prepared, NotesTold, HookDone, chain, losses, Promise!Rest
  <2> QED
    BY <1>1, <2>1, EndsWell
<1>3. CASE TakeResult
  <2>1. PICK l : l = Head(resultQueue)
    OBVIOUS
  <2>2. /\ times' = [times EXCEPT ![l] = times[l] + 1] /\ unsaved' = unsaved \cup {l}
        /\ UNCHANGED <<stored, reported, saveFailed, notesCut>>
    BY <1>3, <2>1 DEF TakeResult, losses
  <2>3. l \in Links
    BY <1>3, <2>1, ResultKeepsLinks DEF PassInv
  <2>4. times \in [Links -> {0, 1}] /\ times' \in [Links -> {0, 1}]
    BY DEF PassInv, LinkInv, LinkType
  <2>5. times[l] = 0
    BY <2>2, <2>3, <2>4
  <2>6. l \notin unsaved \cup reported
    BY <2>5 DEF ResultsInv, Recorded
  <2>7. Promise!Record
    BY <2>2, <2>3, <2>6 DEF Promise!Record
  <2> QED
    BY <1>1, <2>7, EndsWell
<1>4. CASE Abandon
  <2>1. unsaved' = unsaved \cup Remaining /\ UNCHANGED <<stored, reported, saveFailed, notesCut>>
    BY <1>4 DEF Abandon, losses
  <2>2. Remaining \subseteq Links \ (unsaved \cup reported)
    BY DEF ResultsInv, Recorded, Remaining
  <2>3. Promise!Record
    BY <2>1, <2>2 DEF Promise!Record
  <2> QED
    BY <1>1, <2>3, EndsWell
<1>5. CASE SaveDone
  <2>1. stored' = stored \cup buffered /\ buffered \in SUBSET unsaved /\ UNCHANGED <<saveFailed, notesCut>>
    BY <1>5 DEF SaveDone, ResultsInv, losses
  <2>2. CASE cut
    <3>1. UNCHANGED <<unsaved, reported>>
      BY <1>5, <2>2 DEF SaveDone
    <3>2. Promise!CutSave
      BY <2>1, <3>1 DEF Promise!CutSave
    <3> QED
      BY <1>1, <3>2, EndsWell
  <2>3. CASE ~cut
    <3>1. reported' = reported \cup unsaved /\ unsaved' = {}
      BY <1>5, <2>3 DEF SaveDone
    <3>2. ~store => unsaved \subseteq stored'
      BY <2>1 DEF ResultsInv
    <3>3. Promise!Save
      BY <2>1, <3>1, <3>2 DEF Promise!Save
    <3> QED
      BY <1>1, <3>3, EndsWell
  <2> QED
    BY <2>2, <2>3
<1>6. CASE SaveFails
  <2>1. Promise!FailSave
    BY <1>6 DEF SaveFails, Promise!FailSave
  <2> QED
    BY <1>1, <2>1, EndsWell
<1> QED
  BY <1>2, <1>3, <1>4, <1>5, <1>6 DEF PassStep

\* A cancellation, wherever it arrives.
LEMMA CancelPromises ==
    ASSUME ResultsInv, OwesNothing', Cancel
    PROVE  [Promise!Next]_(Promise!vars)
<1> USE DEF Goto, Raise
<1>1. pc # "end" /\ store' = store
  BY DEF Cancel, CancelLoop, CancelOwned, CancelSave, CancelFlush, CancelLast, CancelNotes, CancelWarning, Same
<1>2. CASE CancelFlush
  <2>1. (stored' = stored \cup {} \/ stored' = stored \cup buffered) /\ UNCHANGED <<unsaved, reported, saveFailed, notesCut>>
    BY <1>2 DEF CancelFlush, losses
  <2>2. Promise!CutSave
    BY <2>1 DEF Promise!CutSave, ResultsInv
  <2> QED
    BY <1>1, <2>2, EndsWell
<1>3. CASE CancelLoop \/ CancelOwned \/ CancelSave \/ CancelLast
  <2>1. Promise!Rest
    BY <1>3 DEF CancelLoop, CancelOwned, CancelSave, CancelLast, chain, losses, Promise!Rest
  <2> QED
    BY <1>1, <2>1, EndsWell
<1>4. CASE CancelNotes \/ CancelWarning
  <2>1. Promise!FailSave
    BY <1>4 DEF CancelNotes, CancelWarning, Promise!FailSave
  <2> QED
    BY <1>1, <2>1, EndsWell
<1> QED
  BY <1>2, <1>3, <1>4 DEF Cancel

\* What scan_service.py relies on: a pass records a link once and tells the journal of it once, with the save
\* that kept it; it ends normally with all told, and cut short, over a workbook, with all it recorded kept,
\* unless a save failed or the pass was cancelled in its notes.
THEOREM PassKept == Spec => KeepsPromise
<1>1. Init => ResultsInv /\ Promise!Init
  <2> SUFFICES ASSUME Init PROVE ResultsInv /\ Promise!Init
    OBVIOUS
  <2>1. store \in BOOLEAN
    BY PassAssumption DEF Init
  <2> QED
    BY <2>1 DEF Init, ResultsInv, Recorded, LoopPc, HookPc, Promise!Init
<1>2. PassInv /\ PassInv' /\ ResultsInv /\ [Next]_vars => ResultsInv' /\ [Promise!Next]_(Promise!vars)
  <2> SUFFICES ASSUME PassInv, PassInv', ResultsInv, [Next]_vars
               PROVE  ResultsInv' /\ [Promise!Next]_(Promise!vars)
    OBVIOUS
  <2>1. ResultsInv'
    BY ResultsStep
  <2>2. OwesNothing' /\ LinkInv'
    BY <2>1, NothingOwing DEF PassInv
  <2> SUFFICES [Promise!Next]_(Promise!vars)
    BY <2>1
  <2>3. CASE \E w \in Workers : WorkerStep(w) \/ Dies(w)
    <3>1. UNCHANGED <<store, flow, chain>>
      BY <2>3 DEF WorkerStep, RequestTake, BrowserTake, RequestDone, BrowserDone, Recycled, Opens, Stopped, Dies
    <3> QED
      BY <3>1 DEF flow, chain, losses, Promise!vars
  <2>4. CASE MarkEnds \/ Released \/ UNCHANGED vars
    <3>1. UNCHANGED <<store, flow, chain>>
      BY <2>4 DEF MarkEnds, Released, vars
    <3> QED
      BY <3>1 DEF flow, chain, losses, Promise!vars
  <2>5. CASE PassStep
    BY <2>2, <2>5, PassStepPromises
  <2>6. CASE StartFails \/ LoopFails
    <3>1. pc # "end" /\ store' = store /\ Promise!Rest
      BY <2>6 DEF StartFails, LoopFails, Same, chain, losses, Promise!Rest
    <3> QED
      BY <2>2, <3>1, EndsWell
  <2>7. CASE Cancel
    BY <2>2, <2>7, CancelPromises
  <2> QED
    BY <2>1, <2>3, <2>4, <2>5, <2>6, <2>7 DEF Next
<1> QED
  BY <1>1, <1>2, PassInvariant, PTL DEF Spec, KeepsPromise, Promise!Spec

-----------------------------------------------------------------------------
(* The names of a profile (TikTokNames).                                   *)

NamePlaces == {"page", "names", "claim", "profile", "fallback", "queued", "recorded", "done"}

\* The profile page was asked for if and only if the handle is claimed; a row keeps its name up to the
\* write of its result, which never brings a generated id.
NamesInv ==
    /\ Names!TypeOK
    /\ was \in [Threads -> Names!Texts \ {"@user"}] /\ attempted \in BOOLEAN
    /\ ok \in [Threads -> BOOLEAN]
    /\ lookups = (IF attempted THEN 1 ELSE 0)
    /\ \A w \in Threads : nameAt[w] # "done" => nameCell[w] = was[w]
    /\ Names!NamesStand

\* A step of a thread, or of the event loop, before the row is written.
LEMMA NameMoves ==
    ASSUME NamesInv, NEW w \in Threads, nameAt[w] # "done", UNCHANGED <<was, nameCell>>,
           NEW text \in Names!Texts, NEW place \in NamePlaces \ {"done"},
           name' = [name EXCEPT ![w] = text], nameAt' = [nameAt EXCEPT ![w] = place],
           cache' \in Names!Texts, attempted' \in BOOLEAN, lookups' = (IF attempted' THEN 1 ELSE 0),
           ok' \in [Threads -> BOOLEAN], \A v \in Threads \ {w} : ok'[v] = ok[v]
    PROVE  NamesInv'
<1>1. Names!TypeOK'
  BY DEF NamesInv, Names!TypeOK, NamePlaces
<1>2. nameAt'[w] = place /\ \A v \in Threads \ {w} : nameAt'[v] = nameAt[v]
  BY DEF NamesInv, Names!TypeOK
<1>3. Names!NamesStand'
  BY <1>2 DEF NamesInv, Names!NamesStand
<1> QED
  BY <1>1, <1>2, <1>3 DEF NamesInv

\* What the cache, the sheet or a page gives is one of the texts.
LEMMA NameTexts ==
    ASSUME NamesInv, NEW w \in Threads
    PROVE  /\ cache \in Names!Texts /\ was[w] \in Names!Texts /\ name[w] \in Names!Texts /\ "" \in Names!Texts
           /\ Names!Resolved(name[w]) \in Names!Texts /\ Names!AtHandle \in Names!Texts
           /\ \A raw \in Names!Texts : Names!PageName(raw) \in Names!Texts
           /\ Names!WithoutNetwork(w) \in Names!Texts
           /\ Names!ForSheet(w) \in Names!Texts \ {"@user"}
<1>1. cache \in Names!Texts /\ was[w] \in Names!Texts /\ name[w] \in Names!Texts /\ "" \in Names!Texts
  BY DEF NamesInv, Names!TypeOK, Names!Texts
<1>2. Names!Resolved(name[w]) \in Names!Texts /\ Names!AtHandle \in Names!Texts
  BY <1>1 DEF Names!Resolved, Names!AtHandle, Names!Texts
<1>3. ASSUME NEW raw \in Names!Texts PROVE Names!PageName(raw) \in Names!Texts
  BY DEF Names!PageName, Names!Candidate, Names!HandleFallback, Names!Texts
<1>4. Names!WithoutNetwork(w) \in Names!Texts
  BY <1>1, <1>2 DEF Names!WithoutNetwork
<1>5. Names!ForSheet(w) \in Names!Texts \ {"@user"}
  BY DEF Names!ForSheet, Names!Usable, Names!Texts
<1> QED
  BY <1>1, <1>2, <1>3, <1>4, <1>5

LEMMA NameStep ==
    ASSUME NamesInv, NEW w \in Threads,
           \/ Names!Scraped(w) \/ Names!ProfileInBrowser(w) \/ Names!TakeName(w) \/ Names!Claim(w)
           \/ Names!Profile(w) \/ Names!Fallback(w) \/ Names!Again(w) \/ Names!Record(w) \/ Names!Write(w)
    PROVE  NamesInv'
<1>1. CASE Names!Scraped(w)
  <2>1. PICK success \in BOOLEAN, raw \in Names!Texts :
           /\ ok' = [ok EXCEPT ![w] = success]
           /\ Names!Named(w, Names!PageName(raw), "names") \/ Names!Named(w, "", "names")
    BY <1>1 DEF Names!Scraped
  <2>2. PICK text \in Names!Texts : Names!Named(w, text, "names")
    BY <2>1, NameTexts
  <2>3. ok' \in [Threads -> BOOLEAN] /\ \A v \in Threads \ {w} : ok'[v] = ok[v]
    BY <2>1 DEF NamesInv
  <2> QED
    BY <1>1, <2>2, <2>3, NameMoves, NameTexts DEF Names!Scraped, Names!Named, Names!rowVars, NamesInv, NamePlaces
<1>2. CASE Names!ProfileInBrowser(w)
  <2>1. PICK success \in BOOLEAN : ok' = [ok EXCEPT ![w] = success]
    BY <1>2 DEF Names!ProfileInBrowser
  <2>2. PICK text \in Names!Texts : Names!Named(w, text, "names") /\ cache' \in Names!Texts
    BY <1>2, NameTexts DEF Names!ProfileInBrowser, Names!Texts
  <2>3. ok' \in [Threads -> BOOLEAN] /\ \A v \in Threads \ {w} : ok'[v] = ok[v]
    BY <2>1 DEF NamesInv
  <2> QED
    BY <1>2, <2>2, <2>3, NameMoves DEF Names!ProfileInBrowser, Names!Named, Names!rowVars, NamesInv, NamePlaces
<1>3. CASE Names!TakeName(w) \/ Names!Record(w)
  <2>1. \E text \in Names!Texts, place \in NamePlaces \ {"done"} : Names!Named(w, text, place) /\ cache' \in Names!Texts
    BY <1>3, NameTexts DEF Names!TakeName, Names!Record, Names!Enriched, NamePlaces
  <2>2. PICK text \in Names!Texts, place \in NamePlaces \ {"done"} : Names!Named(w, text, place) /\ cache' \in Names!Texts
    BY <2>1
  <2>3. nameAt[w] # "done" /\ UNCHANGED <<was, nameCell, attempted, lookups, ok>>
    BY <1>3 DEF Names!TakeName, Names!Record, Names!rowVars
  <2>4. /\ attempted' \in BOOLEAN /\ lookups' = (IF attempted' THEN 1 ELSE 0)
        /\ ok' \in [Threads -> BOOLEAN] /\ \A v \in Threads \ {w} : ok'[v] = ok[v]
    BY <2>3 DEF NamesInv
  <2> QED
    BY <2>2, <2>3, <2>4, NameMoves DEF Names!Named
<1>4. CASE Names!Claim(w) \/ Names!Again(w)
  <2>1. PICK place \in NamePlaces \ {"done"} : nameAt' = [nameAt EXCEPT ![w] = place]
    BY <1>4 DEF Names!Claim, Names!Again, NamePlaces
  <2>2. nameAt[w] # "done" /\ UNCHANGED <<was, nameCell, cache, ok, name>>
    BY <1>4 DEF Names!Claim, Names!Again, Names!rowVars
  <2>3. attempted' \in BOOLEAN /\ lookups' = (IF attempted' THEN 1 ELSE 0)
    <3>1. CASE Names!Claim(w)
      <4>1. attempted' = TRUE /\ lookups' = IF attempted THEN lookups ELSE lookups + 1
        BY <3>1 DEF Names!Claim
      <4>2. attempted \in BOOLEAN /\ lookups = (IF attempted THEN 1 ELSE 0)
        BY DEF NamesInv
      <4>3. lookups' = 1
        BY <4>1, <4>2
      <4> QED
        BY <4>1, <4>3
    <3>2. CASE Names!Again(w)
      BY <3>2 DEF Names!Again, NamesInv
    <3> QED
      BY <1>4, <3>1, <3>2
  <2>4. name' = [name EXCEPT ![w] = name[w]]
    BY <2>2 DEF NamesInv, Names!TypeOK
  <2>5. cache' \in Names!Texts /\ name[w] \in Names!Texts
    BY <2>2, NameTexts
  <2>6. ok' \in [Threads -> BOOLEAN] /\ \A v \in Threads \ {w} : ok'[v] = ok[v]
    BY <2>2 DEF NamesInv
  <2> QED
    BY <2>1, <2>2, <2>3, <2>4, <2>5, <2>6, NameMoves
<1>5. CASE Names!Profile(w)
  <2>1. PICK text \in Names!Texts, place \in {"queued", "fallback"} : Names!Named(w, text, place) /\ cache' \in Names!Texts
    BY <1>5, NameTexts DEF Names!Profile
  <2> QED
    BY <1>5, <2>1, NameMoves DEF Names!Profile, Names!Named, Names!rowVars, NamesInv, NamePlaces
<1>6. CASE Names!Fallback(w)
  BY <1>6, NameMoves, NameTexts DEF Names!Fallback, Names!Named, Names!rowVars, NamesInv, NamePlaces
<1>7. CASE Names!Write(w)
  <2>1. PICK text : text = Names!ForSheet(w)
    OBVIOUS
  <2>2. text \in Names!Texts \ {"@user"} /\ cache \in Names!Texts /\ Names!Resolved(name[w]) \in Names!Texts
    BY <2>1, NameTexts
  <2>3. PICK new : /\ new = IF (~ok[w] /\ Names!Usable(nameCell[w])) \/ Names!Quality(nameCell[w]) > Names!Quality(text)
                            THEN nameCell[w] ELSE text
                   /\ nameCell' = [nameCell EXCEPT ![w] = new]
    BY <1>7, <2>1 DEF Names!Write
  <2>4. /\ nameAt' = [nameAt EXCEPT ![w] = "done"] /\ nameAt[w] = "recorded" /\ cache' \in Names!Texts
        /\ UNCHANGED <<was, attempted, lookups, ok, name>>
    BY <1>7, <2>2 DEF Names!Write, Names!rowVars
  <2>5. nameCell[w] = was[w] /\ was[w] \in Names!Texts \ {"@user"}
    BY <2>4 DEF NamesInv
  <2>6. new \in Names!Texts \ {"@user"} /\ (~ok[w] /\ Names!Usable(was[w]) => new = was[w])
    BY <2>2, <2>3, <2>5
  <2>7. Names!TypeOK'
    BY <2>3, <2>4, <2>6 DEF NamesInv, Names!TypeOK
  <2>8. /\ nameAt'[w] = "done" /\ nameCell'[w] = new
        /\ \A v \in Threads \ {w} : nameAt'[v] = nameAt[v] /\ nameCell'[v] = nameCell[v]
    BY <2>3, <2>4 DEF NamesInv, Names!TypeOK
  <2>9. Names!NamesStand'
    BY <2>4, <2>6, <2>8 DEF NamesInv, Names!NamesStand
  <2> QED
    BY <2>4, <2>7, <2>8, <2>9 DEF NamesInv
<1> QED
  BY <1>1, <1>2, <1>3, <1>4, <1>5, <1>6, <1>7

LEMMA NamesInit == Names!Init => NamesInv
<1> SUFFICES ASSUME Names!Init PROVE NamesInv
  OBVIOUS
<1>1. cache \in Names!Texts
  BY DEF Names!Init, Names!Texts
<1> QED
  BY <1>1 DEF Names!Init, NamesInv, Names!TypeOK, Names!Texts, Names!NamesStand

\* The threads that check posts of one profile ask for its page once (claim_profile_lookup), and a check
\* that failed leaves the name of its row, for any number of threads in any order.
THEOREM NamesStay == Names!Spec => []NamesSound
<1>1. NamesInv /\ [Names!Next]_(Names!vars) => NamesInv'
  <2> SUFFICES ASSUME NamesInv, [Names!Next]_(Names!vars) PROVE NamesInv'
    OBVIOUS
  <2>1. CASE UNCHANGED Names!vars
    BY <2>1 DEF Names!vars, Names!rowVars, NamesInv, Names!TypeOK, Names!NamesStand
  <2>2. CASE Names!Ended
    BY <2>2 DEF Names!Ended, Names!vars, Names!rowVars, NamesInv, Names!TypeOK, Names!NamesStand
  <2> QED
    BY <2>1, <2>2, NameStep DEF Names!Next
<1>2. NamesInv => NamesSound
  BY DEF NamesInv, NamesSound, Names!NamesSound, Names!LookedUpOnce
<1> QED
  BY <1>1, <1>2, NamesInit, PTL DEF Names!Spec
-----------------------------------------------------------------------------
(* The check of one link: its row gets the numbers of its post.            *)

\* Numbers that a page gave for a post the row may be of.
ReadOf(c, place) ==
    /\ place \in Posts /\ (named => place = "own")
    /\ c.of = place /\ Plausible(c.data)

\* An item of such a post said that its stats are hidden; its embed page said twice that it is gone.
HidSaid == \E p \in Posts : (named => p = "own") /\ p \in hid
GoneSaid == \E p \in Posts : (named => p = "own") /\ streak[p] = 2

\* An outcome holds numbers of the post, or a reason that was given.
OutcomeInv(o) ==
    /\ o = [success |-> o.success, terminal |-> o.terminal, status |-> o.status, place |-> o.place, hints |-> o.hints]
    /\ o.place \in Places \cup {None}
    /\ o.status # "unavailable" /\ (o.status = "success" => o.success # None)
    /\ o.status = "hidden" => HidSaid
    /\ o.success # None => ReadOf(o.success.counts, o.success.place)
    /\ o.terminal # None =>
         /\ o.terminal.place \in Places \cup {None}
         /\ o.terminal.status \in {"hidden", "suspected"}
         /\ o.terminal.status = "hidden" => HidSaid

\* The same of the answer of an attempt; only the embed page's answers make it a deletion.
AnswerInv(a) ==
    /\ a = Page!Answer(a.status, a.counts, a.place, a.hints)
    /\ a.place \in Places \cup {None}
    /\ a.status = "success" => ReadOf(a.counts, a.place)
    /\ a.status = "hidden" => HidSaid

CheckInv ==
    /\ Page!TypeOK /\ named \in BOOLEAN
    /\ OutcomeInv(outcome) /\ AnswerInv(verdict)
    /\ verdict.status = "unavailable" => GoneSaid /\ phase \in {"record", "done"}
    /\ previous # None => phase = "poll" /\ ReadOf(previous, landed)
    /\ phase = "poll" => landed \in Posts /\ (named => landed = "own")
    /\ phase \in {"fetch", "open", "poll", "judge"} => answers = 0
    /\ phase = "confirm" /\ answers = 1 => Page!Target \in Posts /\ streak[Page!Target] >= 1
    /\ found =>
         \/ phase = "fetch" /\ outcome.success # None
         \/ phase \in {"judge", "record"} /\ verdict.status = "success"
         \/ phase = "done" /\ (Page!OtherPost \/ cell.is = "read")
    /\ cell.is # "old" => phase = "done"
    /\ Page!ClearedOnProof /\ Page!NumbersOfItsPost

\* parse_counts: numbers are those of an item of the post, and plausible.
LEMMA CountsFacts ==
    ASSUME NEW page \in Pages, NEW post, Counts(page, post) # None
    PROVE  Counts(page, post).of = post /\ Plausible(Counts(page, post).data)
<1> DEFINE readable == {i \in OfPost(page, post) : Metrics(page.items[i]) # None}
           first == page.items[Least(readable)]
<1>1. Counts(page, post) = IF readable # {} /\ Plausible(Metrics(first))
                           THEN [of |-> first.id, data |-> Metrics(first)] ELSE None
  BY DEF Counts, CountsOfLeast
<1>2. readable # {} /\ Plausible(Metrics(first)) /\ Counts(page, post) = [of |-> first.id, data |-> Metrics(first)]
  BY <1>1
<1>3. readable \subseteq {1, 2}
  <2>1. PICK m \in 0 .. 2 : page.items \in [1 .. m -> Items]
    BY DEF Pages, BoundedSeq, SeqOf
  <2>2. DOMAIN page.items = 1 .. m
    BY <2>1
  <2> QED
    BY <2>2 DEF OfPost
<1>4. \E n \in readable : \A m \in readable : n <= m
  <2> HIDE DEF readable
  <2>1. CASE 1 \in readable
    <3>1. \A m \in readable : 1 <= m
      BY <1>3
    <3> QED
      BY <2>1, <3>1
  <2>2. CASE 1 \notin readable
    <3>1. readable = {2}
      BY <1>2, <1>3, <2>2
    <3> QED
      BY <3>1
  <2> QED
    BY <2>1, <2>2
<1>5. Least(readable) \in readable
  <2> HIDE DEF readable
  <2> QED
    BY <1>4 DEF Least
<1>6. first.id = post
  BY <1>5 DEF OfPost
<1> QED
  BY <1>2, <1>6

LEMMA StatusFacts ==
    ASSUME NEW page \in Pages, NEW withId \in BOOLEAN, NEW status, status = Status(page, withId)
    PROVE  /\ status \in {"mismatch", "unreadable", "success", "suspected", "hidden"}
           /\ status \in {"success", "hidden"} => page.place \in Posts /\ (withId => page.place = "own")
           /\ status = "success" => Counts(page, page.place) # None
           /\ status = "hidden" => Hides(page, page.place)
<1>1. page.place \in Places
  BY DEF Pages
<1>2. CASE withId /\ page.place = "own"
  BY <1>2 DEF Status, Posts
<1>3. CASE ~withId
  BY <1>1, <1>3 DEF Status, Places
<1>4. CASE withId /\ page.place # "own"
  BY <1>4 DEF Status
<1> QED
  BY <1>2, <1>3, <1>4

\* A reading is of the post: "Read metrics only from the embedded item whose id is media_id".
LEMMA ReadingFacts ==
    ASSUME NEW withId \in BOOLEAN, NEW r \in Readings[withId]
    PROVE  /\ r.place \in Places
           /\ r.status \in {"mismatch", "unreadable", "success", "suspected", "hidden"}
           /\ r.status = "success" <=> r.counts # None
           /\ r.status \in {"success", "hidden"} => r.place \in Posts /\ (withId => r.place = "own")
           /\ r.status = "success" => r.counts.of = r.place /\ Plausible(r.counts.data)
           /\ r.status = "hidden" => r.hides
           /\ r.hides => r.place \in Posts
           /\ None # [counts |-> r.counts, place |-> r.place, titled |-> r.titled]
<1>1. PICK page \in Pages : r = Reading(page, withId)
  BY DEF Readings
<1>2. PICK status : status = Status(page, withId)
  OBVIOUS
<1>3. /\ r.place = page.place /\ r.status = status
      /\ r.counts = (IF status = "success" THEN Counts(page, page.place) ELSE None)
      /\ r.hides = Hides(page, page.place)
  BY <1>1, <1>2 DEF Reading
<1>4. page.place \in Places
  BY DEF Pages
<1>5. Hides(page, page.place) => page.place \in Posts
  <2>1. PICK m \in 0 .. 2 : page.items \in [1 .. m -> Items]
    BY DEF Pages, BoundedSeq, SeqOf
  <2>2. \A i \in DOMAIN page.items : page.items[i].id \in Posts
    BY <2>1 DEF Items
  <2> QED
    BY <2>2 DEF Hides, OfPost
<1>6. None # [counts |-> r.counts, place |-> r.place, titled |-> r.titled]
  BY CheckAssumption
<1>7. status = "success" => Counts(page, page.place).of = page.place /\ Plausible(Counts(page, page.place).data)
  BY <1>2, CountsFacts, StatusFacts
<1>8. /\ status \in {"mismatch", "unreadable", "success", "suspected", "hidden"}
      /\ status \in {"success", "hidden"} => page.place \in Posts /\ (withId => page.place = "own")
      /\ status = "success" => Counts(page, page.place) # None
      /\ status = "hidden" => Hides(page, page.place)
  BY <1>2, StatusFacts
<1> QED
  BY <1>3, <1>4, <1>5, <1>6, <1>7, <1>8

\* What the pages of a check have said, they have said.
LEMMA SaidStays ==
    ASSUME named' = named, hid \subseteq hid'
    PROVE  HidSaid => HidSaid'
BY DEF HidSaid

LEMMA OutcomeGrows ==
    ASSUME named \in BOOLEAN, NEW o, OutcomeInv(o), NEW r \in Readings[named], NEW m, m = Page!WithPage(o, r),
           named' = named, hid \subseteq hid', r.hides => r.place \in hid'
    PROVE  /\ OutcomeInv(m)'
           /\ r.status = "success" \/ o.success # None => m.success # None
<1> DEFINE place == IF r.status = "mismatch" THEN o.place ELSE r.place
           read == [counts |-> r.counts, place |-> r.place, titled |-> r.titled]
<1>1. /\ r.place \in Places
      /\ r.status \in {"mismatch", "unreadable", "success", "suspected", "hidden"}
      /\ r.status = "success" => ReadOf(r.counts, r.place)
      /\ r.status = "hidden" => r.place \in Posts /\ (named => r.place = "own") /\ r.hides
      /\ None # read
  BY ReadingFacts DEF ReadOf
<1>2. /\ m = [success |-> m.success, terminal |-> m.terminal, status |-> m.status, place |-> m.place, hints |-> m.hints]
      /\ m.success = IF r.status = "success" /\ (o.success = None \/ (r.titled /\ ~o.success.titled))
                     THEN read ELSE o.success
      /\ m.terminal = Page!Noted(o, r.status, place)
      /\ m.status = r.status /\ m.place = place
  BY DEF Page!WithPage
<1>3. place \in Places \cup {None}
  BY <1>1 DEF OutcomeInv
<1>4. r.status = "hidden" => HidSaid'
  BY <1>1 DEF HidSaid
<1>5. m.success # None => (m.success = read /\ r.status = "success") \/ m.success = o.success
  BY <1>2
<1>6. m.success # None => ReadOf(m.success.counts, m.success.place)'
  BY <1>1, <1>5 DEF OutcomeInv, ReadOf
<1>7. r.status = "success" \/ o.success # None => m.success # None
  BY <1>1, <1>2
<1>8. m.terminal # None =>
        \/ m.terminal = o.terminal
        \/ m.terminal = [status |-> r.status, place |-> place] /\ r.status \in {"hidden", "suspected"}
  BY <1>1, <1>2 DEF Page!Noted, Page!Stronger, Page!ClearsNumbers
<1>9. m.terminal # None => /\ m.terminal.place \in Places \cup {None}
                           /\ m.terminal.status \in {"hidden", "suspected"}
                           /\ m.terminal.status = "hidden" => HidSaid'
  BY <1>3, <1>4, <1>8, SaidStays DEF OutcomeInv
<1> QED
  BY <1>1, <1>2, <1>3, <1>4, <1>6, <1>7, <1>9 DEF OutcomeInv

LEMMA ErrorNoted ==
    ASSUME NEW o, OutcomeInv(o), NEW status \in {"suspected", "limited", "network", "other"},
           NEW m, m = Page!WithError(o, status), named' = named, hid' = hid
    PROVE  OutcomeInv(m)' /\ m.success = o.success
<1>1. /\ m = [success |-> m.success, terminal |-> m.terminal, status |-> m.status, place |-> m.place, hints |-> m.hints]
      /\ m.success = o.success /\ m.status = status /\ m.place = o.place
      /\ m.terminal = Page!Noted(o, status, o.place)
  BY DEF OutcomeInv, Page!WithError
<1>2. m.terminal # None => m.terminal = o.terminal \/ m.terminal = [status |-> "suspected", place |-> o.place]
  BY <1>1 DEF Page!Noted, Page!Stronger, Page!ClearsNumbers
<1>3. HidSaid => HidSaid'
  BY SaidStays
<1>4. m.terminal # None => /\ m.terminal.place \in Places \cup {None}
                           /\ m.terminal.status \in {"hidden", "suspected"}
                           /\ m.terminal.status = "hidden" => HidSaid'
  BY <1>2, <1>3 DEF OutcomeInv
<1>5. m.success # None => ReadOf(m.success.counts, m.success.place)'
  BY <1>1 DEF OutcomeInv, ReadOf
<1> QED
  BY <1>1, <1>4, <1>5 DEF OutcomeInv

\* result: numbers that were read come first.
LEMMA OutcomeAnswers ==
    ASSUME NEW o, OutcomeInv(o)', NEW a, a = Page!Outcome(o)
    PROVE  AnswerInv(a)' /\ a.status # "unavailable" /\ (o.success # None => a.status = "success")
<1>1. a = Page!Answer(a.status, a.counts, a.place, a.hints)
  BY DEF Page!Outcome, Page!Answer
<1>2. CASE o.success # None
  BY <1>1, <1>2 DEF Page!Outcome, Page!Answer, OutcomeInv, AnswerInv, ReadOf, Places, Posts
<1>3. CASE o.success = None
  BY <1>1, <1>3 DEF Page!Outcome, Page!Answer, OutcomeInv, AnswerInv
<1> QED
  BY <1>2, <1>3

\* An attempt that is over leaves its answer.
LEMMA JudgeKeeps ==
    ASSUME CheckInv, NEW a, Page!Judge(a), phase \in {"fetch", "open", "poll"},
           AnswerInv(a)', a.status # "unavailable", hid \subseteq hid', hid' \subseteq Posts,
           found' => a.status = "success"
    PROVE  CheckInv'
<1> USE DEF Page!Judge, Page!linkVars
<1>1. a.place \in Places \cup {None}
  BY DEF AnswerInv
<1>2. OutcomeInv(outcome)'
  BY DEF Page!Fresh, OutcomeInv
<1>3. Page!TypeOK'
  BY <1>1, CheckAssumption DEF CheckInv, Page!TypeOK, Page!Places, Page!Posts, Places, Posts
<1>4. cell.is = "old" /\ cell'.is = "old" /\ answers' = 0
  BY DEF CheckInv
<1>5. AnswerInv(verdict)' /\ verdict'.status # "unavailable" /\ previous' = None /\ phase' = "judge"
  BY DEF AnswerInv
<1>6. found' => verdict'.status = "success"
  OBVIOUS
<1>7. named' \in BOOLEAN
  BY DEF CheckInv
<1> QED
  BY <1>2, <1>3, <1>4, <1>5, <1>6, <1>7 DEF CheckInv, Page!ClearedOnProof, Page!NumbersOfItsPost

\* An HTTP attempt goes on with what it has read.
LEMMA FetchGoesOn ==
    ASSUME CheckInv, phase = "fetch", phase' = "fetch", OutcomeInv(outcome)', used' \in 0 .. Limit,
           UNCHANGED <<mode, named, expected, landed, polls, previous, verdict, browser, attempt, resolved,
                       gone, answers, cell, streak>>,
           hid \subseteq hid', hid' \subseteq Posts, found' => outcome'.success # None
    PROVE  CheckInv'
<1>1. Page!TypeOK'
  BY DEF CheckInv, Page!TypeOK, Page!Places, Page!Posts, Places, Posts
<1>2. AnswerInv(verdict)'
  BY SaidStays DEF CheckInv, AnswerInv, ReadOf
<1>3. cell.is = "old" /\ cell'.is = "old" /\ verdict'.status # "unavailable"
  BY DEF CheckInv
<1>4. previous' = None
  BY DEF CheckInv
<1> QED
  BY <1>1, <1>2, <1>3, <1>4 DEF CheckInv, Page!ClearedOnProof, Page!NumbersOfItsPost

LEMMA NextAddressKeeps ==
    ASSUME CheckInv, phase = "fetch", NEW o, OutcomeInv(o)', Page!NextAddress(o),
           hid \subseteq hid', hid' \subseteq Posts, found' => o.success # None
    PROVE  CheckInv'
<1>1. CASE Page!Judge(Page!Outcome(o))
  <2>1. PICK a : a = Page!Outcome(o)
    OBVIOUS
  <2>2. AnswerInv(a)' /\ a.status # "unavailable" /\ (o.success # None => a.status = "success")
    BY <2>1, OutcomeAnswers
  <2>3. Page!Judge(a)
    BY <1>1, <2>1
  <2> QED
    BY <2>2, <2>3, JudgeKeeps
<1>2. CASE ~Page!Judge(Page!Outcome(o))
  <2>1. /\ used + 1 < Limit /\ used' = used + 1 /\ outcome' = o
        /\ UNCHANGED <<mode, named, expected, phase, landed, polls, previous, verdict, browser, attempt, resolved,
                       gone, answers, cell, streak>>
    BY <1>2 DEF Page!NextAddress, Page!linkVars, Page!checkVars
  <2>2. used' \in 0 .. Limit
    BY <2>1, CheckAssumption DEF CheckInv, Page!TypeOK
  <2>3. phase' = "fetch" /\ OutcomeInv(outcome)'
    BY <2>1 DEF OutcomeInv
  <2> QED
    BY <2>1, <2>2, <2>3, FetchGoesOn
<1> QED
  BY <1>1, <1>2

LEMMA FetchPageKeeps == ASSUME CheckInv, Page!FetchPage PROVE CheckInv'
<1>1. PICK r \in Readings[named] :
        LET o == Page!WithPage(outcome, r) IN
        /\ hid' = IF r.hides THEN hid \cup {r.place} ELSE hid
        /\ found' = (found \/ r.status = "success")
        /\ IF r.status = "success" /\ r.titled THEN Page!Judge(Page!Outcome(o))
           ELSE IF r.hints /\ ~again
           THEN /\ again' = TRUE /\ outcome' = o
                /\ UNCHANGED <<Page!linkVars, phase, used, landed, polls, previous, verdict, Page!checkVars, cell, streak>>
           ELSE Page!NextAddress(o)
  BY DEF Page!FetchPage
<1>2. PICK o : o = Page!WithPage(outcome, r)
  OBVIOUS
<1>3. \/ Page!Judge(Page!Outcome(o)) \/ Page!NextAddress(o)
      \/ /\ outcome' = o
         /\ UNCHANGED <<Page!linkVars, phase, used, landed, polls, previous, verdict, Page!checkVars, cell, streak>>
  BY <1>1, <1>2
<1>4. named \in BOOLEAN /\ phase = "fetch" /\ hid \subseteq Posts
  BY DEF CheckInv, Page!TypeOK, Page!FetchPage, Page!Posts, Posts
<1>5. hid \subseteq hid' /\ hid' \subseteq Posts /\ (r.hides => r.place \in hid')
  BY <1>1, <1>4, ReadingFacts
<1>6. named' = named
  BY <1>3 DEF Page!Judge, Page!NextAddress, Page!linkVars
<1>7. OutcomeInv(o)' /\ (r.status = "success" \/ outcome.success # None => o.success # None)
  <2>1. PICK old : old = outcome
    OBVIOUS
  <2>2. o = Page!WithPage(old, r) /\ OutcomeInv(old)
    BY <1>2, <2>1 DEF CheckInv
  <2>3. OutcomeInv(o)' /\ (r.status = "success" \/ old.success # None => o.success # None)
    BY <1>4, <1>5, <1>6, <2>2, OutcomeGrows
  <2> QED
    BY <2>1, <2>3
<1>8. found' => o.success # None
  BY <1>1, <1>4, <1>7 DEF CheckInv
<1>9. CASE Page!Judge(Page!Outcome(o)) \/ Page!NextAddress(o)
  <2>1. Page!NextAddress(o)
    BY <1>9 DEF Page!NextAddress
  <2> QED
    BY <1>4, <1>5, <1>7, <1>8, <2>1, NextAddressKeeps
<1>10. CASE /\ outcome' = o
            /\ UNCHANGED <<Page!linkVars, phase, used, landed, polls, previous, verdict, Page!checkVars, cell, streak>>
  <2>1. /\ outcome' = o
        /\ UNCHANGED <<mode, named, expected, phase, used, landed, polls, previous, verdict, browser, attempt, resolved,
                       gone, answers, cell, streak>>
    BY <1>10 DEF Page!linkVars, Page!checkVars
  <2>2. used' \in 0 .. Limit /\ phase' = "fetch" /\ OutcomeInv(outcome)'
    BY <1>4, <1>7, <2>1 DEF CheckInv, Page!TypeOK, OutcomeInv
  <2> QED
    BY <1>4, <1>5, <1>8, <2>1, <2>2, FetchGoesOn
<1> QED
  BY <1>3, <1>9, <1>10

LEMMA FetchFailsKeeps == ASSUME CheckInv, Page!FetchFails PROVE CheckInv'
<1>1. PICK status \in {"suspected", "limited", "network", "other"} : Page!NextAddress(Page!WithError(outcome, status))
  BY DEF Page!FetchFails
<1>2. PICK old : old = outcome
  OBVIOUS
<1>3. PICK o : o = Page!WithError(old, status)
  OBVIOUS
<1>4. Page!NextAddress(o) /\ UNCHANGED <<hid, found>> /\ phase = "fetch"
  BY <1>1, <1>2, <1>3 DEF Page!FetchFails
<1>5. named' = named
  BY <1>4 DEF Page!NextAddress, Page!Judge, Page!linkVars
<1>6. OutcomeInv(old)
  BY <1>2 DEF CheckInv
<1>7. OutcomeInv(o)' /\ o.success = old.success
  BY <1>3, <1>4, <1>5, <1>6, ErrorNoted
<1>8. found' => o.success # None
  BY <1>2, <1>4, <1>7 DEF CheckInv
<1>9. hid \subseteq hid' /\ hid' \subseteq Posts
  BY <1>4 DEF CheckInv, Page!TypeOK, Page!Posts, Posts
<1> QED
  BY <1>4, <1>7, <1>8, <1>9, NextAddressKeeps

LEMMA OpenFailsKeeps == ASSUME CheckInv, Page!OpenFails PROVE CheckInv'
<1>1. PICK a : a = Page!Answer("other", None, Page!OwnAddress, FALSE)
  OBVIOUS
<1>2. Page!Judge(a) /\ UNCHANGED <<hid, found>> /\ phase \in {"open", "poll"}
  BY <1>1 DEF Page!OpenFails
<1>3. AnswerInv(a)' /\ a.status = "other"
  BY <1>1 DEF AnswerInv, Page!Answer, Page!OwnAddress, Places, Posts
<1>4. ~found' /\ hid' \subseteq Posts
  BY <1>2 DEF CheckInv, Page!TypeOK, Page!Posts, Posts
<1> QED
  BY <1>2, <1>3, <1>4, JudgeKeeps

LEMMA OpenKeeps == ASSUME CheckInv, Page!Open PROVE CheckInv'
<1>1. PICK place \in Page!Places :
        IF named /\ place # "own" THEN Page!Judge(Page!Answer("mismatch", None, Page!OwnAddress, FALSE))
        ELSE IF place = "page" THEN Page!Judge(Page!Answer("unreadable", None, place, FALSE))
        ELSE /\ landed' = place /\ phase' = "poll"
             /\ UNCHANGED <<Page!linkVars, used, again, outcome, polls, previous, verdict, Page!checkVars, cell, streak>>
  BY DEF Page!Open
<1>2. phase = "open" /\ UNCHANGED <<hid, found>>
  BY DEF Page!Open
<1>3. ~found' /\ hid' \subseteq Posts
  BY <1>2 DEF CheckInv, Page!TypeOK, Page!Posts, Posts
<1>4. ASSUME NEW a, Page!Judge(a), a = Page!Answer(a.status, None, a.place, FALSE),
             a.status \in {"mismatch", "unreadable"}, a.place \in Places
      PROVE  CheckInv'
  <2>1. AnswerInv(a)'
    BY <1>4 DEF AnswerInv, Page!Answer
  <2> QED
    BY <1>2, <1>3, <1>4, <2>1, JudgeKeeps
<1>5. CASE named /\ place # "own"
  <2>1. PICK a : a = Page!Answer("mismatch", None, Page!OwnAddress, FALSE)
    OBVIOUS
  <2>2. a = Page!Answer(a.status, None, a.place, FALSE) /\ a.status = "mismatch" /\ a.place \in Places
    BY <2>1 DEF Page!Answer, Page!OwnAddress, Places, Posts
  <2> QED
    BY <1>1, <1>4, <1>5, <2>1, <2>2
<1>6. CASE ~(named /\ place # "own") /\ place = "page"
  <2>1. PICK a : a = Page!Answer("unreadable", None, place, FALSE)
    OBVIOUS
  <2>2. a = Page!Answer(a.status, None, a.place, FALSE) /\ a.status = "unreadable" /\ a.place \in Places
    BY <1>6, <2>1 DEF Page!Answer, Places
  <2> QED
    BY <1>1, <1>4, <1>6, <2>1, <2>2
<1>7. CASE ~(named /\ place # "own") /\ place # "page"
  <2>1. /\ landed' = place /\ phase' = "poll"
        /\ UNCHANGED <<mode, named, expected, used, outcome, polls, previous, verdict, browser, attempt, resolved,
                       gone, answers, cell, streak, hid, found>>
    BY <1>1, <1>2, <1>7 DEF Page!linkVars, Page!checkVars
  <2>2. place \in Posts /\ (named => place = "own")
    BY <1>7 DEF Page!Places, Page!Posts, Posts
  <2>3. Page!TypeOK'
    BY <2>1 DEF CheckInv, Page!TypeOK
  <2>4. AnswerInv(verdict)' /\ OutcomeInv(outcome)'
    BY <2>1 DEF CheckInv, AnswerInv, OutcomeInv, ReadOf, HidSaid
  <2>5. previous = None
    BY <1>2 DEF CheckInv
  <2>6. cell.is = "old" /\ answers = 0 /\ verdict.status # "unavailable" /\ named \in BOOLEAN
    BY <1>2 DEF CheckInv
  <2> QED
    BY <1>3, <2>1, <2>2, <2>3, <2>4, <2>5, <2>6 DEF CheckInv, Page!ClearedOnProof, Page!NumbersOfItsPost
<1> QED
  BY <1>5, <1>6, <1>7

LEMMA PollKeeps == ASSUME CheckInv, Page!Poll PROVE CheckInv'
<1>1. phase = "poll" /\ found' = found /\ ~found /\ landed \in Posts /\ (named => landed = "own") /\ named \in BOOLEAN
  BY DEF Page!Poll, CheckInv
<1>2. PICK r \in {x \in Readings[named] : x.place = landed} :
        LET last == IF r.counts # None THEN r.counts ELSE previous
            Read(c) == Page!Judge(Page!Answer("success", c, landed, FALSE))
        IN /\ hid' = IF r.hides THEN hid \cup {landed} ELSE hid
           /\ IF r.counts # None /\ r.counts = previous THEN Read(r.counts)
              ELSE IF r.counts = None /\ r.missing THEN Page!Judge(Page!Answer("suspected", None, landed, FALSE))
              ELSE IF polls + 1 < MaxPolls
              THEN /\ polls' = polls + 1 /\ previous' = last
                   /\ UNCHANGED <<Page!linkVars, phase, used, again, outcome, landed, verdict, Page!checkVars, cell, streak>>
              ELSE IF last # None THEN Read(last)
              ELSE Page!Judge(Page!Answer(r.status, None, landed, FALSE))
  BY DEF Page!Poll
<1>3. PICK last : last = IF r.counts # None THEN r.counts ELSE previous
  OBVIOUS
<1>4. PICK place \in Posts : place = landed
  BY <1>1
<1>5. hid \subseteq hid' /\ hid' \subseteq Posts
  BY <1>1, <1>2 DEF CheckInv, Page!TypeOK, Page!Posts, Posts
<1>6. /\ r.status \in {"mismatch", "unreadable", "success", "suspected", "hidden"}
      /\ (r.counts # None) <=> r.status = "success"
      /\ r.counts # None => ReadOf(r.counts, place)
      /\ r.status = "hidden" => r.hides
  BY <1>1, <1>2, <1>4, ReadingFacts DEF ReadOf
<1>7. last # None => ReadOf(last, place)
  BY <1>3, <1>4, <1>6 DEF CheckInv
<1>8. ASSUME NEW a, Page!Judge(a), NEW c, a = Page!Answer(a.status, c, place, FALSE), a.status # "unavailable",
             a.status = "success" => ReadOf(c, place), a.status = "hidden" => r.hides
      PROVE  CheckInv'
  <2>1. named' = named
    BY <1>8 DEF Page!Judge, Page!linkVars
  <2>2. a.counts = c /\ a.place = place /\ a = Page!Answer(a.status, a.counts, a.place, a.hints)
    BY <1>8 DEF Page!Answer
  <2>3. a.status = "success" => ReadOf(a.counts, a.place)'
    BY <1>8, <2>1, <2>2 DEF ReadOf
  <2>4. a.status = "hidden" => HidSaid'
    BY <1>1, <1>2, <1>4, <1>8, <2>1 DEF HidSaid
  <2>5. AnswerInv(a)'
    BY <2>2, <2>3, <2>4 DEF AnswerInv, Places
  <2> QED
    BY <1>1, <1>5, <1>8, <2>5, JudgeKeeps
<1>9. ASSUME NEW status, NEW c, Page!Judge(Page!Answer(status, c, landed, FALSE)), status # "unavailable",
             status = "success" => ReadOf(c, place), status = "hidden" => r.hides
      PROVE  CheckInv'
  <2>1. PICK a : a = Page!Answer(status, c, place, FALSE)
    OBVIOUS
  <2>2. a.status = status
    BY <2>1 DEF Page!Answer
  <2> QED
    BY <1>4, <1>8, <1>9, <2>1, <2>2
<1>10. CASE /\ polls + 1 < MaxPolls /\ polls' = polls + 1 /\ previous' = last
            /\ UNCHANGED <<Page!linkVars, phase, used, again, outcome, landed, verdict, Page!checkVars, cell, streak>>
  <2>1. UNCHANGED <<mode, named, expected, phase, used, outcome, landed, verdict, browser, attempt, resolved,
                    gone, answers, cell, streak, found>>
    BY <1>1, <1>10 DEF Page!linkVars, Page!checkVars
  <2>2. Page!TypeOK'
    BY <1>5, <1>10, <2>1, CheckAssumption DEF CheckInv, Page!TypeOK, Page!Posts, Posts
  <2>3. HidSaid => HidSaid'
    BY <1>5, <2>1, SaidStays
  <2>4. AnswerInv(verdict)' /\ OutcomeInv(outcome)'
    BY <2>1, <2>3 DEF CheckInv, AnswerInv, OutcomeInv, ReadOf
  <2>5. previous' # None => ReadOf(previous, landed)'
    BY <1>4, <1>7, <1>10, <2>1 DEF ReadOf
  <2>6. cell.is = "old" /\ answers = 0 /\ verdict.status # "unavailable"
    BY <1>1 DEF CheckInv
  <2> QED
    BY <1>1, <2>1, <2>2, <2>4, <2>5, <2>6 DEF CheckInv, Page!ClearedOnProof, Page!NumbersOfItsPost
<1>11. \/ Page!Judge(Page!Answer("success", r.counts, landed, FALSE)) /\ r.counts # None
       \/ Page!Judge(Page!Answer("suspected", None, landed, FALSE))
       \/ /\ polls + 1 < MaxPolls /\ polls' = polls + 1 /\ previous' = last
          /\ UNCHANGED <<Page!linkVars, phase, used, again, outcome, landed, verdict, Page!checkVars, cell, streak>>
       \/ Page!Judge(Page!Answer("success", last, landed, FALSE)) /\ last # None
       \/ Page!Judge(Page!Answer(r.status, None, landed, FALSE)) /\ r.counts = None
  BY <1>2, <1>3
<1>12. CASE Page!Judge(Page!Answer("success", r.counts, landed, FALSE)) /\ r.counts # None
  BY <1>6, <1>9, <1>12
<1>13. CASE Page!Judge(Page!Answer("suspected", None, landed, FALSE))
  BY <1>9, <1>13
<1>14. CASE Page!Judge(Page!Answer("success", last, landed, FALSE)) /\ last # None
  BY <1>7, <1>9, <1>14
<1>15. CASE Page!Judge(Page!Answer(r.status, None, landed, FALSE)) /\ r.counts = None
  <2>1. r.status \notin {"success", "unavailable"} /\ (r.status = "hidden" => r.hides)
    BY <1>6, <1>15
  <2> QED
    BY <1>9, <1>15, <2>1
<1> QED
  BY <1>10, <1>11, <1>12, <1>13, <1>14, <1>15

\* What may follow an answer, of the check and of where it stands.
CheckOk ==
    /\ phase \in {"fetch", "open", "confirm", "record"}
    /\ attempt \in 0 .. Retries /\ resolved \in Places \cup {None}
    /\ gone \in BOOLEAN \cup {None} /\ answers \in 0 .. 1
    /\ phase \in {"fetch", "open"} => answers = 0

\* An answer is judged or confirmed: nothing of the row changes.
LEMMA AnswerMoves ==
    ASSUME CheckInv, phase \in {"open", "judge", "confirm"}, CheckOk',
           UNCHANGED <<mode, named, expected, used, again, outcome, landed, polls, previous, cell, hid, found>>,
           streak' \in [Posts -> 0 .. 2], AnswerInv(verdict)',
           verdict'.status = "unavailable" => GoneSaid' /\ phase' = "record",
           phase' = "confirm" /\ answers' = 1 => Page!Target' \in Posts /\ streak'[Page!Target'] >= 1,
           found => phase' = "record" /\ verdict' = verdict
    PROVE  CheckInv'
<1>1. Page!TypeOK'
  BY DEF CheckOk, CheckInv, Page!TypeOK, Page!Places, Page!Posts, Places, Posts
<1>2. OutcomeInv(outcome)'
  BY DEF CheckInv, OutcomeInv, ReadOf, HidSaid
<1>3. previous' = None /\ cell'.is = "old" /\ named' \in BOOLEAN
  BY DEF CheckInv
<1>4. found' => phase' = "record" /\ verdict'.status = "success"
  BY DEF CheckInv
<1>5. phase' \notin {"poll", "judge", "done"}
  BY DEF CheckOk
<1>6. phase' \in {"fetch", "open", "poll", "judge"} => answers' = 0
  BY <1>5 DEF CheckOk
<1> QED
  BY <1>1, <1>2, <1>3, <1>4, <1>5, <1>6 DEF CheckInv, Page!ClearedOnProof, Page!NumbersOfItsPost

LEMMA DeliverOk ==
    ASSUME CheckInv, NEW status, Page!Deliver(status)
    PROVE  CheckOk' /\ phase' \in {"open", "record"} /\ (Page!Final(status) => phase' = "record")
BY CheckAssumption DEF CheckInv, Page!TypeOK, Page!Deliver, CheckOk, Page!Places, Page!Posts, Places, Posts

LEMMA RetryOk ==
    ASSUME CheckInv, NEW asked \in BOOLEAN \cup {None}, Page!Retry(asked)
    PROVE  CheckOk' /\ phase' \in {"fetch", "open", "record"}
<1>1. CASE attempt < Retries
  BY <1>1, CheckAssumption DEF CheckInv, Page!TypeOK, Page!Retry, Page!Start, CheckOk, Page!Places, Page!Posts, Places, Posts
<1>2. CASE ~(attempt < Retries)
  <2>1. PICK status : status = verdict.status
    OBVIOUS
  <2>2. Page!Deliver(status)
    BY <1>2, <2>1 DEF Page!Retry
  <2> QED
    BY <2>2, DeliverOk
<1> QED
  BY <1>1, <1>2

LEMMA JudgeAnswerKeeps == ASSUME CheckInv, Page!JudgeAnswer PROVE CheckInv'
<1>1. /\ phase = "judge" /\ verdict' = verdict
      /\ UNCHANGED <<mode, named, expected, used, again, outcome, landed, polls, previous, cell, hid, found, streak>>
  BY DEF Page!JudgeAnswer, Page!linkVars, Page!attemptVars
<1>2. streak' \in [Posts -> 0 .. 2] /\ answers = 0 /\ verdict.status # "unavailable"
  BY <1>1 DEF CheckInv, Page!TypeOK, Page!Posts, Posts
<1>3. AnswerInv(verdict)'
  BY <1>1 DEF CheckInv, AnswerInv, ReadOf, HidSaid
<1>4. found => verdict.status = "success"
  BY <1>1 DEF CheckInv
<1>5. CASE verdict.status = "suspected" /\ gone = None
  <2>1. phase' = "confirm" /\ UNCHANGED <<browser, attempt, resolved, gone, answers>>
    BY <1>5 DEF Page!JudgeAnswer, Page!checkVars
  <2>2. CheckOk'
    BY <1>2, <2>1 DEF CheckInv, Page!TypeOK, CheckOk, Page!Places, Page!Posts, Places, Posts
  <2> QED
    BY <1>1, <1>2, <1>3, <1>4, <1>5, <2>1, <2>2, AnswerMoves
<1>6. CASE ~(verdict.status = "suspected" /\ gone = None) /\ Page!Retry(gone) /\ ~Page!Final(verdict.status)
  <2>1. PICK asked \in BOOLEAN \cup {None} : asked = gone
    BY DEF CheckInv, Page!TypeOK
  <2>2. CheckOk' /\ phase' \in {"fetch", "open", "record"}
    BY <1>6, <2>1, RetryOk
  <2>3. ~found
    BY <1>4, <1>6 DEF Page!Final
  <2> QED
    BY <1>1, <1>2, <1>3, <2>2, <2>3, AnswerMoves
<1>7. CASE Page!Deliver(verdict.status)
  <2>1. PICK status : status = verdict.status
    OBVIOUS
  <2>2. CheckOk' /\ phase' \in {"open", "record"} /\ (Page!Final(status) => phase' = "record")
    BY <1>7, <2>1, DeliverOk
  <2>3. found => phase' = "record"
    BY <1>4, <2>1, <2>2 DEF Page!Final
  <2> QED
    BY <1>1, <1>2, <1>3, <2>2, <2>3, AnswerMoves
<1> QED
  BY <1>5, <1>6, <1>7 DEF Page!JudgeAnswer

\* A suspicion is of no link whose numbers were read.
LEMMA ConfirmKeeps == ASSUME CheckInv, Page!Confirm PROVE CheckInv'
<1>1. PICK answer \in {TRUE, FALSE, None} :
        /\ streak' = [streak EXCEPT ![Page!Target] = IF answer = TRUE THEN IF @ = 2 THEN 2 ELSE @ + 1 ELSE 0]
        /\ IF answer = TRUE /\ answers = 0
           THEN answers' = 1 /\ UNCHANGED <<phase, verdict, browser, attempt, resolved, gone>>
           ELSE IF answer = TRUE
           THEN verdict' = [verdict EXCEPT !.status = "unavailable"] /\ Page!Deliver("unavailable")
           ELSE Page!Retry(answer) /\ UNCHANGED verdict
  BY DEF Page!Confirm
<1>2. /\ phase = "confirm" /\ Page!Target \in Posts
      /\ UNCHANGED <<mode, named, expected, used, again, outcome, landed, polls, previous, cell, hid, found>>
  BY DEF Page!Confirm, Page!linkVars, Page!attemptVars, Page!Posts, Posts
<1>3. PICK p \in Posts : p = Page!Target
  BY <1>2
<1>4. /\ ~found /\ verdict.status # "unavailable" /\ answers \in 0 .. 1 /\ (answers = 1 => streak[p] >= 1)
      /\ streak \in [Posts -> 0 .. 2] /\ named \in BOOLEAN
  BY <1>2, <1>3 DEF CheckInv, Page!TypeOK, Page!Posts, Posts
<1>5. streak' = [streak EXCEPT ![p] = IF answer = TRUE THEN IF streak[p] = 2 THEN 2 ELSE streak[p] + 1 ELSE 0]
  BY <1>1, <1>3
<1>6. streak[p] \in 0 .. 2
  BY <1>4
<1>7. streak' \in [Posts -> 0 .. 2] /\ streak'[p] = IF answer = TRUE THEN IF streak[p] = 2 THEN 2 ELSE streak[p] + 1 ELSE 0
  BY <1>4, <1>5, <1>6
<1>8. AnswerInv(verdict)
  BY DEF CheckInv
<1>9. CASE answer = TRUE /\ answers = 0
  <2>1. answers' = 1 /\ UNCHANGED <<phase, verdict, browser, attempt, resolved, gone>>
    BY <1>1, <1>9
  <2>2. CheckOk'
    BY <1>2, <2>1 DEF CheckInv, Page!TypeOK, CheckOk, Page!Places, Page!Posts, Places, Posts
  <2>3. Page!Target' = p /\ streak'[p] >= 1
    BY <1>2, <1>3, <1>6, <1>7, <1>9, <2>1 DEF Page!Target
  <2>4. AnswerInv(verdict)'
    BY <1>2, <1>8, <2>1 DEF AnswerInv, ReadOf, HidSaid
  <2>5. verdict'.status # "unavailable"
    BY <1>4, <2>1
  <2> QED
    BY <1>2, <1>4, <1>7, <2>2, <2>3, <2>4, <2>5, AnswerMoves
<1>10. CASE answer = TRUE /\ answers = 1
  <2>1. verdict' = [verdict EXCEPT !.status = "unavailable"] /\ Page!Deliver("unavailable")
    BY <1>1, <1>10
  <2>2. CheckOk' /\ phase' = "record"
    <3>1. PICK status : status = "unavailable"
      OBVIOUS
    <3> QED
      BY <2>1, <3>1, DeliverOk DEF Page!Final, Page!ClearsNumbers
  <2>3. GoneSaid'
    <3>1. streak'[p] = 2
      BY <1>4, <1>6, <1>7, <1>10
    <3>2. named' => p = "own"
      BY <1>2, <1>3, <1>4 DEF Page!Target
    <3> QED
      BY <3>1, <3>2 DEF GoneSaid
  <2>4. verdict'.status = "unavailable" /\ AnswerInv(verdict)'
    BY <1>8, <2>1 DEF AnswerInv, Page!Answer
  <2> QED
    BY <1>2, <1>4, <1>7, <2>2, <2>3, <2>4, AnswerMoves
<1>11. CASE ~(answer = TRUE)
  <2>1. Page!Retry(answer) /\ verdict' = verdict
    BY <1>1, <1>11
  <2>2. CheckOk' /\ phase' \in {"fetch", "open", "record"}
    BY <2>1, RetryOk
  <2>3. AnswerInv(verdict)'
    BY <1>2, <1>8, <2>1 DEF AnswerInv, ReadOf, HidSaid
  <2>4. verdict'.status # "unavailable"
    BY <1>4, <2>1
  <2> QED
    BY <1>2, <1>4, <1>7, <2>2, <2>3, <2>4, AnswerMoves
<1>12. answers = 0 \/ answers = 1
  BY <1>4
<1> QED
  BY <1>9, <1>10, <1>11, <1>12, Zenon

LEMMA ConfirmNothingKeeps == ASSUME CheckInv, Page!ConfirmNothing PROVE CheckInv'
<1>1. /\ phase = "confirm" /\ Page!Retry(None) /\ verdict' = verdict
      /\ UNCHANGED <<mode, named, expected, used, again, outcome, landed, polls, previous, cell, hid, found, streak>>
  BY DEF Page!ConfirmNothing, Page!linkVars, Page!attemptVars
<1>2. CheckOk' /\ phase' \in {"fetch", "open", "record"}
  BY <1>1, RetryOk
<1>3. streak' \in [Posts -> 0 .. 2] /\ ~found /\ verdict'.status # "unavailable"
  BY <1>1 DEF CheckInv, Page!TypeOK, Page!Posts, Posts
<1>4. AnswerInv(verdict)'
  BY <1>1 DEF CheckInv, AnswerInv, ReadOf, HidSaid
<1> QED
  BY <1>1, <1>2, <1>3, <1>4, AnswerMoves

LEMMA NoBrowserKeeps == ASSUME CheckInv, Page!NoBrowser PROVE CheckInv'
<1>1. /\ phase = "open" /\ phase' = "record" /\ verdict' = verdict
      /\ UNCHANGED <<mode, named, expected, used, again, outcome, landed, polls, previous, cell, hid, found, streak,
                     browser, attempt, resolved, gone, answers>>
  BY DEF Page!NoBrowser, Page!linkVars, Page!attemptVars, Page!checkVars
<1>2. CheckOk'
  BY <1>1 DEF CheckInv, Page!TypeOK, CheckOk, Page!Places, Page!Posts, Places, Posts
<1>3. streak' \in [Posts -> 0 .. 2] /\ ~found /\ verdict'.status # "unavailable"
  BY <1>1 DEF CheckInv, Page!TypeOK, Page!Posts, Posts
<1>4. AnswerInv(verdict)'
  BY <1>1 DEF CheckInv, AnswerInv, ReadOf, HidSaid
<1> QED
  BY <1>1, <1>2, <1>3, <1>4, AnswerMoves

\* The row gets what its answer says of its own post.
LEMMA RecordKeeps == ASSUME CheckInv, Page!Record PROVE CheckInv'
<1>1. /\ phase = "record" /\ phase' = "done" /\ verdict' = verdict
      /\ cell' = IF Page!OtherPost THEN cell
                 ELSE IF verdict.status = "success" THEN [is |-> "read", counts |-> verdict.counts]
                 ELSE IF Page!ClearsNumbers(verdict.status) THEN [is |-> "blank", counts |-> None] ELSE cell
      /\ UNCHANGED <<mode, named, expected, used, again, outcome, landed, polls, previous, hid, found, streak,
                     browser, attempt, resolved, gone, answers>>
  BY DEF Page!Record, Page!linkVars, Page!attemptVars, Page!checkVars
<1>2. cell.is = "old" /\ named \in BOOLEAN /\ previous = None /\ AnswerInv(verdict)
  BY <1>1 DEF CheckInv
<1>3. Page!TypeOK'
  BY <1>1 DEF CheckInv, Page!TypeOK
<1>4. OutcomeInv(outcome)' /\ AnswerInv(verdict)' /\ (GoneSaid => GoneSaid')
  BY <1>1 DEF CheckInv, OutcomeInv, AnswerInv, ReadOf, HidSaid, GoneSaid
<1>5. verdict'.status = "unavailable" => GoneSaid'
  BY <1>1, <1>4 DEF CheckInv
<1>6. Page!ClearedOnProof'
  <2>1. cell'.is = "blank" => Page!ClearsNumbers(verdict.status)
    BY <1>1, <1>2
  <2>2. cell'.is = "blank" => HidSaid' \/ GoneSaid'
    BY <1>1, <1>4, <1>5, <2>1 DEF Page!ClearsNumbers, AnswerInv
  <2> QED
    BY <2>2 DEF Page!ClearedOnProof, Page!Proved, HidSaid, GoneSaid, Page!Posts, Posts
<1>7. Page!NumbersOfItsPost'
  <2>1. cell'.is = "read" => /\ ~Page!OtherPost /\ verdict.status = "success" /\ cell'.counts = verdict.counts
    BY <1>1, <1>2
  <2>2. cell'.is = "read" => ReadOf(verdict.counts, verdict.place) /\ (expected => verdict.place = "own")
    BY <1>2, <2>1 DEF AnswerInv, Page!OtherPost
  <2> QED
    BY <1>1, <2>1, <2>2 DEF Page!NumbersOfItsPost, ReadOf
<1>8. found' => Page!OtherPost' \/ cell'.is = "read"
  <2>1. found' => verdict.status = "success"
    BY <1>1 DEF CheckInv
  <2>2. Page!OtherPost' <=> Page!OtherPost
    BY <1>1 DEF Page!OtherPost
  <2> QED
    BY <1>1, <2>1, <2>2
<1> QED
  BY <1>1, <1>2, <1>3, <1>4, <1>5, <1>6, <1>7, <1>8 DEF CheckInv

LEMMA CheckInit == Page!Init => CheckInv
<1> SUFFICES ASSUME Page!Init PROVE CheckInv
  OBVIOUS
<1>1. Page!TypeOK
  BY CheckAssumption DEF Page!Init, Page!TypeOK, Page!Posts
<1>2. OutcomeInv(outcome)
  BY DEF Page!Init, Page!Fresh, OutcomeInv
<1>3. AnswerInv(verdict) /\ verdict.status = "other"
  BY DEF Page!Init, Page!Answer, AnswerInv
<1>4. /\ phase \in {"fetch", "open"} /\ answers = 0 /\ previous = None /\ ~found /\ cell.is = "old"
      /\ named \in BOOLEAN
  BY DEF Page!Init
<1> QED
  BY <1>1, <1>2, <1>3, <1>4 DEF CheckInv, Page!ClearedOnProof, Page!NumbersOfItsPost

\* "Read metrics only from the embedded item whose id is media_id", and clear them only on proof: the row of
\* a link gets plausible numbers of the post its link names or led to before, loses its numbers only to a post
\* that hid them or is gone twice over, which is the one the link names if it names one, and gets the numbers
\* HTTP has read; for any pages, retries, addresses and polls.
THEOREM RowsOfPosts == Page!Spec => []RowOfItsPost
<1>1. CheckInv /\ [Page!Next]_(Page!vars) => CheckInv'
  <2> SUFFICES ASSUME CheckInv, [Page!Next]_(Page!vars) PROVE CheckInv'
    OBVIOUS
  <2>1. CASE Page!FetchPage \/ Page!FetchFails
    BY <2>1, FetchPageKeeps, FetchFailsKeeps
  <2>2. CASE Page!OpenFails \/ Page!Open \/ Page!Poll
    BY <2>2, OpenFailsKeeps, OpenKeeps, PollKeeps
  <2>3. CASE Page!JudgeAnswer \/ Page!Confirm \/ Page!ConfirmNothing \/ Page!NoBrowser \/ Page!Record
    BY <2>3, JudgeAnswerKeeps, ConfirmKeeps, ConfirmNothingKeeps, NoBrowserKeeps, RecordKeeps
  <2>4. CASE Page!Ended \/ UNCHANGED Page!vars
    <3>1. UNCHANGED <<mode, named, expected, phase, used, again, outcome, landed, polls, previous, verdict,
                      browser, attempt, resolved, gone, answers, cell, hid, streak, found>>
      BY <2>4 DEF Page!Ended, Page!vars, Page!linkVars, Page!attemptVars, Page!checkVars
    <3>2. Page!TypeOK' /\ OutcomeInv(outcome)' /\ AnswerInv(verdict)'
      BY <3>1 DEF CheckInv, Page!TypeOK, OutcomeInv, AnswerInv, ReadOf, HidSaid
    <3>3. Page!ClearedOnProof' /\ Page!NumbersOfItsPost'
      BY <3>1 DEF CheckInv, Page!ClearedOnProof, Page!Proved, Page!NumbersOfItsPost
    <3>4. (previous' # None => phase' = "poll" /\ ReadOf(previous, landed)') /\ (GoneSaid => GoneSaid')
      BY <3>1 DEF CheckInv, ReadOf, GoneSaid
    <3> QED
      BY <3>1, <3>2, <3>3, <3>4 DEF CheckInv, Page!Target, Page!OtherPost
  <2> QED
    BY <2>1, <2>2, <2>3, <2>4 DEF Page!Next
<1>2. CheckInv => RowOfItsPost
  BY DEF CheckInv, RowOfItsPost, Page!RowOfItsPost, Page!ReadIsWritten
<1> QED
  BY <1>1, <1>2, CheckInit, PTL DEF Page!Spec
=============================================================================

------------------------- MODULE ThreadsPass_proofs -------------------------
(***************************************************************************)
(* Theorems about ThreadsPass, for any number of posts, routes and page    *)
(* slots: a post keeps to one route, no slot is lost, a pass that ends     *)
(* without an error leaves no answer behind, and a pass keeps the promise  *)
(* of PassPromise. About ThreadsNavigation, for any number of hops: what a *)
(* page shows is what was fetched for it. About ThreadsPage, for any       *)
(* numbers: which of them a row gets.                                      *)
(***************************************************************************)
EXTENDS MCThreads, FiniteSetTheorems, NaturalsInduction, SequenceTheorems, TLAPS

-----------------------------------------------------------------------------
(* One route.                                                              *)

\* Where a task has not sent its first request yet; only here may its route change.
BeforeRequest == {"pick", "queued", "pace", "launch"}

\* A task's requests went over the route it has now.
RouteInv ==
    /\ DOMAIN at = Items /\ DOMAIN route = Items /\ DOMAIN asked = Items
    /\ \A i \in Items :
        /\ asked[i] \subseteq {route[i]}
        /\ at[i] \in BeforeRequest => asked[i] = {}

\* A step that moves one task to another place and sends nothing.
LEMMA MoveKeepsRoute ==
    ASSUME RouteInv, NEW i \in Items, NEW p, at' = [at EXCEPT ![i] = p], UNCHANGED <<route, asked>>,
           p \in BeforeRequest => at[i] \in BeforeRequest
    PROVE RouteInv'
BY DEF RouteInv

\* A step that sends a request of one task over its route.
LEMMA AskKeepsRoute ==
    ASSUME RouteInv, NEW i \in Items, NEW p, at' = [at EXCEPT ![i] = p], Ask(i), UNCHANGED route,
           p \notin BeforeRequest
    PROVE RouteInv'
BY DEF RouteInv, Ask

LEMMA TaskKeepsRoute ==
    ASSUME RouteInv, NEW i \in Items, TaskStep(i)
    PROVE RouteInv'
<1> USE DEF Goto, BeforeRequest
<1>1. CASE Begin(i)
  <2>1. at[i] = "pick" /\ UNCHANGED asked
    BY <1>1 DEF Begin
  <2>2. CASE PickRoute(i) = {}
    BY <1>1, <2>1, <2>2, MoveKeepsRoute DEF Begin
  <2>3. CASE PickRoute(i) # {}
    <3>1. PICK r : route' = [route EXCEPT ![i] = r]
      BY <1>1, <2>3 DEF Begin
    <3>2. \E p : at' = [at EXCEPT ![i] = p]
      BY <1>1, <2>3 DEF Begin
    <3> QED
      BY <2>1, <3>1, <3>2 DEF RouteInv
  <2> QED
    BY <2>2, <2>3
<1>2. CASE Resume(i)
  BY <1>2, MoveKeepsRoute DEF Resume
<1>3. CASE Paced(i)
  BY <1>3, MoveKeepsRoute, AskKeepsRoute DEF Paced
<1>4. CASE Requested(i)
  BY <1>4, MoveKeepsRoute DEF Requested, AfterRequest
<1>5. CASE Gap(i)
  BY <1>5, MoveKeepsRoute, AskKeepsRoute DEF Gap, AfterRequest
<1>6. CASE Retried(i)
  BY <1>6, MoveKeepsRoute DEF Retried, AfterRequest
<1>7. CASE Fallback(i) \/ FallbackResume(i)
  BY <1>7, MoveKeepsRoute DEF Fallback, FallbackResume
<1>8. CASE Launched(i)
  BY <1>8, MoveKeepsRoute, AskKeepsRoute DEF Launched
<1>9. CASE PageRead(i) \/ Dropped(i)
  BY <1>9, MoveKeepsRoute DEF PageRead, Dropped
<1> QED
  BY <1>1, <1>2, <1>3, <1>4, <1>5, <1>6, <1>7, <1>8, <1>9 DEF TaskStep

\* The result loop and the cancellations leave the tasks where they are.
LEMMA LoopKeepsTasks ==
    ASSUME LoopStep \/ Checkpoint \/ Cancel
    PROVE StillTasks
BY DEF LoopStep, Consume, Sweep, AllTaken, Saved, Finish, Cleanup, Checkpoint, Cancel

\* However its route is retired between two of its awaits, a post is asked for over one route only.
THEOREM RouteKept == Spec => []OneRoute
<1>1. Init => RouteInv
  BY DEF Init, RouteInv
<1>2. RouteInv /\ [Next]_vars => RouteInv'
  <2> SUFFICES ASSUME RouteInv, [Next]_vars PROVE RouteInv'
    OBVIOUS
  <2>1. CASE \E i \in Items : TaskStep(i)
    BY <2>1, TaskKeepsRoute
  <2>2. CASE LoopStep \/ Checkpoint \/ Cancel
    BY <2>2, LoopKeepsTasks DEF StillTasks, RouteInv
  <2>3. CASE UNCHANGED vars
    BY <2>3 DEF vars, tasks, RouteInv
  <2> QED
    BY <2>1, <2>2, <2>3 DEF Next, Over
<1>3. RouteInv => OneRoute
  <2> SUFFICES ASSUME RouteInv, NEW i \in Items PROVE Cardinality(asked[i]) <= 1
    BY DEF OneRoute
  <2>1. asked[i] = {} \/ asked[i] = {route[i]}
    BY DEF RouteInv
  <2>2. Cardinality({}) = 0 /\ Cardinality({route[i]}) = 1
    BY FS_EmptySet, FS_Singleton, Zenon
  <2> QED
    BY <2>1, <2>2
<1> QED
  BY <1>1, <1>2, <1>3, PTL DEF Spec
-----------------------------------------------------------------------------
(* The page slots.                                                         *)

\* Facts about queues: all their places hold different items.
Distinct(s) == \A k, l \in 1 .. Len(s) : s[k] = s[l] => k = l
InQueue(s) == {s[k] : k \in 1 .. Len(s)}

LEMMA QueueAppend ==
    ASSUME NEW S, NEW s \in Seq(S), NEW x \in S, Distinct(s), x \notin InQueue(s)
    PROVE Append(s, x) \in Seq(S) /\ Distinct(Append(s, x)) /\ InQueue(Append(s, x)) = InQueue(s) \cup {x}
<1> DEFINE t == Append(s, x)
<1>1. /\ t \in Seq(S) /\ Len(t) = Len(s) + 1 /\ Len(s) \in Nat
      /\ \A k \in 1 .. Len(s) : t[k] = s[k]
      /\ t[Len(s) + 1] = x
  BY AppendProperties, LenProperties
<1> HIDE DEF t
<1>2. 1 .. Len(t) = 1 .. Len(s) \cup {Len(s) + 1}
  BY <1>1
<1>3. InQueue(t) = InQueue(s) \cup {x}
  BY <1>1, <1>2 DEF InQueue
<1>4. Distinct(t)
  BY <1>1, <1>2 DEF Distinct, InQueue
<1> QED
  BY <1>1, <1>3, <1>4 DEF t

LEMMA QueueTail ==
    ASSUME NEW S, NEW s \in Seq(S), Distinct(s), s # <<>>
    PROVE /\ Tail(s) \in Seq(S) /\ Distinct(Tail(s))
          /\ Head(s) \in S /\ Head(s) \in InQueue(s) /\ InQueue(Tail(s)) = InQueue(s) \ {Head(s)}
<1> DEFINE t == Tail(s)
<1>1. /\ t \in Seq(S) /\ Len(t) = Len(s) - 1 /\ Len(s) \in Nat \ {0}
      /\ Head(s) \in S /\ Head(s) = s[1]
      /\ \A k \in 1 .. Len(t) : t[k] = s[k + 1]
  BY HeadTailProperties, EmptySeq
<1> HIDE DEF t
<1>2. Distinct(t)
  BY <1>1 DEF Distinct
<1>3. Head(s) \in InQueue(s)
  BY <1>1 DEF InQueue
<1>4. InQueue(t) \subseteq InQueue(s) \ {s[1]}
  BY <1>1 DEF InQueue, Distinct
<1>5. InQueue(s) \ {s[1]} \subseteq InQueue(t)
  <2> SUFFICES ASSUME NEW k \in 1 .. Len(s), s[k] # s[1] PROVE s[k] \in InQueue(t)
    BY DEF InQueue
  <2>1. k - 1 \in 1 .. Len(t) /\ t[k - 1] = s[k]
    BY <1>1
  <2> QED
    BY <2>1 DEF InQueue
<1> QED
  BY <1>1, <1>2, <1>3, <1>4, <1>5 DEF t

\* Where a task holds a slot, and where it waits for one.
HoldPlaces == {"pace", "request", "gap", "retry", "launch", "page", "fblaunch", "fbpage"}
WaitPlaces == {"queued", "fbqueued"}
WaitPlace(fallback) == IF fallback THEN "fbqueued" ELSE "queued"

\* A queue holds, once each, tasks that wait where it is served and have no slot granted.
QueueOK(fallback) ==
    /\ Distinct(waiters[fallback])
    /\ \A i \in InQueue(waiters[fallback]) : at[i] = WaitPlace(fallback) /\ i \notin granted

NoWaiters == waiters[TRUE] = <<>> /\ waiters[FALSE] = <<>>

SlotType ==
    /\ at \in [Items -> Places]
    /\ free \in Nat /\ granted \subseteq Items /\ waiters \in [BOOLEAN -> Seq(Items)]

\* Every slot is free, held or granted; a slot is only free when nobody waits, and nobody waits once
\* the tasks are cancelled.
SlotInv ==
    /\ SlotType
    /\ free + Cardinality(Holding) + Cardinality(granted) = Workers
    /\ free > 0 \/ Cancelling => NoWaiters
    /\ \A i \in granted : at[i] \in WaitPlaces
    /\ QueueOK(TRUE) /\ QueueOK(FALSE)

LEMMA ItemsFinite == IsFiniteSet(Items) /\ IsFiniteSet(Holding) /\ Holding \subseteq Items
<1>1. IsFiniteSet(Items)
  BY ThreadsAssumption, FS_Interval DEF Items
<1> QED
  BY <1>1, FS_Subset DEF Holding

\* What one task's move does to the number of slots held.
LEMMA HoldingMoves ==
    ASSUME SlotType, NEW i \in Items, NEW p \in Places, at' = [at EXCEPT ![i] = p]
    PROVE /\ Cardinality(Holding) \in Nat /\ IsFiniteSet(Holding')
          /\ at' \in [Items -> Places]
          /\ (at[i] \in HoldPlaces <=> p \in HoldPlaces) => Cardinality(Holding') = Cardinality(Holding)
          /\ at[i] \notin HoldPlaces /\ p \in HoldPlaces => Cardinality(Holding') = Cardinality(Holding) + 1
          /\ at[i] \in HoldPlaces /\ p \notin HoldPlaces => Cardinality(Holding') = Cardinality(Holding) - 1
<1>1. Holding = {j \in Items : at[j] \in HoldPlaces} /\ Holding' = {j \in Items : at'[j] \in HoldPlaces}
  BY DEF Holding, HoldPlaces
<1>2. at' \in [Items -> Places] /\ at'[i] = p /\ \A j \in Items \ {i} : at'[j] = at[j]
  BY DEF SlotType
<1>3. Cardinality(Holding) \in Nat
  BY ItemsFinite, FS_CardinalityType
<1>4. IsFiniteSet(Holding')
  <2>1. Holding' \in SUBSET Items
    BY <1>1
  <2> QED
    BY <2>1, ItemsFinite, FS_Subset
<1>5. CASE at[i] \in HoldPlaces <=> p \in HoldPlaces
  <2>1. Holding' = Holding
    BY <1>1, <1>2, <1>5
  <2> QED
    BY <1>2, <1>3, <1>4, <1>5, <2>1
<1>6. CASE at[i] \notin HoldPlaces /\ p \in HoldPlaces
  <2>1. Holding' = Holding \cup {i} /\ i \notin Holding
    BY <1>1, <1>2, <1>6
  <2>2. Cardinality(Holding \cup {i}) = Cardinality(Holding) + 1
    BY <2>1, ItemsFinite, FS_AddElement
  <2> QED
    BY <1>2, <1>3, <1>4, <1>6, <2>1, <2>2
<1>7. CASE at[i] \in HoldPlaces /\ p \notin HoldPlaces
  <2>1. Holding' = Holding \ {i} /\ i \in Holding
    BY <1>1, <1>2, <1>7
  <2>2. Cardinality(Holding \ {i}) = Cardinality(Holding) - 1
    BY <2>1, ItemsFinite, FS_RemoveElement
  <2> QED
    BY <1>2, <1>3, <1>4, <1>7, <2>1, <2>2
<1> QED
  BY <1>5, <1>6, <1>7

\* What a grant, or its use, does to the number of grants.
LEMMA GrantCounts ==
    ASSUME SlotType
    PROVE /\ IsFiniteSet(granted) /\ Cardinality(granted) \in Nat
          /\ \A i \in granted : /\ IsFiniteSet(granted \ {i})
                              /\ Cardinality(granted \ {i}) = Cardinality(granted) - 1
<1>1. IsFiniteSet(granted)
  BY ItemsFinite, FS_Subset DEF SlotType
<1>2. Cardinality(granted) \in Nat
  BY <1>1, FS_CardinalityType
<1>3. \A i \in granted : /\ IsFiniteSet(granted \ {i})
                        /\ Cardinality(granted \ {i}) = Cardinality(granted) - 1
  BY <1>1, FS_RemoveElement
<1> QED
  BY <1>1, <1>2, <1>3

\* Which tasks a queue serves does not depend on tasks that do not wait in it.
LEMMA QueueKept ==
    ASSUME SlotInv, NEW i \in Items, NEW p, at' = [at EXCEPT ![i] = p], NEW fallback \in BOOLEAN,
           granted' \subseteq granted \cup {i}, UNCHANGED waiters,
           at[i] \notin WaitPlaces \/ i \in granted
    PROVE QueueOK(fallback)'
<1>1. QueueOK(fallback)
  BY DEF SlotInv
<1>2. i \notin InQueue(waiters[fallback])
  BY <1>1 DEF QueueOK, WaitPlace, WaitPlaces
<1> QED
  BY <1>1, <1>2 DEF QueueOK, SlotInv, SlotType

\* A task that gives its slot back, held or just granted, hands it to the first in a queue.
LEMMA GiveBackKeeps ==
    ASSUME SlotInv, ~Cancelling, NEW i \in Items, NEW p \in Places,
           at' = [at EXCEPT ![i] = p], p \notin HoldPlaces \cup WaitPlaces,
           at[i] \in HoldPlaces \/ i \in granted,
           GiveBack(granted \ {i}), UNCHANGED pc
    PROVE SlotInv'
<1> DEFINE still == granted \ {i}
<1>1. SlotType /\ (i \in granted => at[i] \in WaitPlaces) /\ Workers \in Nat
  BY ThreadsAssumption DEF SlotInv
<1>2. HoldPlaces \cap WaitPlaces = {}
  BY DEF HoldPlaces, WaitPlaces
<1>3. /\ IsFiniteSet(still) /\ Cardinality(still) \in Nat /\ Cardinality(Holding') \in Nat
      /\ free + Cardinality(Holding') + Cardinality(still) + 1 = Workers
  <2>1. /\ at' \in [Items -> Places] /\ Cardinality(Holding) \in Nat
        /\ at[i] \notin HoldPlaces => Cardinality(Holding') = Cardinality(Holding)
        /\ at[i] \in HoldPlaces => Cardinality(Holding') = Cardinality(Holding) - 1
    BY <1>1, HoldingMoves
  <2>2. /\ IsFiniteSet(granted) /\ Cardinality(granted) \in Nat
        /\ \A j \in granted : /\ IsFiniteSet(granted \ {j})
                            /\ Cardinality(granted \ {j}) = Cardinality(granted) - 1
    BY <1>1, GrantCounts
  <2>3. IsFiniteSet(still) /\ Cardinality(still) \in Nat
    BY <2>2, FS_Difference, FS_CardinalityType
  <2>4. IsFiniteSet(Holding') /\ Cardinality(Holding') \in Nat
    BY <1>1, HoldingMoves, FS_CardinalityType
  <2>5. CASE at[i] \in HoldPlaces
    <3>1. still = granted
      BY <1>1, <1>2, <2>5
    <3>2. Cardinality(still) = Cardinality(granted)
      BY <3>1
    <3>3. Cardinality(Holding') = Cardinality(Holding) - 1
      BY <2>1, <2>5
    <3> QED
      BY <1>1, <2>1, <2>2, <2>3, <2>4, <3>2, <3>3 DEF SlotInv, SlotType
  <2>6. CASE i \in granted
    BY <1>1, <1>2, <2>1, <2>2, <2>3, <2>4, <2>6 DEF SlotInv, SlotType
  <2> QED
    BY <2>5, <2>6
<1>4. at' \in [Items -> Places] /\ at'[i] = p /\ \A j \in Items \ {i} : at'[j] = at[j]
  BY <1>1 DEF SlotType
<1>5. ~Cancelling'
  BY DEF Cancelling
<1>6. CASE NoWaiters
  <2>1. free' = free + 1 /\ granted' = still /\ UNCHANGED waiters
    BY <1>6 DEF GiveBack, NoWaiters
  <2>2. QueueOK(TRUE)' /\ QueueOK(FALSE)'
    BY <1>1, <1>2, <2>1, QueueKept
  <2>3. SlotType'
    BY <1>1, <1>4, <2>1 DEF SlotType
  <2>4. NoWaiters'
    BY <1>6, <2>1 DEF NoWaiters
  <2>5. free' + Cardinality(Holding') + Cardinality(granted') = Workers
    BY <1>1, <1>3, <2>1 DEF SlotType
  <2>6. \A j \in granted' : at'[j] \in WaitPlaces
    BY <1>4, <2>1 DEF SlotInv, SlotType
  <2> QED
    BY <2>2, <2>3, <2>4, <2>5, <2>6 DEF SlotInv
<1>7. CASE ~NoWaiters
  <2>1. PICK q \in BOOLEAN :
          /\ waiters[q] # <<>> /\ waiters[q] \in Seq(Items)
          /\ granted' = still \cup {Head(waiters[q])}
          /\ waiters' = [waiters EXCEPT ![q] = Tail(@)] /\ UNCHANGED free
    BY <1>1, <1>7 DEF GiveBack, NoWaiters, SlotType
  <2> DEFINE h == Head(waiters[q])
  <2>a. granted' = still \cup {h}
    BY <2>1
  <2>2. QueueOK(q) /\ QueueOK(~q)
    BY <2>1 DEF SlotInv
  <2>3. /\ Tail(waiters[q]) \in Seq(Items) /\ Distinct(Tail(waiters[q]))
        /\ h \in Items /\ h \in InQueue(waiters[q])
        /\ InQueue(Tail(waiters[q])) = InQueue(waiters[q]) \ {h}
    BY <2>1, <2>2, QueueTail DEF QueueOK
  <2> HIDE DEF h
  <2>4. at[h] = WaitPlace(q) /\ h \notin granted /\ h # i
    BY <1>1, <1>2, <2>2, <2>3 DEF QueueOK, WaitPlace, WaitPlaces
  <2>5. Cardinality(granted') = Cardinality(still) + 1
    BY <1>3, <2>a, <2>4, FS_AddElement
  <2>6. free' = 0 /\ free = 0
    BY <1>1, <1>7, <2>1 DEF SlotInv, SlotType
  <2>7. SlotType'
    BY <1>1, <1>4, <2>a, <2>1, <2>3 DEF SlotType
  <2>8. free' + Cardinality(Holding') + Cardinality(granted') = Workers
    BY <1>1, <1>3, <2>1, <2>5 DEF SlotType
  <2>9. \A j \in granted' : at'[j] \in WaitPlaces
    BY <1>4, <2>a, <2>3, <2>4 DEF SlotInv, SlotType, WaitPlace, WaitPlaces
  <2>10. waiters'[q] = Tail(waiters[q]) /\ waiters'[~q] = waiters[~q]
    BY <1>1, <2>1 DEF SlotType
  <2>11. InQueue(waiters[q]) \subseteq Items /\ InQueue(waiters[~q]) \subseteq Items
    <3>1. \A b \in BOOLEAN : \A k \in 1 .. Len(waiters[b]) : waiters[b][k] \in Items
      BY <1>1, ElementOfSeq DEF SlotType
    <3> QED
      BY <2>1, <3>1 DEF InQueue
  <2>12. i \notin InQueue(waiters[q]) /\ i \notin InQueue(waiters[~q])
    BY <1>1, <1>2, <2>1, <2>2 DEF QueueOK, WaitPlace, WaitPlaces
  <2>13. QueueOK(q)'
    <3>1. \A j \in InQueue(Tail(waiters[q])) : at'[j] = WaitPlace(q) /\ j \notin granted'
      BY <1>4, <2>a, <2>2, <2>3, <2>11, <2>12 DEF QueueOK
    <3> QED
      BY <2>3, <2>10, <3>1 DEF QueueOK
  <2>14. h \notin InQueue(waiters[~q])
    BY <2>1, <2>2, <2>4 DEF QueueOK, WaitPlace
  <2>15. QueueOK(~q)'
    <3>1. \A j \in InQueue(waiters[~q]) : at'[j] = WaitPlace(~q) /\ j \notin granted'
      BY <1>4, <2>a, <2>2, <2>11, <2>12, <2>14 DEF QueueOK
    <3> QED
      BY <2>2, <2>10, <3>1 DEF QueueOK
  <2>16. QueueOK(TRUE)' /\ QueueOK(FALSE)'
    BY <2>13, <2>15
  <2>17. free' > 0 \/ Cancelling' => NoWaiters'
    BY <1>5, <2>6
  <2> QED
    BY <2>7, <2>8, <2>9, <2>16, <2>17 DEF SlotInv
<1> QED
  BY <1>6, <1>7

\* A task that keeps what it has: a slot, or none.
LEMMA StayKeeps ==
    ASSUME SlotInv, NEW i \in Items, NEW p \in Places, at' = [at EXCEPT ![i] = p],
           at[i] \notin WaitPlaces, p \notin WaitPlaces, at[i] \in HoldPlaces <=> p \in HoldPlaces,
           UNCHANGED <<slots, pc>>
    PROVE SlotInv'
<1>1. SlotType
  BY DEF SlotInv
<1>2. at' \in [Items -> Places] /\ Cardinality(Holding') = Cardinality(Holding)
  BY <1>1, HoldingMoves
<1>3. SlotType'
  BY <1>1, <1>2 DEF SlotType, slots
<1>4. QueueOK(TRUE)' /\ QueueOK(FALSE)'
  BY QueueKept DEF slots
<1>5. \A j \in granted' : at'[j] \in WaitPlaces
  BY <1>1 DEF SlotInv, SlotType, slots
<1> QED
  BY <1>2, <1>3, <1>4, <1>5 DEF SlotInv, slots, Cancelling, NoWaiters

\* A task that enters while a slot is free and nobody waits.
LEMMA EnterKeeps ==
    ASSUME SlotInv, NEW i \in Items, NEW p \in HoldPlaces, at' = [at EXCEPT ![i] = p],
           at[i] \notin WaitPlaces \cup HoldPlaces, CanEnter, Enter, UNCHANGED pc
    PROVE SlotInv'
<1>1. SlotType /\ p \in Places /\ p \notin WaitPlaces
  BY DEF SlotInv, HoldPlaces, Places, WaitPlaces
<1>2. at' \in [Items -> Places] /\ Cardinality(Holding') = Cardinality(Holding) + 1
      /\ Cardinality(Holding) \in Nat
  BY <1>1, HoldingMoves
<1>3. Cardinality(granted) \in Nat
  BY <1>1, GrantCounts
<1>4. SlotType'
  BY <1>1, <1>2 DEF SlotType, CanEnter, Enter
<1>5. QueueOK(TRUE)' /\ QueueOK(FALSE)'
  BY QueueKept DEF Enter
<1>6. \A j \in granted' : at'[j] \in WaitPlaces
  BY <1>1 DEF SlotInv, SlotType, Enter
<1>7. free' + Cardinality(Holding') + Cardinality(granted') = Workers
  BY <1>1, <1>2, <1>3, ThreadsAssumption DEF SlotInv, SlotType, Enter
<1>8. NoWaiters'
  BY DEF CanEnter, Enter, NoWaiters
<1> QED
  BY <1>4, <1>5, <1>6, <1>7, <1>8 DEF SlotInv

\* A task that queues because no slot is free for it.
LEMMA EnqueueKeeps ==
    ASSUME SlotInv, ~Cancelling, NEW i \in Items, NEW fallback \in BOOLEAN,
           at' = [at EXCEPT ![i] = WaitPlace(fallback)],
           at[i] \notin WaitPlaces \cup HoldPlaces, ~CanEnter, Enqueue(i, fallback), UNCHANGED pc
    PROVE SlotInv'
<1> DEFINE p == WaitPlace(fallback)
<1>1. SlotType /\ p \in Places /\ p \in WaitPlaces /\ p \notin HoldPlaces
  BY DEF SlotInv, HoldPlaces, Places, WaitPlaces, WaitPlace
<1>2. at' \in [Items -> Places] /\ Cardinality(Holding') = Cardinality(Holding)
  BY <1>1, HoldingMoves
<1>3. free = 0 /\ UNCHANGED <<free, granted>>
  <2>1. ~(free > 0)
    BY DEF SlotInv, CanEnter, NoWaiters
  <2>2. UNCHANGED <<free, granted>>
    BY DEF Enqueue
  <2> QED
    BY <1>1, <2>1, <2>2 DEF SlotType
<1>4. /\ waiters'[fallback] = Append(waiters[fallback], i)
      /\ waiters'[~fallback] = waiters[~fallback] /\ waiters[fallback] \in Seq(Items)
  BY <1>1 DEF SlotType, Enqueue
<1>5. QueueOK(fallback) /\ QueueOK(~fallback)
  BY DEF SlotInv
<1>6. /\ i \notin InQueue(waiters[fallback]) /\ i \notin InQueue(waiters[~fallback]) /\ i \notin granted
  BY <1>5 DEF QueueOK, WaitPlace, WaitPlaces, SlotInv
<1>7. /\ Append(waiters[fallback], i) \in Seq(Items) /\ Distinct(Append(waiters[fallback], i))
      /\ InQueue(Append(waiters[fallback], i)) = InQueue(waiters[fallback]) \cup {i}
  BY <1>4, <1>5, <1>6, QueueAppend DEF QueueOK
<1>8. SlotType'
  BY <1>1, <1>2, <1>3, <1>7 DEF SlotType, Enqueue
<1>9. InQueue(waiters[fallback]) \subseteq Items /\ InQueue(waiters[~fallback]) \subseteq Items
  <2>1. \A b \in BOOLEAN : \A k \in 1 .. Len(waiters[b]) : waiters[b][k] \in Items
    BY <1>1, ElementOfSeq DEF SlotType
  <2> QED
    BY <2>1 DEF InQueue
<1>10. at'[i] = p /\ \A j \in Items \ {i} : at'[j] = at[j]
  BY <1>1 DEF SlotType
<1>11. QueueOK(fallback)'
  <2>1. \A j \in InQueue(Append(waiters[fallback], i)) : at'[j] = p /\ j \notin granted'
    BY <1>3, <1>5, <1>6, <1>7, <1>9, <1>10 DEF QueueOK
  <2> QED
    BY <1>4, <1>7, <2>1 DEF QueueOK
<1>12. QueueOK(~fallback)'
  <2>1. \A j \in InQueue(waiters[~fallback]) : at'[j] = WaitPlace(~fallback) /\ j \notin granted'
    BY <1>3, <1>5, <1>6, <1>9, <1>10 DEF QueueOK
  <2> QED
    BY <1>4, <1>5, <2>1 DEF QueueOK
<1>13. QueueOK(TRUE)' /\ QueueOK(FALSE)'
  BY <1>11, <1>12
<1>14. \A j \in granted' : at'[j] \in WaitPlaces
  BY <1>1, <1>3, <1>6, <1>10 DEF SlotInv, SlotType
<1>15. free' > 0 \/ Cancelling' => NoWaiters'
  BY <1>3 DEF Cancelling
<1>16. free' + Cardinality(Holding') + Cardinality(granted') = Workers
  BY <1>2, <1>3 DEF SlotInv
<1> QED
  BY <1>8, <1>13, <1>14, <1>15, <1>16 DEF SlotInv

\* A task that resumes with the slot granted to it.
LEMMA UseGrantKeeps ==
    ASSUME SlotInv, NEW i \in granted, NEW p \in HoldPlaces, at' = [at EXCEPT ![i] = p],
           granted' = granted \ {i}, UNCHANGED <<free, waiters, pc>>
    PROVE SlotInv'
<1>1. SlotType /\ p \in Places /\ p \notin WaitPlaces /\ i \in Items /\ at[i] \in WaitPlaces
  BY DEF SlotInv, SlotType, HoldPlaces, Places, WaitPlaces
<1>2. at[i] \notin HoldPlaces
  BY <1>1 DEF HoldPlaces, WaitPlaces
<1>3. at' \in [Items -> Places] /\ Cardinality(Holding') = Cardinality(Holding) + 1
      /\ Cardinality(Holding) \in Nat
  BY <1>1, <1>2, HoldingMoves
<1>4. Cardinality(granted) \in Nat /\ Cardinality(granted') = Cardinality(granted) - 1
  BY <1>1, GrantCounts
<1>5. SlotType'
  BY <1>1, <1>3 DEF SlotType
<1>6. QueueOK(TRUE)' /\ QueueOK(FALSE)'
  BY <1>1, QueueKept
<1>7. \A j \in granted' : at'[j] \in WaitPlaces
  BY <1>1 DEF SlotInv, SlotType
<1>8. free' + Cardinality(Holding') + Cardinality(granted') = Workers
  BY <1>1, <1>3, <1>4, ThreadsAssumption DEF SlotInv, SlotType
<1>9. free' > 0 \/ Cancelling' => NoWaiters'
  BY DEF SlotInv, Cancelling, NoWaiters
<1> QED
  BY <1>5, <1>6, <1>7, <1>8, <1>9 DEF SlotInv

\* A cancelled task gives back the slot it holds or was granted; nobody waits any more.
LEMMA DropKeeps ==
    ASSUME SlotInv, NEW i \in Items, Dropped(i)
    PROVE SlotInv'
<1> DEFINE p == "cancelled"
<1>1. /\ SlotType /\ p \in Places /\ p \notin WaitPlaces /\ p \notin HoldPlaces
      /\ at' = [at EXCEPT ![i] = p] /\ granted' = granted \ {i} /\ UNCHANGED <<waiters, pc>>
      /\ NoWaiters
  BY DEF SlotInv, HoldPlaces, Places, Ended, WaitPlaces, Dropped, Goto, TaskOnly, loop
<1>2. Cardinality(Holding) \in Nat /\ Cardinality(granted) \in Nat
  BY <1>1, HoldingMoves, GrantCounts
<1>3. NoWaiters'
  BY <1>1 DEF NoWaiters
<1>4. QueueOK(TRUE)' /\ QueueOK(FALSE)'
  <2>1. 1 .. Len(<<>>) = {}
    BY EmptySeq
  <2> QED
    BY <1>3, <2>1 DEF NoWaiters, QueueOK, Distinct, InQueue
<1>5. \A j \in granted' : at'[j] \in WaitPlaces
  BY <1>1 DEF SlotInv, SlotType
<1>6. free' = IF i \in Holding \cup granted THEN free + 1 ELSE free
  BY DEF Dropped
<1>7. SlotType'
  BY <1>1, <1>6 DEF SlotType
<1>8. i \in Holding <=> at[i] \in HoldPlaces
  BY DEF Holding, HoldPlaces
<1>9. CASE at[i] \in HoldPlaces
  <2>1. Cardinality(Holding') = Cardinality(Holding) - 1
    BY <1>1, <1>9, HoldingMoves
  <2>2. i \notin granted
    BY <1>9 DEF SlotInv, HoldPlaces, WaitPlaces
  <2>3. Cardinality(granted') = Cardinality(granted)
    BY <1>1, <2>2
  <2>a. free' = free + 1
    BY <1>6, <1>8, <1>9
  <2>4. free' + Cardinality(Holding') + Cardinality(granted') = Workers
    BY <1>1, <1>2, <2>1, <2>3, <2>a DEF SlotInv, SlotType
  <2> QED
    BY <1>3, <1>4, <1>5, <1>7, <2>4 DEF SlotInv
<1>10. CASE at[i] \notin HoldPlaces
  <2>1. Cardinality(Holding') = Cardinality(Holding)
    BY <1>1, <1>10, HoldingMoves
  <2>2. i \in granted => Cardinality(granted') = Cardinality(granted) - 1
    BY <1>1, GrantCounts
  <2>3. i \notin granted => Cardinality(granted') = Cardinality(granted)
    <3>1. i \notin granted => granted' = granted
      BY <1>1
    <3> QED
      BY <3>1
  <2>a. free' = IF i \in granted THEN free + 1 ELSE free
    BY <1>6, <1>8, <1>10
  <2>4. free' + Cardinality(Holding') + Cardinality(granted') = Workers
    BY <1>1, <1>2, <2>1, <2>2, <2>3, <2>a DEF SlotInv, SlotType
  <2> QED
    BY <1>3, <1>4, <1>5, <1>7, <2>4 DEF SlotInv
<1> QED
  BY <1>9, <1>10

LEMMA TaskKeepsSlots ==
    ASSUME SlotInv, NEW i \in Items, TaskStep(i)
    PROVE SlotInv'
<1> USE DEF Goto, HoldPlaces, WaitPlaces, Ended
<1>1. SlotType /\ (i \in granted => at[i] \in WaitPlaces)
  BY DEF SlotInv
<1>2. \A p \in {"pick", "fallback", "done", "skipped"} :
        p \in Places /\ p \notin HoldPlaces \cup WaitPlaces
  BY DEF Places
<1>3. HoldPlaces \subseteq Places
  BY DEF Places
<1>4. i \notin granted => granted = granted \ {i}
  OBVIOUS
<1>5. pc' = pc
  BY DEF TaskStep, Begin, Resume, Paced, Requested, Gap, Retried, Fallback, FallbackResume, Launched,
         PageRead, Dropped, TaskOnly, loop
<1>6. CASE Begin(i)
  <2>1. at[i] = "pick" /\ ~Cancelling
    BY <1>6 DEF Begin
  <2>2. CASE PickRoute(i) = {}
    BY <1>2, <1>5, <1>6, <2>1, <2>2, StayKeeps DEF Begin
  <2>3. CASE PickRoute(i) # {} /\ CanEnter
    <3>1. \E p \in HoldPlaces : at' = [at EXCEPT ![i] = p]
      BY <1>6, <2>3 DEF Begin
    <3> QED
      BY <1>5, <1>6, <2>1, <2>3, <3>1, EnterKeeps DEF Begin
  <2>4. CASE PickRoute(i) # {} /\ ~CanEnter
    BY <1>5, <1>6, <2>1, <2>4, EnqueueKeeps DEF Begin, WaitPlace
  <2> QED
    BY <2>2, <2>3, <2>4
<1>7. CASE Resume(i)
  BY <1>2, <1>5, <1>7, GiveBackKeeps, UseGrantKeeps DEF Resume
<1>8. CASE Paced(i)
  BY <1>1, <1>2, <1>3, <1>4, <1>5, <1>8, GiveBackKeeps, StayKeeps DEF Paced, Release
<1>9. CASE Requested(i)
  BY <1>1, <1>2, <1>3, <1>4, <1>5, <1>9, GiveBackKeeps, StayKeeps DEF Requested, AfterRequest, Release
<1>10. CASE Gap(i)
  BY <1>1, <1>2, <1>3, <1>4, <1>5, <1>10, GiveBackKeeps, StayKeeps DEF Gap, AfterRequest, Release
<1>11. CASE Retried(i)
  BY <1>1, <1>2, <1>3, <1>4, <1>5, <1>11, GiveBackKeeps DEF Retried, AfterRequest, Release
<1>12. CASE Fallback(i)
  <2>1. CASE ~CanEnter
    BY <1>5, <1>12, <2>1, EnqueueKeeps DEF Fallback, WaitPlace
  <2>2. CASE CanEnter
    BY <1>2, <1>5, <1>12, <2>2, StayKeeps, EnterKeeps DEF Fallback
  <2> QED
    BY <2>1, <2>2
<1>13. CASE FallbackResume(i)
  BY <1>2, <1>5, <1>13, GiveBackKeeps, UseGrantKeeps DEF FallbackResume
<1>14. CASE Launched(i)
  BY <1>1, <1>2, <1>3, <1>4, <1>5, <1>14, GiveBackKeeps, StayKeeps DEF Launched, Release
<1>15. CASE PageRead(i)
  BY <1>1, <1>2, <1>4, <1>5, <1>15, GiveBackKeeps DEF PageRead, Release
<1>16. CASE Dropped(i)
  BY <1>16, DropKeeps
<1> QED
  BY <1>6, <1>7, <1>8, <1>9, <1>10, <1>11, <1>12, <1>13, <1>14, <1>15, <1>16 DEF TaskStep

\* The loop cancels the waiters when it goes on to a place where tasks are cancelled.
LEMMA LoopKeepsSlots ==
    ASSUME SlotInv, LoopStep \/ Checkpoint \/ Cancel
    PROVE SlotInv'
<1>1. StillTasks
  BY LoopKeepsTasks
<1>2. CASE CancelTasks
  <2>1. waiters' \in [BOOLEAN -> Seq(Items)] /\ NoWaiters'
    BY <1>2, EmptySeq DEF CancelTasks, NoWaiters
  <2>2. QueueOK(TRUE)' /\ QueueOK(FALSE)'
    <3>1. 1 .. Len(<<>>) = {}
      BY EmptySeq
    <3> QED
      BY <2>1, <3>1 DEF NoWaiters, QueueOK, Distinct, InQueue
  <2> QED
    BY <1>1, <2>1, <2>2 DEF SlotInv, SlotType, StillTasks, Holding
<1>3. CASE waiters' = waiters /\ (Cancelling' => Cancelling)
  BY <1>1, <1>3 DEF SlotInv, SlotType, StillTasks, Holding, QueueOK, NoWaiters
<1>4. CancelTasks \/ (waiters' = waiters /\ (Cancelling' => Cancelling))
  BY DEF LoopStep, Consume, Sweep, AllTaken, Saved, Finish, Cleanup, Checkpoint, Cancel, Fails, Cancelling
<1> QED
  BY <1>2, <1>3, <1>4

-----------------------------------------------------------------------------
(* Types, and the slots as the runs check them.                            *)

LEMMA Routes ==
    ASSUME session \in BOOLEAN
    PROVE RouteCount \in Nat \ {0}
BY ThreadsAssumption DEF RouteCount

LEMMA PickedInRange ==
    ASSUME session \in BOOLEAN, NEW i \in Items
    PROVE PickRoute(i) \subseteq 0 .. RouteCount - 1
<1>1. RouteCount \in Nat \ {0} /\ i - 1 \in Nat
  BY Routes, ThreadsAssumption DEF Items
<1> QED
  BY <1>1 DEF PickRoute

\* What SlotInv does not type.
BookType ==
    /\ mode \in Modes /\ session \in Sessions /\ session \in BOOLEAN /\ store \in Stores
    /\ answer \in [Items -> {"none", "full", "thin", "auth"}]
    /\ route \in [Items -> 0 .. RouteCount - 1] /\ retired \subseteq 0 .. RouteCount - 1
    /\ taken \subseteq Items /\ saved \subseteq Items /\ reported \subseteq Items /\ unsaved \subseteq Items
    /\ fails \in 0 .. MaxFails

LEMMA TaskKeepsBook ==
    ASSUME BookType, NEW i \in Items, TaskStep(i)
    PROVE BookType'
<1>1. UNCHANGED <<mode, session, store, taken, saved, reported, unsaved, fails>> /\ RouteCount' = RouteCount
  <2>1. TaskOnly
    BY DEF TaskStep, Begin, Resume, Paced, Requested, Gap, Retried, Fallback, FallbackResume, Launched,
           PageRead, Dropped
  <2> QED
    BY <2>1 DEF TaskOnly, config, book, loop, RouteCount
<1>2. retired' = retired \/ retired' = retired \cup {route[i]}
  BY DEF TaskStep, Begin, Resume, Paced, Requested, Gap, Retried, Fallback, FallbackResume, Launched,
         PageRead, Dropped, Noted
<1>3. route' = route \/ \E r \in 0 .. RouteCount - 1 : route' = [route EXCEPT ![i] = r]
  <2>1. route' = route \/ \E r \in PickRoute(i) : route' = [route EXCEPT ![i] = r]
    BY DEF TaskStep, Begin, Resume, Paced, Requested, Gap, Retried, Fallback, FallbackResume, Launched,
           PageRead, Dropped
  <2> QED
    BY <2>1, PickedInRange DEF BookType
<1>4. answer' = answer \/ \E kind \in {"none", "full", "thin", "auth"} : answer' = [answer EXCEPT ![i] = kind]
  BY DEF BookType, TaskStep, Begin, Resume, Paced, Requested, Gap, Retried, Fallback, FallbackResume, Launched,
         PageRead, Dropped, AfterRequest, Hear, Answers
<1>5. route[i] \in 0 .. RouteCount - 1
  BY DEF BookType
<1>6. route' \in [Items -> 0 .. RouteCount - 1]
  BY <1>3 DEF BookType
<1>7. answer' \in [Items -> {"none", "full", "thin", "auth"}]
  BY <1>4 DEF BookType
<1> QED
  BY <1>1, <1>2, <1>5, <1>6, <1>7 DEF BookType

LEMMA LoopKeepsBook ==
    ASSUME BookType, LoopStep \/ Checkpoint \/ Cancel
    PROVE BookType'
<1>1. UNCHANGED <<mode, session, store, route, answer, retired>> /\ RouteCount' = RouteCount
  BY LoopKeepsTasks DEF StillTasks, config, RouteCount
<1>2. taken' \subseteq Items
  BY DEF BookType, LoopStep, Consume, Sweep, AllTaken, Saved, Finish, Cleanup, Checkpoint, Cancel
<1>3. saved' \subseteq Items /\ reported' \subseteq Items /\ unsaved' \subseteq Items
  BY DEF BookType, LoopStep, Consume, Sweep, AllTaken, Saved, Finish, Cleanup, Checkpoint, Cancel, Record,
         Save, SaveFails, book
<1>4. fails' \in 0 .. MaxFails
  BY ThreadsAssumption DEF BookType, LoopStep, Consume, Sweep, AllTaken, Saved, Finish, Cleanup, Checkpoint,
         Cancel, Record, Save, SaveFails, book
<1> QED
  BY <1>1, <1>2, <1>3, <1>4 DEF BookType

LEMMA SlotInit == Init => SlotInv /\ BookType
<1> SUFFICES ASSUME Init PROVE SlotInv /\ BookType
  OBVIOUS
<1>1. session \in BOOLEAN
  BY ThreadsAssumption DEF Init
<1>2. SlotType
  BY ThreadsAssumption, EmptySeq DEF Init, SlotType, Places
<1>3. Holding = {} /\ granted = {}
  BY DEF Init, Holding
<1>4. Cardinality(Holding) = 0 /\ Cardinality(granted) = 0
  BY <1>3, FS_EmptySet, Zenon
<1>5. NoWaiters
  BY DEF Init, NoWaiters
<1>6. QueueOK(TRUE) /\ QueueOK(FALSE)
  <2>1. 1 .. Len(<<>>) = {}
    BY EmptySeq
  <2> QED
    BY <1>5, <2>1 DEF NoWaiters, QueueOK, Distinct, InQueue
<1>7. free + Cardinality(Holding) + Cardinality(granted) = Workers
  BY <1>4, ThreadsAssumption DEF Init
<1>8. BookType
  BY <1>1, Routes, ThreadsAssumption DEF Init, BookType
<1> QED
  BY <1>2, <1>3, <1>5, <1>6, <1>7, <1>8 DEF SlotInv

LEMMA SlotStep == SlotInv /\ BookType /\ [Next]_vars => (SlotInv /\ BookType)'
<1> SUFFICES ASSUME SlotInv, BookType, [Next]_vars PROVE (SlotInv /\ BookType)'
  OBVIOUS
<1>1. CASE \E i \in Items : TaskStep(i)
  BY <1>1, TaskKeepsSlots, TaskKeepsBook
<1>2. CASE LoopStep \/ Checkpoint \/ Cancel
  BY <1>2, LoopKeepsSlots, LoopKeepsBook
<1>3. CASE UNCHANGED vars
  <2>1. SlotInv'
    BY <1>3 DEF vars, tasks, slots, loop, SlotInv, SlotType, Holding, QueueOK, NoWaiters, Cancelling
  <2>2. BookType'
    BY <1>3 DEF vars, tasks, book, loop, config, BookType, RouteCount
  <2> QED
    BY <2>1, <2>2
<1> QED
  BY <1>1, <1>2, <1>3 DEF Next, Over

\* The page slots are free, held or granted, none is lost or handed out twice, and none is idle while a
\* task of the run waits for one.
THEOREM SlotsKept == Spec => []SlotsConserved
<1>1. SlotInv /\ BookType => SlotsConserved
  <2> SUFFICES ASSUME SlotInv, BookType PROVE SlotsConserved
    OBVIOUS
  <2>1. Cardinality(Holding) \in Nat /\ Cardinality(granted) \in Nat
    BY ItemsFinite, FS_CardinalityType, GrantCounts DEF SlotInv
  <2>2. free \in 0 .. Workers
    BY <2>1, ThreadsAssumption DEF SlotInv, SlotType
  <2>3. TypeOK
    BY <2>2 DEF SlotInv, SlotType, BookType, TypeOK
  <2> QED
    BY <2>3 DEF SlotInv, NoWaiters, SlotsConserved
<1> QED
  BY <1>1, SlotInit, SlotStep, PTL DEF Spec

-----------------------------------------------------------------------------
(* No answer is left behind.                                               *)

\* Counting on from a, modulo n, reaches every route.
LEMMA RouteReached ==
    ASSUME NEW n \in Nat \ {0}, NEW a \in Nat, NEW r \in 0 .. n - 1
    PROVE \E s \in 0 .. n - 1 : (a + s) % n = r
<1> DEFINE b == a % n
           s == IF r >= b THEN r - b ELSE r - b + n
<1>1. b \in 0 .. n - 1 /\ a = n * (a \div n) + b /\ (a \div n) \in Int
  OBVIOUS
<1>2. s \in 0 .. n - 1
  BY <1>1
<1>3. (a + s) % n = r
  BY <1>1, <1>2
<1> QED
  BY <1>2, <1>3

LEMMA SmallestNumber ==
    ASSUME NEW T \in SUBSET Nat, T # {}
    PROVE \E x \in T : \A y \in T : x <= y
<1>1. PICK x \in T : \A y \in T : ~(<<y, x>> \in OpToRel(<, Nat))
  BY WFMin, NatLessThanWellFounded
<1>2. \A y \in T : ~(y < x)
  BY <1>1 DEF OpToRel
<1> QED
  BY <1>2

\* A task that finds no route finds all of them retired.
LEMMA NoRouteLeft ==
    ASSUME BookType, NEW i \in Items, PickRoute(i) = {}
    PROVE RequestsStopped
<1> DEFINE S == 0 .. RouteCount - 1
           inUse == {s \in S : ((i - 1 + s) % RouteCount) \notin retired}
<1>1. RouteCount \in Nat \ {0} /\ i - 1 \in Nat
  BY Routes, ThreadsAssumption DEF Items, BookType
<1>2. inUse = {}
  <2> SUFFICES ASSUME inUse # {} PROVE FALSE
    OBVIOUS
  <2>1. PICK s \in inUse : \A u \in inUse : s <= u
    <3>1. inUse \in SUBSET Nat
      BY <1>1
    <3> QED
      BY <3>1, SmallestNumber
  <2>2. PickRoute(i) = {(i - 1 + u) % RouteCount : u \in {u \in inUse : \A v \in inUse : u <= v}}
    BY DEF PickRoute
  <2> HIDE DEF inUse
  <2>3. (i - 1 + s) % RouteCount \in PickRoute(i)
    BY <2>1, <2>2
  <2> QED
    BY <2>3
<1>3. ASSUME NEW r \in S PROVE r \in retired
  <2>1. PICK s \in S : (i - 1 + s) % RouteCount = r
    BY <1>1, RouteReached
  <2> QED
    BY <1>2, <2>1
<1>4. retired = S
  BY <1>3 DEF BookType
<1>5. Cardinality(S) = RouteCount
  BY <1>1, FS_Interval
<1> QED
  BY <1>1, <1>4, <1>5 DEF RequestsStopped

\* What is retired stays retired.
LEMMA StaysStopped ==
    ASSUME BookType, BookType', RouteCount' = RouteCount, retired \subseteq retired', RequestsStopped
    PROVE RequestsStopped'
<1>1. RouteCount \in Nat \ {0}
  BY Routes DEF BookType
<1>2. IsFiniteSet(retired') /\ Cardinality(retired) <= Cardinality(retired')
  <2>1. retired' \subseteq 0 .. RouteCount - 1
    BY DEF BookType
  <2>2. IsFiniteSet(retired')
    <3>1. IsFiniteSet(0 .. RouteCount - 1)
      BY <1>1, FS_Interval
    <3> QED
      BY <2>1, <3>1, FS_Subset
  <2> QED
    BY <2>2, FS_Subset
<1>3. IsFiniteSet(retired) /\ Cardinality(retired) \in Nat /\ Cardinality(retired') \in Nat
  BY <1>2, FS_Subset, FS_CardinalityType
<1> QED
  BY <1>1, <1>2, <1>3 DEF RequestsStopped

Answered == {i \in Items : at[i] = "done"}

\* The outcome is still open, or no error.
Well == pc \notin {"cleanup", "over"} \/ err = "completed"

\* What the loop took was answered or skipped, and what it took of the answers waits for a save or was
\* saved; a skipped post means that every route is retired, and then either the loop has stopped or
\* the answer that retired the last of them is still to be taken.
EndInv ==
    /\ DOMAIN at = Items
    /\ taken \subseteq Items /\ reported \subseteq Items /\ reported \subseteq saved
    /\ unsaved # {} => dirty
    /\ \A i \in taken : at[i] \in {"done", "skipped"}
    /\ Well => \A i \in taken : at[i] = "done" => i \in unsaved \cup reported
    /\ pc \in {"wait", "saving"} => ~stopped /\ (RequestsStopped => \E i \in Items \ taken : at[i] = "done")
    /\ \A i \in Items : at[i] = "skipped" => RequestsStopped
    /\ pc = "stopping" => stopped
    /\ pc \notin {"wait", "saving", "stopping"} /\ Well =>
          Settled /\ Answered \subseteq taken /\ (~stopped => Answered = Items)
    /\ pc = "over" /\ Well => unsaved = {}

\* A step of a task that has not ended: it may end as answered, as skipped when no route is left, or as
\* cancelled, and may only retire a route by an answer.
LEMMA TaskKeepsEnd ==
    ASSUME EndInv, SlotType, BookType, NEW i \in Items, TaskStep(i)
    PROVE EndInv'
<1>1. at[i] \notin Ended /\ \E p : at' = [at EXCEPT ![i] = p]
  BY DEF TaskStep, Begin, Resume, Paced, Requested, Gap, Retried, Fallback, FallbackResume, Launched,
         PageRead, Dropped, Ended, Goto, AfterRequest
<1>2. TaskOnly
  BY DEF TaskStep, Begin, Resume, Paced, Requested, Gap, Retried, Fallback, FallbackResume, Launched,
         PageRead, Dropped
<1>3. UNCHANGED <<pc, taken, stopped, err, unsaved, dirty, saved, reported>> /\ RouteCount' = RouteCount
  BY <1>2 DEF TaskOnly, config, book, loop, RouteCount
<1>4. /\ at'[i] = "skipped" => PickRoute(i) = {} /\ UNCHANGED retired
      /\ retired \subseteq retired' /\ (retired' # retired => at'[i] = "done")
  BY <1>1 DEF TaskStep, Begin, Resume, Paced, Requested, Gap, Retried, Fallback, FallbackResume, Launched,
              PageRead, Dropped, Goto, AfterRequest, Noted, EndInv
<1>5. BookType'
  BY TaskKeepsBook
<1>6. RequestsStopped => RequestsStopped'
  BY <1>3, <1>4, <1>5, StaysStopped
<1>7. RequestsStopped' /\ ~RequestsStopped => at'[i] = "done"
  BY <1>3, <1>4 DEF RequestsStopped
<1>8. at'[i] = "skipped" => RequestsStopped'
  BY <1>4, <1>6, NoRouteLeft
<1>9. i \notin taken /\ ~Settled
  BY <1>1 DEF EndInv, Ended, Settled
<1>10. \A j \in Items \ {i} : at'[j] = at[j]
  BY <1>1 DEF SlotType
<1>11. pc \in {"wait", "saving", "stopping"} \/ ~Well
  BY <1>9 DEF EndInv
<1>12. Well' = Well
  BY <1>3 DEF Well
<1>13. (\E j \in Items \ taken : at[j] = "done") => \E j \in Items \ taken' : at'[j] = "done"
  BY <1>1, <1>3, <1>10 DEF Ended
<1>14. pc' \in {"wait", "saving"} => ~stopped' /\ (RequestsStopped' => \E j \in Items \ taken' : at'[j] = "done")
  BY <1>3, <1>7, <1>9, <1>13 DEF EndInv
<1>15. \A j \in Items : at'[j] = "skipped" => RequestsStopped'
  BY <1>6, <1>8, <1>10 DEF EndInv
<1>16. \A j \in taken' : at'[j] = at[j] /\ at'[j] \in {"done", "skipped"}
  BY <1>3, <1>9, <1>10 DEF EndInv
<1>17. Well' => \A j \in taken' : at'[j] = "done" => j \in unsaved' \cup reported'
  BY <1>3, <1>12, <1>16 DEF EndInv
<1>18. DOMAIN at' = Items
  BY <1>1 DEF EndInv
<1>19. ~(pc' \notin {"wait", "saving", "stopping"} /\ Well')
  BY <1>3, <1>11, <1>12
<1> QED
  BY <1>3, <1>12, <1>14, <1>15, <1>16, <1>17, <1>18, <1>19 DEF EndInv

LEMMA LoopKeepsEnd ==
    ASSUME EndInv, BookType, LoopStep \/ Checkpoint \/ Cancel
    PROVE EndInv'
<1> USE DEF Well
<1>1. /\ UNCHANGED at /\ RequestsStopped' = RequestsStopped /\ Answered' = Answered /\ Settled' = Settled
  BY LoopKeepsTasks DEF StillTasks, config, RequestsStopped, RouteCount, Answered, Settled
<1>2. CASE \E i \in Items : Consume(i)
  <2>1. PICK i \in Items : Consume(i)
    BY <1>2
  <2>2. pc = "wait" /\ i \notin taken /\ taken' = taken \cup {i} /\ at[i] \in {"done", "skipped"}
    BY <2>1 DEF Consume
  <2>3. CASE at[i] = "skipped"
    BY <1>1, <2>1, <2>2, <2>3 DEF EndInv, Consume, book
  <2>4. CASE at[i] = "done" /\ answer[i] = "auth"
    BY <1>1, <2>1, <2>2, <2>4 DEF EndInv, Consume, book, Fails
  <2>5. CASE at[i] = "done" /\ answer[i] # "auth"
    <3>1. /\ unsaved' = unsaved \cup {i} /\ dirty' /\ UNCHANGED <<saved, reported, err>>
          /\ stopped' = RequestsStopped /\ pc' = IF RequestsStopped THEN "stopping" ELSE "wait"
      BY <2>1, <2>2, <2>5 DEF Consume, Record
    <3> QED
      BY <1>1, <2>2, <2>5, <3>1 DEF EndInv
  <2> QED
    BY <2>2, <2>3, <2>4, <2>5
<1>3. CASE Sweep
  <2> DEFINE inHand == Answered \ taken
  <2>1. PICK before \in SUBSET inHand :
          /\ pc = "stopping" /\ Settled /\ Record(before) /\ taken' = taken \cup before
          /\ UNCHANGED <<stopped, cut>>
          /\ \/ Fails("auth")
             \/ before = inHand /\ pc' = "finish" /\ UNCHANGED err
    <3> DEFINE refused == {i \in inHand : answer[i] = "auth"}
               before == {i \in inHand : \A j \in refused : i < j}
    <3>1. /\ pc = "stopping" /\ Settled /\ Record(before) /\ taken' = taken \cup before
          /\ UNCHANGED <<stopped, cut>>
          /\ IF refused # {} THEN Fails("auth") ELSE pc' = "finish" /\ UNCHANGED err
      BY <1>3 DEF Sweep, Answered
    <3>2. refused = {} => before = inHand
      OBVIOUS
    <3> QED
      BY <3>1, <3>2
  <2>2. /\ unsaved' = unsaved \cup before /\ (before # {} => dirty') /\ (dirty => dirty')
        /\ UNCHANGED <<saved, reported>>
    BY <2>1 DEF Record
  <2>3. before \subseteq Answered /\ Answered \subseteq Items /\ \A i \in Answered : at[i] = "done"
    BY <2>1 DEF Answered
  <2>4. CASE Fails("auth")
    BY <1>1, <2>1, <2>2, <2>3, <2>4 DEF EndInv, Fails
  <2>5. CASE before = inHand /\ pc' = "finish" /\ UNCHANGED err
    BY <1>1, <2>1, <2>2, <2>3, <2>5 DEF EndInv
  <2> QED
    BY <2>1, <2>4, <2>5
<1>4. CASE AllTaken
  <2>1. pc = "wait" /\ taken = Items /\ pc' = "finish" /\ UNCHANGED <<book, taken, stopped, err>>
    BY <1>4 DEF AllTaken
  <2>2. Settled
    BY <2>1 DEF EndInv, Settled, Ended
  <2>3. ~RequestsStopped
    BY <2>1 DEF EndInv
  <2>4. Answered = Items
    BY <2>1, <2>3 DEF EndInv, Answered
  <2> QED
    BY <1>1, <2>1, <2>2, <2>4 DEF EndInv, book
<1>5. CASE Checkpoint
  BY <1>1, <1>5 DEF EndInv, Checkpoint, book
<1>6. CASE Saved
  <2>1. pc = "saving" /\ UNCHANGED <<taken, stopped>>
        /\ \/ pc' = "wait" /\ UNCHANGED err
           \/ pc' = "cleanup" /\ err' \in {"cancelled", "failed"}
    BY <1>6 DEF Saved, Fails
  <2>2. Save \/ SaveFails
    BY <1>6 DEF Saved
  <2> QED
    BY <1>1, <2>1, <2>2 DEF EndInv, BookType, Save, SaveFails
<1>7. CASE Finish
  <2>1. /\ pc = "finish" /\ pc' = "cleanup" /\ err' \in {"cancelled", "completed"}
        /\ (dirty => dirty') /\ UNCHANGED <<unsaved, saved, reported, taken, stopped>>
    BY <1>7 DEF Finish
  <2> QED
    BY <1>1, <2>1 DEF EndInv
<1>8. CASE Cleanup
  <2>1. pc = "cleanup" /\ pc' = "over" /\ UNCHANGED <<taken, stopped>>
    BY <1>8 DEF Cleanup
  <2>2. CASE Save /\ UNCHANGED err
    BY <1>1, <2>1, <2>2 DEF EndInv, BookType, Save
  <2>3. CASE SaveFails /\ err' = "failed"
    BY <1>1, <2>1, <2>3 DEF EndInv, SaveFails
  <2>4. CASE ~dirty /\ UNCHANGED <<book, err>>
    BY <1>1, <2>1, <2>4 DEF EndInv, book
  <2> QED
    BY <1>8, <2>2, <2>3, <2>4 DEF Cleanup
<1>9. CASE Cancel
  BY <1>1, <1>9 DEF EndInv, Cancel, Fails, book
<1> QED
  BY <1>2, <1>3, <1>4, <1>5, <1>6, <1>7, <1>8, <1>9 DEF LoopStep

PassInv == SlotInv /\ BookType /\ EndInv

LEMMA PassInvariant == Spec => []PassInv
<1>1. Init => PassInv
  <2> SUFFICES ASSUME Init PROVE EndInv
    BY SlotInit DEF PassInv
  <2>1. ~RequestsStopped
    <3>1. RouteCount \in Nat \ {0} /\ Cardinality(retired) = 0
      BY SlotInit, Routes, FS_EmptySet DEF Init, BookType
    <3> QED
      BY <3>1 DEF RequestsStopped
  <2> QED
    BY <2>1 DEF Init, EndInv, Well
<1>2. PassInv /\ [Next]_vars => PassInv'
  <2> SUFFICES ASSUME PassInv, [Next]_vars PROVE EndInv'
    BY SlotStep DEF PassInv
  <2>1. CASE \E i \in Items : TaskStep(i)
    BY <2>1, TaskKeepsEnd DEF PassInv, SlotInv
  <2>2. CASE LoopStep \/ Checkpoint \/ Cancel
    BY <2>2, LoopKeepsEnd DEF PassInv
  <2>3. CASE UNCHANGED vars
    BY <2>3 DEF PassInv, vars, tasks, book, loop, config, EndInv, Well, RequestsStopped, RouteCount, Answered, Settled
  <2> QED
    BY <2>1, <2>2, <2>3 DEF Next, Over
<1> QED
  BY <1>1, <1>2, PTL DEF Spec

\* Where a task can be with an answer in hand: at its end, or on its way to ask for more.
AnswerInv ==
    \A i \in Items :
        \/ answer[i] = "none"
        \/ at[i] = "done"
        \/ /\ answer[i] = "thin"
           /\ at[i] \in {"gap", "retry", "fallback", "fbqueued", "fblaunch", "fbpage", "cancelled"}

LEMMA TaskKeepsAnswers ==
    ASSUME BookType, SlotType, AnswerInv, NEW i \in Items, TaskStep(i)
    PROVE AnswerInv'
<1> DEFINE Fine(a, k) ==
      \/ k = "none"
      \/ a = "done"
      \/ k = "thin" /\ a \in {"gap", "retry", "fallback", "fbqueued", "fblaunch", "fbpage", "cancelled"}
<1>1. /\ \A j \in Items : Fine(at[j], answer[j])
      /\ at \in [Items -> Places] /\ answer \in [Items -> {"none", "full", "thin", "auth"}]
  BY DEF AnswerInv, BookType, SlotType
<1>2. /\ \A j \in Items \ {i} : at'[j] = at[j] /\ answer'[j] = answer[j]
      /\ Fine(at'[i], answer'[i])
  <2>1. CASE Begin(i) \/ Resume(i) \/ Paced(i) \/ Dropped(i)
    BY <1>1, <2>1 DEF Begin, Resume, Paced, Dropped, Goto, Ended
  <2>2. CASE Requested(i) \/ Gap(i) \/ Retried(i)
    BY <1>1, <2>2 DEF Requested, Gap, Retried, AfterRequest, Hear, Goto
  <2>3. CASE Fallback(i) \/ FallbackResume(i)
    BY <1>1, <2>3 DEF Fallback, FallbackResume, Goto
  <2>4. CASE Launched(i) \/ PageRead(i)
    BY <1>1, <2>4 DEF Launched, PageRead, Hear, Goto
  <2> QED
    BY <2>1, <2>2, <2>3, <2>4 DEF TaskStep
<1>3. \A j \in Items : Fine(at'[j], answer'[j])
  BY <1>1, <1>2
<1> QED
  BY <1>3 DEF AnswerInv

LEMMA AnswerInvariant == Spec => []AnswerInv
<1>1. Init => AnswerInv
  BY DEF Init, AnswerInv
<1>2. PassInv /\ AnswerInv /\ [Next]_vars => AnswerInv'
  <2> SUFFICES ASSUME PassInv, AnswerInv, [Next]_vars PROVE AnswerInv'
    OBVIOUS
  <2>1. CASE \E i \in Items : TaskStep(i)
    BY <2>1, TaskKeepsAnswers DEF PassInv, SlotInv
  <2>2. CASE LoopStep \/ Checkpoint \/ Cancel
    <3>1. UNCHANGED <<at, answer>>
      BY <2>2, LoopKeepsTasks DEF StillTasks
    <3> QED
      BY <3>1 DEF AnswerInv
  <2>3. CASE UNCHANGED vars
    BY <2>3 DEF vars, tasks, AnswerInv
  <2> QED
    BY <2>1, <2>2, <2>3 DEF Next, Over
<1> QED
  BY <1>1, <1>2, PassInvariant, PTL DEF Spec

\* A pass reports only rows that are saved, and one that ends without an error has saved and reported
\* every answer but those the stop for HTTP 429 cut short, and without that stop every post.
THEOREM AnswersKept == Spec => []EndKeepsAnswers
<1>1. PassInv /\ AnswerInv => EndKeepsAnswers
  <2> SUFFICES ASSUME PassInv, AnswerInv PROVE EndKeepsAnswers
    OBVIOUS
  <2>1. reported \subseteq saved /\ reported \subseteq Items
    BY DEF PassInv, EndInv
  <2>2. ASSUME pc = "over", err = "completed"
        PROVE  Answered \subseteq reported /\ Settled /\ (~stopped => reported = Items)
    BY <2>1, <2>2 DEF PassInv, EndInv, Answered, Well
  <2>3. ASSUME Answered \subseteq reported, Settled, NEW i \in Items, answer[i] # "none"
        PROVE  i \in reported \/ CutShort(i)
    BY <2>3 DEF AnswerInv, Answered, Settled, Ended, CutShort
  <2> QED
    BY <2>1, <2>2, <2>3 DEF EndKeepsAnswers
<1> QED
  BY <1>1, PassInvariant, AnswerInvariant, PTL

-----------------------------------------------------------------------------
(* The promise of a pass.                                                  *)

\* Only what the loop took is recorded, and nothing waits at the end unless a save failed.
KeepInv ==
    /\ unsaved \cup reported \subseteq taken
    /\ unsaved # {} => dirty
    /\ pc = "over" /\ fails = 0 => unsaved = {}

LEMMA LoopKeepsRecords ==
    ASSUME KeepInv, BookType, LoopStep \/ Checkpoint \/ Cancel
    PROVE  KeepInv'
<1>1. CASE \E i \in Items : Consume(i)
  <2>1. PICK i \in Items : Consume(i)
    BY <1>1
  <2>2. taken' = taken \cup {i} /\ pc' # "over" /\ (Record({i}) \/ UNCHANGED book)
    BY <2>1 DEF Consume, Fails
  <2>3. CASE Record({i})
    BY <2>2, <2>3 DEF KeepInv, Record
  <2>4. CASE UNCHANGED book
    BY <2>2, <2>4 DEF KeepInv, book
  <2> QED
    BY <2>2, <2>3, <2>4
<1>2. CASE Sweep
  <2>1. PICK before : /\ Record(before) /\ taken' = taken \cup before /\ pc' \in {"cleanup", "finish"}
    BY <1>2 DEF Sweep, Fails
  <2> QED
    BY <2>1 DEF KeepInv, Record
<1>3. CASE AllTaken \/ Checkpoint \/ Cancel
  BY <1>3 DEF AllTaken, Checkpoint, Cancel, KeepInv, Fails, book
<1>4. CASE Saved
  <2>1. (Save \/ SaveFails) /\ taken' = taken /\ pc' \in {"wait", "cleanup"}
    BY <1>4 DEF Saved, Fails
  <2> QED
    BY <2>1 DEF KeepInv, Save, SaveFails
<1>5. CASE Finish
  BY <1>5 DEF Finish, KeepInv
<1>6. CASE Cleanup
  <2>1. taken' = taken /\ (Save \/ SaveFails \/ (~dirty /\ UNCHANGED book))
    BY <1>6 DEF Cleanup
  <2>2. CASE Save
    BY <2>1, <2>2 DEF KeepInv, Save
  <2>3. CASE SaveFails
    <3>1. fails' = fails + 1 /\ fails \in 0 .. MaxFails
      BY <2>3 DEF SaveFails, BookType
    <3>2. fails' # 0
      BY <3>1, ThreadsAssumption
    <3> QED
      BY <2>1, <2>3, <3>2 DEF KeepInv, SaveFails
  <2>4. CASE ~dirty /\ UNCHANGED book
    BY <2>1, <2>4 DEF KeepInv, book
  <2> QED
    BY <2>1, <2>2, <2>3, <2>4
<1> QED
  BY <1>1, <1>2, <1>3, <1>4, <1>5, <1>6 DEF LoopStep

\* What a pass owes when it ends, in terms of its own state.
OwesNothing ==
    pc = "over" =>
        /\ err = "completed" => unsaved = {} /\ (~stopped => reported = Items)
        /\ ~(fails > 0) => unsaved = {}

LEMMA NothingOwing == PassInv' /\ KeepInv' => OwesNothing'
<1> SUFFICES ASSUME PassInv', KeepInv', pc' = "over" PROVE OwesNothing'
  BY DEF OwesNothing
<1>1. fails' \in 0 .. MaxFails /\ MaxFails \in Nat
  BY ThreadsAssumption DEF PassInv, BookType
<1>2. ~(fails' > 0) => unsaved' = {}
  BY <1>1 DEF KeepInv
<1>3. err' = "completed" => unsaved' = {} /\ (~stopped' => reported' = Items)
  BY DEF PassInv, EndInv, Well, Answered
<1> QED
  BY <1>2, <1>3 DEF OwesNothing

\* A step of the loop keeps the last part of the promise.
LEMMA EndsWell ==
    ASSUME pc # "over", OwesNothing',
           \/ Promise!Record \/ Promise!Save \/ Promise!CutSave \/ Promise!FailSave \/ Promise!Rest
    PROVE  Promise!Next
<1>1. Promise!Ending
  BY DEF Promise!Ending, OwesNothing
<1> QED
  BY <1>1 DEF Promise!Next

LEMMA RecordPromises ==
    ASSUME NEW who, who \subseteq Items, who \cap (unsaved \cup reported) = {}, Record(who)
    PROVE  Promise!Record
<1>1. who \in SUBSET (Items \ (unsaved \cup reported)) /\ unsaved' = unsaved \cup who
  BY DEF Record
<1> QED
  BY <1>1 DEF Promise!Record, Record

LEMMA SavePromises == ASSUME Save PROVE Promise!Save
<1>1. unsaved \in SUBSET unsaved /\ saved' = saved \cup unsaved
  BY DEF Save
<1> QED
  BY <1>1 DEF Promise!Save, Save

LEMMA FailPromises == ASSUME BookType, SaveFails PROVE Promise!FailSave
<1>1. fails \in Nat /\ fails' = fails + 1
  BY ThreadsAssumption DEF BookType, SaveFails
<1>2. (fails' > 0) = TRUE
  BY <1>1
<1> QED
  BY <1>2 DEF Promise!FailSave, SaveFails

LEMMA LoopPromises ==
    ASSUME KeepInv, BookType, OwesNothing', LoopStep \/ Checkpoint \/ Cancel
    PROVE  [Promise!Next]_(Promise!vars)
<1>1. pc # "over"
  BY DEF LoopStep, Consume, Sweep, AllTaken, Saved, Finish, Cleanup, Checkpoint, Cancel
<1>2. CASE \E i \in Items : Consume(i)
  <2>1. PICK i \in Items : Consume(i)
    BY <1>2
  <2>2. CASE Record({i})
    <3>1. {i} \cap (unsaved \cup reported) = {}
      BY <2>1 DEF Consume, KeepInv
    <3>2. Promise!Record
      BY <2>2, <3>1, RecordPromises
    <3> QED
      BY <1>1, <3>2, EndsWell
  <2>3. CASE UNCHANGED book
    <3>1. Promise!Rest
      BY <2>3 DEF book, Promise!Rest
    <3> QED
      BY <1>1, <3>1, EndsWell
  <2> QED
    BY <2>1, <2>2, <2>3 DEF Consume
<1>3. CASE Sweep
  <2>1. PICK before : /\ Record(before) /\ before \subseteq Items /\ before \cap taken = {}
    BY <1>3 DEF Sweep
  <2>2. Promise!Record
    BY <2>1, RecordPromises DEF KeepInv
  <2> QED
    BY <1>1, <2>2, EndsWell
<1>4. CASE AllTaken \/ Checkpoint \/ Cancel \/ Finish
  <2>1. Promise!Rest
    BY <1>4 DEF AllTaken, Checkpoint, Cancel, Finish, book, Promise!Rest
  <2> QED
    BY <1>1, <2>1, EndsWell
<1>5. CASE Saved \/ Cleanup
  <2>1. Save \/ SaveFails \/ UNCHANGED book
    BY <1>5 DEF Saved, Cleanup
  <2>2. Promise!Save \/ Promise!FailSave \/ Promise!Rest
    BY <2>1, SavePromises, FailPromises DEF book, Promise!Rest
  <2> QED
    BY <1>1, <2>2, EndsWell
<1> QED
  BY <1>2, <1>3, <1>4, <1>5 DEF LoopStep

\* What scan_service.py relies on: a pass records a post once and tells the journal of it once, with its save;
\* it ends with nothing owed, be it completed, stopped for HTTP 429, refused or cancelled.
THEOREM PassKept == Spec => KeepsPromise
<1>1. Init => KeepInv /\ Promise!Init
  BY DEF Init, KeepInv, Promise!Init
<1>2. PassInv /\ PassInv' /\ KeepInv /\ [Next]_vars => KeepInv' /\ [Promise!Next]_(Promise!vars)
  <2> SUFFICES ASSUME PassInv, PassInv', KeepInv, [Next]_vars
               PROVE  KeepInv' /\ [Promise!Next]_(Promise!vars)
    OBVIOUS
  <2>1. CASE UNCHANGED <<book, loop>>
    BY <2>1 DEF book, loop, KeepInv, Promise!vars
  <2>2. CASE LoopStep \/ Checkpoint \/ Cancel
    <3>1. BookType
      BY DEF PassInv
    <3>2. KeepInv'
      BY <2>2, <3>1, LoopKeepsRecords
    <3>3. OwesNothing'
      BY <3>2, NothingOwing
    <3> QED
      BY <2>2, <3>1, <3>2, <3>3, LoopPromises
  <2>3. CASE \E i \in Items : TaskStep(i)
    <3>1. PICK i \in Items : TaskStep(i)
      BY <2>3
    <3>2. TaskOnly
      BY <3>1 DEF TaskStep, Begin, Resume, Paced, Requested, Gap, Retried, Fallback, FallbackResume, Launched,
                  PageRead, Dropped
    <3> QED
      BY <2>1, <3>2 DEF TaskOnly
  <2> QED
    BY <2>1, <2>2, <2>3 DEF Next, Over, vars
<1> QED
  BY <1>1, <1>2, PassInvariant, PTL DEF Spec, KeepsPromise, Promise!Spec

-----------------------------------------------------------------------------
(* The navigations of one page (ThreadsNavigation).                        *)

NavTypes ==
    /\ Nav!TypeOK
    /\ url \in [Nav!Attempts -> Urls \cup {NoUrl}] /\ target \in [Nav!Attempts -> Urls \cup {NoUrl}]
    /\ pending \in [attempt : 0 .. Budget, url : Urls \cup {NoUrl}]

\* Each hop and each new attempt is paid for, so that an attempt that may be continued has a next one.
HopsPaid ==
    /\ nav = "goto" => 1 <= attempt /\ attempt + remaining <= Budget + 1
    /\ nav = "goto" /\ pending.attempt = attempt => attempt + remaining <= Budget
    /\ pending.attempt <= attempt

\* Where the handler of an attempt may stand; that of the last one knows the final address.
HandlersKnow ==
    \A a \in Nav!Attempts :
        /\ a \notin claimed \/ a > attempt => handler[a] = "none"
        /\ nav = "goto" /\ a = attempt =>
            /\ handler[a] = "response" => target[a] \in Urls /\ attempt + remaining <= Budget
            /\ handler[a] = "body" => finalUrl = target[a] /\ finalUrl = url[a] /\ finalUrl \in Urls
            /\ goto = "ok" => handler[a] = "over"

\* What a page shows once its document is fulfilled, and what is revoked with its scope.
PageShows ==
    /\ nav = "succeeded" \/ (nav = "goto" /\ goto = "ok") =>
        shown.at = finalUrl /\ shown.from = finalUrl /\ finalUrl \in Urls
    /\ nav = "failed" => finalUrl = NoUrl
    /\ nav # "goto" => pending = Nav!NoPending
    /\ nav = "idle" => /\ \A a \in Nav!Attempts : handler[a] \in {"none", "over"}
                       /\ finalUrl # NoUrl => shown.at = finalUrl

NavInv == NavTypes /\ HopsPaid /\ HandlersKnow /\ PageShows

\* What a step of a handler leaves alone.
LEMMA HandlerMoves ==
    ASSUME NavInv, NEW a \in Nav!Attempts,
           NEW p \in {"fetch", "response", "body", "aborting", "over"}, handler' = [handler EXCEPT ![a] = p]
    PROVE  /\ handler \in [Nav!Attempts -> {"none", "fetch", "response", "body", "aborting", "over"}]
           /\ handler' \in [Nav!Attempts -> {"none", "fetch", "response", "body", "aborting", "over"}]
           /\ handler'[a] = p /\ \A b \in Nav!Attempts \ {a} : handler'[b] = handler[b]
           /\ a \in Nat /\ attempt \in Nat /\ remaining \in Nat /\ pending.attempt \in Nat
           /\ handler[a] # "none" => a \in claimed /\ a <= attempt
           /\ handler[a] \notin {"none", "over"} => nav # "idle"
BY NavAssumption DEF NavInv, NavTypes, Nav!TypeOK, Nav!Attempts, HandlersKnow, PageShows

\* A handler ends, and the continuation it may have authorised is dropped or not.
LEMMA HandlerEnds ==
    ASSUME NavInv, NEW a \in Nav!Attempts, handler[a] \notin {"none", "over"},
           handler' = [handler EXCEPT ![a] = "over"],
           goto' \in {goto, "failed"}, pending' \in {pending, Nav!NoPending},
           UNCHANGED <<nav, attempt, url, claimed, remaining, target, finalUrl, shown>>
    PROVE  NavInv'
<1>1. /\ handler \in [Nav!Attempts -> {"none", "fetch", "response", "body", "aborting", "over"}]
      /\ handler' \in [Nav!Attempts -> {"none", "fetch", "response", "body", "aborting", "over"}]
      /\ handler'[a] = "over" /\ \A b \in Nav!Attempts \ {a} : handler'[b] = handler[b]
      /\ attempt \in Nat /\ a \in claimed /\ a <= attempt /\ nav # "idle"
  BY HandlerMoves
<1>2. Nav!NoPending \in [attempt : 0 .. Budget, url : Urls \cup {NoUrl}] /\ Nav!NoPending.attempt = 0
  BY NavAssumption DEF Nav!NoPending
<1>3. NavTypes'
  BY <1>1, <1>2 DEF NavInv, NavTypes, Nav!TypeOK
<1>4. HopsPaid'
  BY <1>1, <1>2 DEF NavInv, HopsPaid
<1>5. HandlersKnow'
  BY <1>1 DEF NavInv, HandlersKnow, Nav!Attempts
<1>6. PageShows'
  BY <1>1 DEF NavInv, PageShows
<1> QED
  BY <1>3, <1>4, <1>5, <1>6 DEF NavInv

\* The handler of the attempt under way goes on to p, at the address t.
Advance(a, p, t) ==
    /\ nav = "goto" /\ a = attempt
    /\ handler' = [handler EXCEPT ![a] = p] /\ target' = [target EXCEPT ![a] = t]
    /\ claimed' \in {claimed, claimed \cup {a}} /\ a \in claimed'
    /\ remaining' \in 0 .. remaining /\ finalUrl' \in Urls \cup {NoUrl}
    /\ goto' \in {"none", "ok", "failed", "aborted"}
    /\ pending' = pending \/ (pending' = [attempt |-> a, url |-> t] /\ attempt + remaining' <= Budget)
    /\ p = "response" => t \in Urls /\ attempt + remaining' <= Budget
    /\ p = "body" => finalUrl' = t /\ t = url[a] /\ t \in Urls
    /\ goto' = "ok" => p = "over" /\ shown'.at = finalUrl' /\ shown'.from = finalUrl' /\ finalUrl' \in Urls
    /\ UNCHANGED <<nav, attempt, url>>

LEMMA HandlerAdvances ==
    ASSUME NavInv, NEW a \in Nav!Attempts, NEW p \in {"fetch", "response", "body", "aborting", "over"},
           NEW t \in Urls \cup {NoUrl}, Advance(a, p, t)
    PROVE  NavInv'
<1> USE DEF Advance
<1>1. /\ handler \in [Nav!Attempts -> {"none", "fetch", "response", "body", "aborting", "over"}]
      /\ handler' \in [Nav!Attempts -> {"none", "fetch", "response", "body", "aborting", "over"}]
      /\ handler'[a] = p /\ \A b \in Nav!Attempts \ {a} : handler'[b] = handler[b]
      /\ attempt \in Nat /\ remaining \in Nat /\ a \in Nat /\ pending.attempt \in Nat
  BY HandlerMoves
<1>2. target' \in [Nav!Attempts -> Urls \cup {NoUrl}] /\ target'[a] = t
  BY DEF NavInv, NavTypes
<1>3. NavTypes'
  <2>1. pending' \in [attempt : 0 .. Budget, url : Urls \cup {NoUrl}]
    BY DEF NavInv, NavTypes, Nav!Attempts
  <2>2. remaining' \in 0 .. Budget /\ claimed' \subseteq Nav!Attempts
    BY NavAssumption DEF NavInv, NavTypes, Nav!TypeOK
  <2> QED
    BY <1>1, <1>2, <2>1, <2>2 DEF NavInv, NavTypes, Nav!TypeOK
<1>4. HopsPaid'
  <2>1. attempt + remaining' <= attempt + remaining /\ remaining' \in Nat
    BY <1>1
  <2>2. pending'.attempt \in {pending.attempt, a}
    OBVIOUS
  <2> QED
    BY <1>1, <2>1, <2>2, NavAssumption DEF NavInv, HopsPaid
<1>5. HandlersKnow'
  <2>1. \A b \in Nav!Attempts : b \notin claimed' \/ b > attempt => handler'[b] = "none"
    BY <1>1 DEF NavInv, HandlersKnow
  <2> QED
    BY <1>1, <1>2, <2>1 DEF HandlersKnow
<1>6. PageShows'
  BY DEF NavInv, PageShows
<1> QED
  BY <1>3, <1>4, <1>5, <1>6 DEF NavInv

LEMMA HandlerStepKeeps ==
    ASSUME NavInv, NEW a \in Nav!Attempts, Nav!HandlerStep(a) \/ Nav!Cancelled(a)
    PROVE  NavInv'
<1>1. /\ a \in Nat /\ attempt \in Nat /\ remaining \in 0 .. Budget /\ Budget \in Nat
      /\ url[a] \in Urls \cup {NoUrl} /\ target[a] \in Urls \cup {NoUrl} /\ finalUrl \in Urls \cup {NoUrl}
      /\ goto \in {"none", "ok", "failed", "aborted"}
      /\ target \in [Nav!Attempts -> Urls \cup {NoUrl}]
      /\ handler[a] # "none" => a \in claimed
      /\ handler[a] = "over" \/ handler[a] = "none" \/ handler[a] \in {"fetch", "response", "body", "aborting"}
      /\ nav = "goto" => attempt + remaining <= Budget + 1
  BY NavAssumption DEF NavInv, NavTypes, Nav!TypeOK, HandlersKnow, HopsPaid, Nav!Attempts
<1>2. nav = "goto" /\ a = attempt =>
        /\ handler[a] = "response" => target[a] \in Urls /\ attempt + remaining <= Budget
        /\ handler[a] = "body" => finalUrl = target[a] /\ finalUrl = url[a] /\ finalUrl \in Urls
        /\ goto = "ok" => handler[a] = "over"
  BY DEF NavInv, HandlersKnow
<1>3. target = [target EXCEPT ![a] = target[a]]
  BY <1>1
<1>4. Nav!Abort(a) => handler' = [handler EXCEPT ![a] = "over"] /\ goto' \in {goto, "failed"}
  BY DEF Nav!Abort, Nav!At
<1>5. CASE Nav!Claim(a)
  <2>1. /\ nav = "goto" /\ a = attempt /\ goto = "none" /\ claimed' = claimed \cup {a}
        /\ handler' = [handler EXCEPT ![a] = "fetch"] /\ target' = [target EXCEPT ![a] = url[a]]
        /\ UNCHANGED <<remaining, pending, finalUrl, goto, shown, nav, attempt, url>>
    BY <1>5 DEF Nav!Claim, Nav!Current, Nav!At, Nav!HandlerOnly
  <2> QED
    <3>1. Advance(a, "fetch", url[a])
      BY <1>1, <2>1 DEF Advance
    <3> QED
      BY <1>1, <3>1, HandlerAdvances
<1>6. CASE Nav!Fetch(a)
  <2>1. /\ handler[a] = "fetch"
        /\ UNCHANGED <<claimed, pending, target, finalUrl, shown, nav, attempt, url>>
    BY <1>6 DEF Nav!Fetch, Nav!HandlerOnly
  <2>2. CASE Nav!Abort(a) /\ UNCHANGED remaining
    BY <1>4, <2>1, <2>2, HandlerEnds
  <2>3. CASE ~(Nav!Abort(a) /\ UNCHANGED remaining)
    <3>1. /\ nav = "goto" /\ a = attempt /\ remaining > 0 /\ target[a] \in Urls
          /\ remaining' = remaining - 1 /\ handler' = [handler EXCEPT ![a] = "response"] /\ goto' = goto
      BY <1>6, <2>3 DEF Nav!Fetch, Nav!Current, Nav!At
    <3> QED
      <4>1. Advance(a, "response", target[a])
        <5>1. a \in claimed /\ remaining' \in 0 .. remaining /\ attempt + remaining' <= Budget /\ goto # "ok"
          BY <1>1, <1>2, <2>1, <3>1
        <5>2. target' = [target EXCEPT ![a] = target[a]]
          BY <1>3, <2>1
        <5> QED
          BY <1>1, <2>1, <3>1, <5>1, <5>2 DEF Advance
      <4> QED
        BY <1>1, <4>1, HandlerAdvances
  <2> QED
    BY <2>2, <2>3
<1>7. CASE Nav!Redirected(a)
  <2>1. /\ handler[a] = "response"
        /\ UNCHANGED <<claimed, remaining, pending, finalUrl, shown, nav, attempt, url>>
    BY <1>7 DEF Nav!Redirected, Nav!HandlerOnly
  <2>2. CASE Nav!Abort(a) /\ UNCHANGED target
    BY <1>4, <2>1, <2>2, HandlerEnds
  <2>3. CASE ~(Nav!Abort(a) /\ UNCHANGED target)
    <3>1. PICK u \in Urls : /\ nav = "goto" /\ a = attempt /\ goto' = goto
                            /\ handler' = [handler EXCEPT ![a] = "fetch"] /\ target' = [target EXCEPT ![a] = u]
      BY <1>7, <2>3 DEF Nav!Redirected, Nav!Current, Nav!At
    <3> QED
      <4>1. Advance(a, "fetch", u)
        <5>1. a \in claimed /\ remaining' \in 0 .. remaining /\ goto # "ok"
          BY <1>1, <1>2, <2>1, <3>1
        <5> QED
          BY <1>1, <2>1, <3>1, <5>1 DEF Advance
      <4> QED
        BY <4>1, HandlerAdvances
  <2> QED
    BY <2>2, <2>3
<1>8. CASE Nav!Answered(a)
  <2>1. /\ handler[a] = "response"
        /\ UNCHANGED <<claimed, remaining, target, shown, nav, attempt, url>>
    BY <1>8 DEF Nav!Answered, Nav!HandlerOnly
  <2>2. CASE ~Nav!Current(a)
    BY <1>4, <1>8, <2>1, <2>2, HandlerEnds DEF Nav!Answered
  <2>3. CASE Nav!Current(a)
    <3>1. nav = "goto" /\ a = attempt /\ finalUrl' = target[a] /\ target[a] \in Urls /\ attempt + remaining <= Budget
      BY <1>2, <1>8, <2>1, <2>3 DEF Nav!Answered, Nav!Current
    <3>2. \/ handler' = [handler EXCEPT ![a] = "body"] /\ target[a] = url[a] /\ UNCHANGED <<goto, pending>>
          \/ handler' = [handler EXCEPT ![a] = "over"] /\ goto' \in {goto, "failed"} /\ UNCHANGED pending
          \/ /\ handler' = [handler EXCEPT ![a] = "aborting"] /\ goto' = "aborted"
             /\ pending' = [attempt |-> a, url |-> target[a]]
      BY <1>4, <1>8, <2>3 DEF Nav!Answered, Nav!At
    <3> QED
      <4>1. \E p \in {"body", "over", "aborting"} : Advance(a, p, target[a])
        <5>1. /\ a \in claimed /\ remaining' \in 0 .. remaining /\ attempt + remaining' <= Budget
              /\ goto # "ok" /\ target' = [target EXCEPT ![a] = target[a]]
          BY <1>1, <1>2, <1>3, <2>1, <3>1
        <5>2. CASE handler' = [handler EXCEPT ![a] = "body"] /\ target[a] = url[a] /\ UNCHANGED <<goto, pending>>
          <6>1. Advance(a, "body", target[a])
            BY <1>1, <2>1, <3>1, <5>1, <5>2 DEF Advance
          <6> QED
            BY <6>1
        <5>3. CASE handler' = [handler EXCEPT ![a] = "over"] /\ goto' \in {goto, "failed"} /\ UNCHANGED pending
          <6>1. Advance(a, "over", target[a])
            BY <1>1, <2>1, <3>1, <5>1, <5>3 DEF Advance
          <6> QED
            BY <6>1
        <5>4. CASE /\ handler' = [handler EXCEPT ![a] = "aborting"] /\ goto' = "aborted"
                   /\ pending' = [attempt |-> a, url |-> target[a]]
          <6>1. Advance(a, "aborting", target[a])
            BY <1>1, <2>1, <3>1, <5>1, <5>4 DEF Advance
          <6> QED
            BY <6>1
        <5> QED
          BY <3>2, <5>2, <5>3, <5>4
      <4> QED
        BY <1>1, <4>1, HandlerAdvances
  <2> QED
    BY <2>2, <2>3
<1>9. CASE Nav!Fulfil(a)
  <2>1. /\ handler[a] = "body"
        /\ UNCHANGED <<claimed, remaining, pending, target, finalUrl, nav, attempt, url>>
    BY <1>9 DEF Nav!Fulfil, Nav!HandlerOnly
  <2>2. CASE Nav!Abort(a) /\ UNCHANGED shown
    BY <1>4, <2>1, <2>2, HandlerEnds
  <2>3. CASE ~(Nav!Abort(a) /\ UNCHANGED shown)
    <3>1. /\ nav = "goto" /\ a = attempt /\ goto = "none" /\ goto' = "ok"
          /\ handler' = [handler EXCEPT ![a] = "over"] /\ shown' = [at |-> url[a], from |-> target[a]]
      BY <1>9, <2>3 DEF Nav!Fulfil, Nav!Current, Nav!At
    <3> QED
      <4>1. Advance(a, "over", target[a])
        BY <1>1, <1>2, <1>3, <2>1, <3>1 DEF Advance
      <4> QED
        BY <1>1, <4>1, HandlerAdvances
  <2> QED
    BY <2>2, <2>3
<1>10. CASE Nav!Aborted(a) \/ Nav!Broke(a) \/ Nav!Cancelled(a)
  <2>1. /\ handler[a] \notin {"none", "over"} /\ handler' = [handler EXCEPT ![a] = "over"]
        /\ goto' \in {goto, "failed"} /\ pending' \in {pending, Nav!NoPending}
        /\ UNCHANGED <<nav, attempt, url, claimed, remaining, target, finalUrl, shown>>
    BY <1>4, <1>10 DEF Nav!Aborted, Nav!Broke, Nav!Cancelled, Nav!At, Nav!HandlerOnly
  <2> QED
    BY <2>1, HandlerEnds
<1> QED
  BY <1>5, <1>6, <1>7, <1>8, <1>9, <1>10 DEF Nav!HandlerStep

\* navigate_session_page: a navigation begins, goes on at another address, or is over.
LEMMA NavigationKeeps ==
    ASSUME NavInv,
           Nav!Navigate \/ Nav!Continue \/ Nav!Succeed \/ Nav!Fail \/ Nav!Interrupted \/ Nav!Gathered
    PROVE  NavInv'
<1>1. /\ attempt \in Nat /\ remaining \in 0 .. Budget /\ Budget \in Nat /\ 1 \in Nav!Attempts
      /\ Nav!NoPending \in [attempt : 0 .. Budget, url : Urls \cup {NoUrl}] /\ Nav!NoPending.attempt = 0
  BY NavAssumption DEF NavInv, NavTypes, Nav!TypeOK, Nav!Attempts, Nav!NoPending
<1>2. CASE Nav!Navigate
  <2>1. /\ nav' = "goto" /\ attempt' = 1 /\ claimed' = {} /\ remaining' = Budget /\ pending' = Nav!NoPending
        /\ handler' = [a \in Nav!Attempts |-> "none"] /\ target' = [a \in Nav!Attempts |-> NoUrl]
        /\ url' \in [Nav!Attempts -> Urls \cup {NoUrl}] /\ finalUrl' = NoUrl /\ goto' = "none"
    BY <1>2 DEF Nav!Navigate
  <2>2. NavTypes'
    BY <1>1, <2>1, NavAssumption DEF NavTypes, Nav!TypeOK
  <2>3. HopsPaid'
    BY <1>1, <2>1 DEF HopsPaid
  <2>4. HandlersKnow' /\ PageShows'
    BY <2>1 DEF HandlersKnow, PageShows
  <2> QED
    BY <2>2, <2>3, <2>4 DEF NavInv
<1>3. ASSUME NEW outcome \in {"succeeded", "failed"}, nav = "goto", Nav!Revoke(outcome),
             outcome = "succeeded" => goto = "ok"
      PROVE  NavInv'
  <2>1. /\ nav' = outcome /\ pending' = Nav!NoPending
        /\ finalUrl' = (IF outcome = "succeeded" THEN finalUrl ELSE NoUrl)
        /\ UNCHANGED <<navs, attempt, url, claimed, remaining, handler, target, goto, shown>>
    BY <1>3 DEF Nav!Revoke
  <2>2. NavTypes'
    BY <1>1, <2>1 DEF NavInv, NavTypes, Nav!TypeOK
  <2>3. HopsPaid' /\ HandlersKnow'
    BY <1>1, <2>1 DEF NavInv, HopsPaid, HandlersKnow
  <2>4. PageShows'
    BY <1>3, <2>1 DEF NavInv, PageShows
  <2> QED
    BY <2>2, <2>3, <2>4 DEF NavInv
<1>4. CASE Nav!Continue
  <2>1. CASE Nav!Revoke("failed")
    BY <1>3, <1>4, <2>1 DEF Nav!Continue
  <2>2. CASE ~Nav!Revoke("failed")
    <3>1. /\ nav = "goto" /\ pending.attempt = attempt /\ pending.url \in Urls /\ remaining > 0
          /\ attempt' = attempt + 1 /\ goto' = "none" /\ pending' = Nav!NoPending
          /\ url' = [url EXCEPT ![attempt + 1] = pending.url]
          /\ UNCHANGED <<nav, navs, claimed, remaining, handler, target, finalUrl, shown>>
      BY <1>4, <2>2 DEF Nav!Continue
    <3>2. 1 <= attempt /\ attempt + remaining <= Budget /\ attempt + 1 \in Nav!Attempts
      BY <1>1, <3>1 DEF NavInv, HopsPaid, Nav!Attempts
    <3>3. NavTypes'
      BY <1>1, <3>1, <3>2 DEF NavInv, NavTypes, Nav!TypeOK, Nav!Attempts
    <3>4. HopsPaid'
      BY <1>1, <3>1, <3>2 DEF HopsPaid
    <3>5. \A a \in Nav!Attempts : a \notin claimed \/ a > attempt => handler[a] = "none"
      BY DEF NavInv, HandlersKnow
    <3>6. HandlersKnow'
      BY <1>1, <3>1, <3>5 DEF HandlersKnow, Nav!Attempts
    <3>7. PageShows'
      BY <3>1 DEF NavInv, PageShows
    <3> QED
      BY <3>3, <3>4, <3>6, <3>7 DEF NavInv
  <2> QED
    BY <2>1, <2>2
<1>5. CASE Nav!Succeed \/ Nav!Fail
  BY <1>3, <1>5 DEF Nav!Succeed, Nav!Fail
<1>6. CASE Nav!Interrupted
  BY <1>6 DEF Nav!Interrupted, NavInv, NavTypes, Nav!TypeOK, HopsPaid, HandlersKnow, PageShows
<1>7. CASE Nav!Gathered
  <2>1. /\ nav \in {"succeeded", "failed"} /\ nav' = "idle"
        /\ \A a \in Nav!Attempts : handler[a] \in {"none", "over"}
        /\ UNCHANGED <<navs, attempt, url, claimed, remaining, pending, handler, target, finalUrl, goto, shown>>
    BY <1>7 DEF Nav!Gathered, Nav!Running
  <2> QED
    BY <2>1 DEF NavInv, NavTypes, Nav!TypeOK, HopsPaid, HandlersKnow, PageShows
<1> QED
  BY <1>2, <1>4, <1>5, <1>6, <1>7

LEMMA NavInit == Nav!Init => NavInv
BY NavAssumption DEF Nav!Init, Nav!NoPending, NavInv, NavTypes, Nav!TypeOK, HopsPaid, HandlersKnow, PageShows

\* A navigation of a session's page that succeeds shows a document under the address it was fetched
\* from, which is the one callers read, and nothing is authorised between two navigations, for any
\* number of hops and navigations (navigate_session_page, install_session_navigation_guard).
THEOREM NavigationsStay == Nav!Spec => []NavigationSound
<1>1. NavInv /\ [Nav!Next]_(Nav!vars) => NavInv'
  <2> SUFFICES ASSUME NavInv, [Nav!Next]_(Nav!vars) PROVE NavInv'
    OBVIOUS
  <2>1. CASE UNCHANGED Nav!vars
    BY <2>1 DEF Nav!vars, NavInv, NavTypes, Nav!TypeOK, HopsPaid, HandlersKnow, PageShows
  <2>2. CASE Nav!Stays
    BY <2>2 DEF Nav!Stays, Nav!vars, NavInv, NavTypes, Nav!TypeOK, HopsPaid, HandlersKnow, PageShows
  <2> QED
    BY <2>1, <2>2, HandlerStepKeeps, NavigationKeeps DEF Nav!Next
<1>2. NavInv => NavigationSound
  BY DEF NavInv, NavTypes, PageShows, NavigationSound, Nav!ShownIsFinal, Nav!IdleIsClosed, Nav!Running
<1> QED
  BY <1>1, <1>2, NavInit, PTL DEF Nav!Spec

-----------------------------------------------------------------------------
(* The pages of one check (ThreadsPage).                                   *)

\* What a result says of the views is what its source gave; only the card has no source.
Told(r) ==
    /\ r.src \in {"view_query_exact", "embedded_exact"} => r.views \in Numbers
    /\ r.src = "view_query_unknown" => r.views = None
    /\ r.src = "header_display" => r.views = Display
    /\ r.src = "" => r.views \in {None, Display}

\* No rounded number replaces the views of such a result.
ViewsTold(r) == r.src \in {"view_query_exact", "view_query_unknown", "embedded_exact"}

AuthKinds == {"auth_invalid", "auth_checkpoint", "auth_unknown"}

LEMMA SoleIn == ASSUME NEW S PROVE Page!Sole(S) \in S \cup {None}
<1>1. CASE S = {}
  BY <1>1, FS_EmptySet DEF Page!Sole
<1>2. CASE S # {}
  <2>1. PICK e \in S : TRUE
    BY <1>2
  <2>2. (CHOOSE v \in S : TRUE) \in S
    BY <2>1
  <2> QED
    BY <2>2 DEF Page!Sole
<1> QED
  BY <1>1, <1>2

LEMMA FailureIs ==
    ASSUME NEW kind \in Page!Kinds
    PROVE  /\ Page!Failure(kind) \in Page!Results /\ Page!Failure(kind).kind = kind
           /\ ~Page!HasNumber(Page!Failure(kind)) /\ Told(Page!Failure(kind)) /\ ~Page!CardViews(Page!Failure(kind))
           /\ Page!Failure(kind).err /\ Page!Failure(kind).src = "" /\ Page!Failure(kind).views = None
           /\ Page!Failure(kind).likes = None
BY CheckAssumption DEF Page!Failure, Page!Result, Page!Results, Page!Sources, Page!HasNumber, Page!CardViews, Told

LEMMA BlankIs ==
    /\ Page!Blank \in Page!Results /\ Page!Blank.kind = "" /\ Page!Blank.err = FALSE /\ Page!Blank.src = ""
    /\ ~Page!HasNumber(Page!Blank) /\ Told(Page!Blank) /\ ~Page!CardViews(Page!Blank) /\ Page!Blank.likes = None /\ Page!Blank.views = None
BY CheckAssumption DEF Page!Blank, Page!Result, Page!Results, Page!Sources, Page!Kinds, Page!HasNumber, Page!CardViews, Told

\* parse_threads_http: a reading fails for good, or has no error and tells what the query told.
LEMMA ReadingIs ==
    ASSUME NEW r \in Page!Readings
    PROVE  /\ r \in Page!Results /\ Told(r) /\ ~Page!CardViews(r)
           /\ r.kind \in Page!TerminalErrors \/ (r.kind = "" /\ ~r.err)
<1>1. PICK page \in Page!Pages : r = Page!Parse(page)
  BY DEF Page!Readings
<1>2. /\ page.place \in {"post", "invalid_post", "redirect"} /\ page.gate \in {"none", "geo", "audience"}
      /\ page.query \in {{}, {None}} \cup {{n} : n \in Numbers} /\ page.likes \in {{}, {None}} \cup {{n} : n \in Numbers}
      /\ page.counts \in {{}, Numbers} \cup {{n} : n \in Numbers} /\ page.header \in {None, Display}
  BY DEF Page!Pages
<1>3. PICK views, likes, counts : views = Page!Sole(page.query) /\ likes = Page!Sole(page.likes) /\ counts = Page!Sole(page.counts)
  OBVIOUS
<1>4. views \in Numbers \cup {None} /\ likes \in Numbers \cup {None} /\ counts \in Numbers \cup {None}
  BY <1>2, <1>3, SoleIn
<1>5. CASE page.place # "post"
  BY <1>1, <1>2, <1>5, FailureIs DEF Page!Parse, Page!Kinds, Page!TerminalErrors
<1>6. CASE page.place = "post" /\ page.gate = "geo"
  BY <1>1, <1>6, FailureIs DEF Page!Parse, Page!Kinds, Page!TerminalErrors
<1>7. CASE page.place = "post" /\ page.gate = "audience" /\ page.likes = {}
  BY <1>1, <1>7, FailureIs DEF Page!Parse, Page!Kinds, Page!TerminalErrors
<1>8. CASE page.place = "post" /\ page.gate # "geo" /\ ~(page.gate = "audience" /\ page.likes = {})
  <2>1. PICK v, s : v = Page!Views(page) /\ s = Page!Source(page)
    OBVIOUS
  <2>2. r = Page!Result(v, likes, s, "", FALSE, FALSE)
    BY <1>1, <1>3, <1>8, <2>1 DEF Page!Parse
  <2>3. /\ v = IF page.query # {} THEN views ELSE IF counts # None THEN counts ELSE page.header
        /\ s = IF page.query # {} THEN IF views = None THEN "view_query_unknown" ELSE "view_query_exact"
               ELSE IF counts # None THEN "embedded_exact"
               ELSE IF page.header # None THEN "header_display" ELSE ""
    BY <1>3, <2>1 DEF Page!Views, Page!Source
  <2>4. /\ v \in Numbers \cup {None, Display} /\ s \in Page!Sources
        /\ s \in {"view_query_exact", "embedded_exact"} => v \in Numbers
        /\ s = "view_query_unknown" => v = None
        /\ s = "header_display" => v = Display
        /\ s = "" => v = None
    BY <1>2, <1>4, <2>3 DEF Page!Sources
  <2> QED
    BY <1>4, <2>2, <2>4, CheckAssumption DEF Page!Result, Page!Results, Page!Kinds, Page!CardViews, Told
<1> QED
  BY <1>2, <1>5, <1>6, <1>7, <1>8

\* merge_results fails, or takes its numbers from the two results by its rules.
LEMMA MergeCases ==
    ASSUME NEW f \in Page!Results, NEW s \in Page!Results
    PROVE  \/ \E kind \in AuthKinds \cup {"geo_restricted"} :
                /\ Page!Merge(f, s) = Page!Failure(kind)
                /\ s.kind \in Page!AuthFailed => kind \in AuthKinds
                /\ f.kind # "" \/ s.kind # ""
           \/ /\ s.kind \notin Page!AuthFailed
              /\ \E kind \in Page!Kinds, wrong \in BOOLEAN, auth \in BOOLEAN :
                /\ Page!Merge(f, s) = Page!Result(Page!MergedViews(f, s), Page!MergedLikes(f, s),
                                                  Page!MergedSource(f, s), kind, wrong, auth)
                /\ ~f.err /\ ~s.err => ~wrong
                /\ ~wrong => kind = ""
<1>1. f.kind \in Page!Kinds /\ s.kind \in Page!Kinds /\ f.err \in BOOLEAN /\ s.err \in BOOLEAN
      /\ f.auth \in BOOLEAN /\ s.auth \in BOOLEAN
  BY DEF Page!Results
<1>2. {r.kind : r \in {f, s}} = {f.kind, s.kind}
  OBVIOUS
<1>3. CASE Page!AuthUnknown(f, s)
  BY <1>3 DEF Page!Merge, Page!AuthUnknown, AuthKinds
<1>4. CASE ~Page!AuthUnknown(f, s) /\ (f.kind \in Page!AuthFailed \/ s.kind \in Page!AuthFailed)
  <2>1. PICK kind : kind = IF s.kind \in Page!AuthFailed THEN s.kind ELSE f.kind
    OBVIOUS
  <2>2. kind \in AuthKinds /\ (f.kind # "" \/ s.kind # "")
    BY <1>4, <2>1 DEF Page!AuthFailed, AuthKinds
  <2>3. Page!Merge(f, s) = Page!Failure(kind)
    BY <1>2, <1>4, <2>1 DEF Page!Merge
  <2> QED
    BY <2>2, <2>3
<1>5. CASE /\ ~Page!AuthUnknown(f, s) /\ f.kind \notin Page!AuthFailed /\ s.kind \notin Page!AuthFailed
           /\ (f.kind = "geo_restricted" \/ s.kind = "geo_restricted")
  <2>1. Page!Merge(f, s) = Page!Failure("geo_restricted")
    BY <1>2, <1>5 DEF Page!Merge
  <2> QED
    BY <1>5, <2>1
<1>6. CASE /\ ~Page!AuthUnknown(f, s) /\ f.kind \notin Page!AuthFailed /\ s.kind \notin Page!AuthFailed
           /\ f.kind # "geo_restricted" /\ s.kind # "geo_restricted"
  <2>1. PICK wrong \in BOOLEAN : wrong = (Page!MergedViews(f, s) = None /\ Page!MergedLikes(f, s) = None /\ (f.err \/ s.err))
    OBVIOUS
  <2>2. PICK kind \in Page!Kinds : kind = IF ~wrong THEN "" ELSE IF s.kind # "" THEN s.kind ELSE f.kind
    BY <1>1 DEF Page!Kinds
  <2>3. PICK auth \in BOOLEAN : auth = (f.auth \/ s.auth)
    OBVIOUS
  <2>4. Page!Merge(f, s) = Page!Result(Page!MergedViews(f, s), Page!MergedLikes(f, s),
                                       Page!MergedSource(f, s), kind, wrong, auth)
    BY <1>2, <1>6, <2>1, <2>2, <2>3 DEF Page!Merge
  <2> QED
    BY <1>6, <2>1, <2>2, <2>4
<1> QED
  BY <1>3, <1>4, <1>5, <1>6

\* What a merge keeps: it finds no number of its own, a number of the likes stands, and so does what
\* the view query told.
LEMMA MergeIs ==
    ASSUME NEW f \in Page!Results, NEW s \in Page!Results
    PROVE  /\ Page!Merge(f, s) \in Page!Results
           /\ Page!HasNumber(Page!Merge(f, s)) => Page!HasNumber(f) \/ Page!HasNumber(s)
           /\ Told(f) /\ Told(s) => Told(Page!Merge(f, s))
           /\ Told(f) /\ Told(s) /\ ViewsTold(f) => Page!Merge(f, s).views # Display
           /\ Told(f) /\ Told(s) /\ ~Page!CardViews(f) =>
                /\ Page!SaysNull(s) => Page!Merge(f, s).views # Display
                /\ ~Page!CardViews(s) => ~Page!CardViews(Page!Merge(f, s))
           /\ f.likes # None => Page!Merge(f, s).err \/ Page!Merge(f, s).likes = f.likes
           /\ f.kind = "" /\ ~f.err /\ s.kind = "" /\ ~s.err =>
                /\ Page!Merge(f, s).kind = "" /\ ~Page!Merge(f, s).err
                /\ Told(f) /\ Told(s) /\ (ViewsTold(f) \/ (Page!SaysNull(s) /\ ~Page!CardViews(f))) => ViewsTold(Page!Merge(f, s))
           /\ s.kind \in Page!AuthFailed => Page!Merge(f, s).kind \in AuthKinds
<1>1. PICK v, l, c, m : v = Page!MergedViews(f, s) /\ l = Page!MergedLikes(f, s) /\ c = Page!MergedSource(f, s)
                        /\ m = Page!Merge(f, s)
  OBVIOUS
<1>2. CASE \E kind \in AuthKinds \cup {"geo_restricted"} :
             /\ m = Page!Failure(kind)
             /\ s.kind \in Page!AuthFailed => kind \in AuthKinds
             /\ f.kind # "" \/ s.kind # ""
  <2>1. PICK kind \in AuthKinds \cup {"geo_restricted"} :
             /\ m = Page!Failure(kind)
             /\ s.kind \in Page!AuthFailed => kind \in AuthKinds
             /\ f.kind # "" \/ s.kind # ""
    BY <1>2
  <2>2. kind \in Page!Kinds
    BY DEF Page!Kinds, Page!TerminalErrors, AuthKinds
  <2> QED
    <3>1. /\ m \in Page!Results /\ ~Page!HasNumber(m) /\ Told(m) /\ m.views # Display /\ m.err /\ m.kind = kind
          /\ ~Page!CardViews(m)
      BY <2>1, <2>2, FailureIs, CheckAssumption
    <3>2. f.kind = "" /\ s.kind = "" => FALSE
      BY <2>1
    <3>3. s.kind \in Page!AuthFailed => m.kind \in AuthKinds
      BY <2>1, <3>1
    <3> QED
      BY <1>1, <3>1, <3>2, <3>3
<1>3. CASE /\ s.kind \notin Page!AuthFailed
           /\ \E kind \in Page!Kinds, wrong \in BOOLEAN, auth \in BOOLEAN :
                /\ m = Page!Result(v, l, c, kind, wrong, auth)
                /\ ~f.err /\ ~s.err => ~wrong
                /\ ~wrong => kind = ""
  <2>1. PICK kind \in Page!Kinds, wrong \in BOOLEAN, auth \in BOOLEAN :
                /\ m = Page!Result(v, l, c, kind, wrong, auth)
                /\ ~f.err /\ ~s.err => ~wrong
                /\ ~wrong => kind = ""
    BY <1>3
  <2>2. /\ f.views \in Numbers \cup {None, Display} /\ s.views \in Numbers \cup {None, Display}
        /\ f.likes \in Numbers \cup {None, Display} /\ s.likes \in Numbers \cup {None, Display}
        /\ f.src \in Page!Sources /\ s.src \in Page!Sources
    BY DEF Page!Results
  <2>3. l \in {f.likes, s.likes} /\ (f.likes # None => l = f.likes)
    BY <1>1 DEF Page!MergedLikes
  <2>4. v \in {f.views, s.views, None} /\ c \in {f.src, s.src, "view_query_unknown"}
    BY <1>1 DEF Page!MergedViews, Page!MergedSource
  <2>5. Told(f) /\ Told(s) =>
          /\ c \in {"view_query_exact", "embedded_exact"} => v \in Numbers
          /\ c = "view_query_unknown" => v = None
          /\ c = "header_display" => v = Display
          /\ c = "" => v \in {None, Display}
    BY <1>1, <2>2, CheckAssumption DEF Told, Page!MergedViews, Page!MergedSource, Page!Invalidates
  <2>7. Told(f) /\ Told(s) /\ ViewsTold(f) => v # Display /\ c \in {"view_query_exact", "view_query_unknown", "embedded_exact"}
    BY <1>1, <2>2, CheckAssumption DEF Told, ViewsTold, Page!MergedViews, Page!MergedSource, Page!Invalidates
  <2>8. Told(f) /\ Told(s) /\ ~Page!CardViews(f) =>
          /\ Page!SaysNull(s) => v # Display /\ c \in {"view_query_exact", "view_query_unknown", "embedded_exact"}
          /\ ~Page!CardViews(s) => ~(v = Display /\ c = "")
    <3>1. ASSUME Told(f), Told(s), ~Page!CardViews(f), Page!SaysNull(s)
          PROVE  v # Display /\ c \in {"view_query_exact", "view_query_unknown", "embedded_exact"}
      BY <1>1, <2>2, <3>1, CheckAssumption DEF Told, Page!CardViews, Page!SaysNull, Page!MergedViews, Page!MergedSource, Page!Invalidates, Page!Sources
    <3>2. ASSUME Told(f), Told(s), ~Page!CardViews(f), ~Page!CardViews(s)
          PROVE  ~(v = Display /\ c = "")
      BY <1>1, <2>2, <3>2, CheckAssumption DEF Told, Page!CardViews, Page!MergedViews, Page!MergedSource, Page!Invalidates, Page!Sources
    <3> QED
      BY <3>1, <3>2
  <2>6. /\ m \in Page!Results /\ m.views = v /\ m.likes = l /\ m.src = c /\ m.kind = kind /\ m.err = wrong
    BY <2>1, <2>2, <2>3, <2>4 DEF Page!Result, Page!Results, Page!Sources
  <2> QED
    BY <1>1, <1>3, <2>1, <2>3, <2>4, <2>5, <2>6, <2>7, <2>8 DEF Told, ViewsTold, Page!HasNumber, Page!CardViews
<1>4. \/ \E kind \in AuthKinds \cup {"geo_restricted"} :
             /\ m = Page!Failure(kind)
             /\ s.kind \in Page!AuthFailed => kind \in AuthKinds
             /\ f.kind # "" \/ s.kind # ""
      \/ /\ s.kind \notin Page!AuthFailed
         /\ \E kind \in Page!Kinds, wrong \in BOOLEAN, auth \in BOOLEAN :
                /\ m = Page!Result(v, l, c, kind, wrong, auth)
                /\ ~f.err /\ ~s.err => ~wrong
                /\ ~wrong => kind = ""
  BY <1>1, MergeCases, ZenonT(60)
<1> QED
  BY <1>2, <1>3, <1>4

Refused == {"invalid", "checkpoint"}

\* Numbers are proved where they are first kept; evidence against the login ends a check at once, so
\* that no later answer covers it up; Chromium begins with a blank result.
CheckInv ==
    /\ Page!TypeOK /\ signedIn \in BOOLEAN /\ verified \in BOOLEAN
    /\ Told(request) /\ Told(found) /\ ~Page!CardViews(request) /\ found.kind = "" /\ ~found.err
    /\ phase = "http" => request = Page!Blank
    /\ phase \in {"http", "retry", "goto"} => found = Page!Blank /\ ~verified
    /\ signedIn /\ (verified \/ Page!HasNumber(request) \/ Page!HasNumber(found) \/ Page!HasNumber(final)) => "valid" \in seen
    /\ seen \cap Refused # {} => Page!Over /\ final.kind \in AuthKinds

\* The steps of BestNumberStands.
BestKept ==
    /\ request.likes # None =>
        /\ request'.err \/ request'.likes = request.likes
        /\ phase' = "write" /\ ~final'.err => final'.likes = request.likes
    /\ request.src = "view_query_unknown" => request'.views # Display
    /\ found.src = "view_query_unknown" => found'.views # Display
    /\ phase' = "write" /\ request.src = "view_query_unknown" /\ ~final'.err => final'.views # Display
    /\ ~nulled /\ nulled' /\ ~Page!CardViews(found) => Page!MergedInto.views # Display

\* A snapshot that is used.
LEMMA SnapshotIs ==
    ASSUME signedIn \in BOOLEAN, NEW reading \in Page!Readings, NEW r, r = [reading EXCEPT !.auth = signedIn]
    PROVE  /\ r \in Page!Results /\ Told(r) /\ ~Page!CardViews(r) /\ r.kind = reading.kind
           /\ r.kind \in Page!TerminalErrors \/ (r.kind = "" /\ ~r.err)
<1>1. /\ reading \in Page!Results /\ Told(reading) /\ ~Page!CardViews(reading)
      /\ reading.kind \in Page!TerminalErrors \/ (reading.kind = "" /\ ~reading.err)
  BY ReadingIs
<1>2. /\ r \in Page!Results /\ r.views = reading.views /\ r.likes = reading.likes /\ r.src = reading.src
      /\ r.kind = reading.kind /\ r.err = reading.err
  BY <1>1 DEF Page!Results
<1> QED
  BY <1>1, <1>2 DEF Told, Page!CardViews

LEMMA RefusalIs ==
    ASSUME NEW login
    PROVE  /\ Page!Refusal(login) \in Page!Results /\ Told(Page!Refusal(login)) /\ ~Page!HasNumber(Page!Refusal(login))
           /\ Page!Refusal(login).kind \in Page!AuthFailed /\ ~Page!CardViews(Page!Refusal(login))
<1>1. PICK kind \in {"auth_invalid", "auth_checkpoint"} : kind = IF login = "checkpoint" THEN "auth_checkpoint" ELSE "auth_invalid"
  OBVIOUS
<1>2. Page!Refusal(login) = Page!Failure(kind)
  BY <1>1 DEF Page!Refusal
<1>3. kind \in Page!Kinds
  BY DEF Page!Kinds, Page!TerminalErrors
<1> QED
  BY <1>2, <1>3, FailureIs DEF Page!AuthFailed

\* fetch_threads_http
LEMMA AnswerIs ==
    ASSUME signedIn \in BOOLEAN, NEW reading \in Page!Readings, NEW login, NEW r, r = Page!HttpAnswer(login, reading)
    PROVE  /\ r \in Page!Results /\ Told(r) /\ ~Page!CardViews(r)
           /\ signedIn /\ Page!HasNumber(r) => login = "valid"
           /\ login \in Refused => r.kind \in Page!AuthFailed
<1>1. CASE login \in Refused
  <2>1. r = Page!Refusal(login)
    BY <1>1 DEF Page!HttpAnswer, Refused
  <2> QED
    BY <2>1, RefusalIs
<1>2. CASE login \notin Refused /\ signedIn /\ login # "valid"
  <2>1. r = Page!Failure("auth_unknown")
    BY <1>2 DEF Page!HttpAnswer, Refused
  <2>2. "auth_unknown" \in Page!Kinds
    BY DEF Page!Kinds
  <2> QED
    BY <1>2, <2>1, <2>2, FailureIs
<1>3. CASE login \notin Refused /\ ~(signedIn /\ login # "valid")
  <2>1. r = [reading EXCEPT !.auth = signedIn]
    BY <1>3 DEF Page!HttpAnswer, Refused
  <2> QED
    BY <1>3, <2>1, SnapshotIs
<1> QED
  BY <1>1, <1>2, <1>3

\* _request_check: the second answer, merged.
LEMMA SecondIs ==
    ASSUME CheckInv, NEW r \in Page!Results, Told(r), ~Page!CardViews(r), NEW m, m = Page!Second(r)
    PROVE  /\ m \in Page!Results /\ Told(m) /\ ~Page!CardViews(m)
           /\ Page!HasNumber(m) => Page!HasNumber(request) \/ Page!HasNumber(r)
           /\ r.kind \in Page!AuthFailed => m.kind \in Page!AuthFailed
           /\ request.likes # None => m.err \/ m.likes = request.likes
           /\ request.src = "view_query_unknown" => m.views # Display
           /\ Page!SaysNull(r) => m.views # Display
<1>1. PICK merged : merged = Page!Merge(request, r)
  OBVIOUS
<1>2. request \in Page!Results /\ Told(request) /\ ~Page!CardViews(request)
  BY DEF CheckInv, Page!TypeOK
<1>3. /\ merged \in Page!Results /\ Told(merged) /\ ~Page!CardViews(merged)
      /\ Page!HasNumber(merged) => Page!HasNumber(request) \/ Page!HasNumber(r)
      /\ request.likes # None => merged.err \/ merged.likes = request.likes
      /\ request.src = "view_query_unknown" => merged.views # Display
      /\ Page!SaysNull(r) => merged.views # Display
  BY <1>1, <1>2, MergeIs DEF ViewsTold
<1>4. m = IF r.kind \in Page!TerminalErrors THEN [merged EXCEPT !.kind = r.kind] ELSE merged
  BY <1>1 DEF Page!Second
<1>5. CASE r.kind \in Page!TerminalErrors
  <2>1. /\ m \in Page!Results /\ m.views = merged.views /\ m.likes = merged.likes /\ m.src = merged.src
        /\ m.err = merged.err /\ m.kind = r.kind
    BY <1>3, <1>4, <1>5 DEF Page!Results, Page!Kinds
  <2> QED
    BY <1>3, <2>1 DEF Told, Page!HasNumber, Page!CardViews
<1>6. CASE r.kind \notin Page!TerminalErrors
  BY <1>3, <1>4, <1>6 DEF Page!AuthFailed, Page!TerminalErrors
<1> QED
  BY <1>5, <1>6

LEMMA AfterHttpKeeps ==
    ASSUME CheckInv, phase \in {"http", "retry"}, NEW r \in Page!Results, Told(r), ~Page!CardViews(r), NEW again, Page!AfterHttp(r, again),
           seen \subseteq seen', signedIn /\ Page!HasNumber(r) => "valid" \in seen',
           seen' \cap Refused # {} => r.kind \in Page!AuthFailed,
           request.likes # None => r.err \/ r.likes = request.likes,
           request.src = "view_query_unknown" => r.views # Display,
           ~nulled /\ nulled' => r.views # Display
    PROVE  CheckInv' /\ BestKept
<1>1. /\ request' = r /\ final' = r /\ UNCHANGED <<signedIn, found, verified, extracted, polls, cell>>
      /\ phase' \in {"retry", "goto", "write"}
      /\ r.kind \in Page!TerminalErrors => phase' = "write"
  BY DEF Page!AfterHttp
<1>2. CheckInv'
  <2>1. Page!TypeOK'
    BY <1>1 DEF CheckInv, Page!TypeOK
  <2>2. signedIn /\ (verified' \/ Page!HasNumber(request') \/ Page!HasNumber(found') \/ Page!HasNumber(final')) => "valid" \in seen'
    BY <1>1 DEF CheckInv
  <2>3. seen' \cap Refused # {} => phase' = "write" /\ final'.kind \in AuthKinds
    BY <1>1 DEF Page!AuthFailed, Page!TerminalErrors, AuthKinds
  <2>4. phase' \in {"http", "retry", "goto"} => found' = Page!Blank /\ ~verified'
    BY <1>1 DEF CheckInv
  <2> QED
    BY <1>1, <2>1, <2>2, <2>3, <2>4 DEF CheckInv, Page!Over, Told, Page!HasNumber, Page!CardViews
<1>3. BestKept
  <2>1. Page!MergedInto = r
    BY <1>1 DEF Page!MergedInto
  <2>2. found.src = "view_query_unknown" => found'.views # Display
    BY <1>1, CheckAssumption DEF CheckInv, Told
  <2> QED
    BY <1>1, <2>1, <2>2 DEF BestKept
<1> QED
  BY <1>2, <1>3

\* The check ends with what it read before and r.
LEMMA EndsKeeps ==
    ASSUME CheckInv, phase \in {"goto", "poll", "polled"}, NEW r \in Page!Results, Told(r), Page!Ends(r),
           seen \subseteq seen', signedIn /\ Page!HasNumber(r) => "valid" \in seen',
           seen' \cap Refused # {} => r.kind \in Page!AuthFailed
    PROVE  CheckInv' /\ BestKept
<1>1. PICK m : m = Page!Merge(request, r)
  OBVIOUS
<1>2. request \in Page!Results /\ Told(request)
  BY DEF CheckInv, Page!TypeOK
<1>3. /\ m \in Page!Results
      /\ Page!HasNumber(m) => Page!HasNumber(request) \/ Page!HasNumber(r)
      /\ request.likes # None => m.err \/ m.likes = request.likes
      /\ request.src = "view_query_unknown" => m.views # Display
      /\ r.kind \in Page!AuthFailed => m.kind \in AuthKinds
  BY <1>1, <1>2, MergeIs DEF ViewsTold
<1>4. final' = m /\ phase' = "write" /\ UNCHANGED <<signedIn, request, found, verified, extracted, polls, cell, nulled>>
  BY <1>1 DEF Page!Ends
<1>5. CheckInv'
  <2>1. Page!TypeOK'
    BY <1>3, <1>4 DEF CheckInv, Page!TypeOK
  <2>2. signedIn /\ (verified' \/ Page!HasNumber(request') \/ Page!HasNumber(found') \/ Page!HasNumber(final')) => "valid" \in seen'
    BY <1>3, <1>4 DEF CheckInv
  <2> QED
    BY <1>3, <1>4, <2>1, <2>2 DEF CheckInv, Page!Over, Told, Page!HasNumber, Page!CardViews
<1>6. BestKept
  BY <1>3, <1>4, CheckAssumption DEF BestKept, CheckInv, Told
<1> QED
  BY <1>5, <1>6

LEMMA HttpKeeps == ASSUME CheckInv, Page!Http PROVE CheckInv' /\ BestKept
<1>1. phase \in {"http", "retry"} /\ signedIn \in BOOLEAN /\ (phase = "http" => request = Page!Blank) /\ ~Page!Over
  BY DEF Page!Http, CheckInv, Page!Over
<1>2. seen \cap Refused = {}
  BY <1>1 DEF CheckInv
<1>3. ASSUME NEW r \in Page!Results, Told(r), ~Page!CardViews(r), ~nulled /\ nulled' => Page!SaysNull(r),
             NEW m, m = (IF phase = "http" THEN r ELSE Page!Second(r)),
             Page!AfterHttp(m, phase = "http"), seen \subseteq seen',
             signedIn /\ Page!HasNumber(r) => "valid" \in seen',
             seen' \cap Refused # {} => r.kind \in Page!AuthFailed
      PROVE  CheckInv' /\ BestKept
  <2>1. CASE phase = "http"
    <3>1. ~nulled /\ nulled' => r.views # Display
      BY <1>3, CheckAssumption DEF Told, Page!SaysNull
    <3> QED
      BY <1>1, <1>3, <2>1, <3>1, AfterHttpKeeps, BlankIs
  <2>2. CASE phase = "retry"
    <3>1. m = Page!Second(r)
      BY <1>3, <2>2
    <3>2. signedIn /\ Page!HasNumber(request) => "valid" \in seen'
      BY <1>3 DEF CheckInv
    <3>3. /\ m \in Page!Results /\ Told(m) /\ ~Page!CardViews(m)
          /\ Page!HasNumber(m) => Page!HasNumber(request) \/ Page!HasNumber(r)
          /\ r.kind \in Page!AuthFailed => m.kind \in Page!AuthFailed
          /\ request.likes # None => m.err \/ m.likes = request.likes
          /\ request.src = "view_query_unknown" => m.views # Display
          /\ Page!SaysNull(r) => m.views # Display
      BY <1>3, <3>1, SecondIs
    <3> QED
      BY <1>1, <1>3, <3>2, <3>3, AfterHttpKeeps
  <2> QED
    BY <1>1, <2>1, <2>2
<1>4. CASE \E reading \in Page!Readings, login \in Page!Logins :
             LET r == Page!HttpAnswer(login, reading)
             IN  /\ seen' = seen \cup {login} /\ nulled' = (nulled \/ Page!SaysNull(r))
                 /\ Page!AfterHttp(IF phase = "http" THEN r ELSE Page!Second(r), phase = "http")
  <2>1. PICK reading \in Page!Readings, login \in Page!Logins :
             LET r == Page!HttpAnswer(login, reading)
             IN  /\ seen' = seen \cup {login} /\ nulled' = (nulled \/ Page!SaysNull(r))
                 /\ Page!AfterHttp(IF phase = "http" THEN r ELSE Page!Second(r), phase = "http")
    BY <1>4
  <2>2. PICK r : r = Page!HttpAnswer(login, reading)
    OBVIOUS
  <2>3. PICK m : m = (IF phase = "http" THEN r ELSE Page!Second(r))
    OBVIOUS
  <2>4. /\ seen' = seen \cup {login} /\ nulled' = (nulled \/ Page!SaysNull(r))
        /\ Page!AfterHttp(m, phase = "http")
    BY <2>1, <2>2, <2>3
  <2>6. ~nulled /\ nulled' => Page!SaysNull(r)
    BY <2>4
  <2>5. /\ r \in Page!Results /\ Told(r) /\ ~Page!CardViews(r)
        /\ signedIn /\ Page!HasNumber(r) => login = "valid"
        /\ login \in Refused => r.kind \in Page!AuthFailed
    BY <1>1, <2>2, AnswerIs
  <2> QED
    BY <1>2, <1>3, <2>3, <2>4, <2>5, <2>6
<1>5. CASE \E kind \in Page!HttpErrors :
             /\ Page!AfterHttp(IF phase = "http" THEN Page!Failure(kind) ELSE Page!Second(Page!Failure(kind)), phase = "http")
             /\ UNCHANGED <<seen, nulled>>
  <2>1. PICK kind \in Page!HttpErrors :
             /\ Page!AfterHttp(IF phase = "http" THEN Page!Failure(kind) ELSE Page!Second(Page!Failure(kind)), phase = "http")
             /\ UNCHANGED <<seen, nulled>>
    BY <1>5
  <2>2. PICK r : r = Page!Failure(kind)
    OBVIOUS
  <2>3. PICK m : m = (IF phase = "http" THEN r ELSE Page!Second(r))
    OBVIOUS
  <2>4. seen' = seen /\ nulled' = nulled /\ Page!AfterHttp(m, phase = "http")
    BY <2>1, <2>2, <2>3
  <2>5. kind \in Page!Kinds
    BY DEF Page!HttpErrors, Page!Kinds, Page!TerminalErrors
  <2>6. r \in Page!Results /\ Told(r) /\ ~Page!HasNumber(r) /\ ~Page!CardViews(r)
    BY <2>2, <2>5, FailureIs
  <2> QED
    BY <1>2, <1>3, <2>3, <2>4, <2>6
<1> QED
  BY <1>4, <1>5 DEF Page!Http

LEMMA GotoKeeps == ASSUME CheckInv, Page!Goto PROVE CheckInv' /\ BestKept
<1>1. phase = "goto" /\ signedIn \in BOOLEAN /\ found = Page!Blank /\ ~verified
  BY DEF Page!Goto, CheckInv
<1>2. seen \cap Refused = {}
  BY <1>1 DEF CheckInv, Page!Over
<1>3. CASE \E kind \in {"access_denied", "rate_limit", "browser_start"} : Page!Ends(Page!Failure(kind)) /\ UNCHANGED seen
  <2>1. PICK kind \in {"access_denied", "rate_limit", "browser_start"} : Page!Ends(Page!Failure(kind)) /\ UNCHANGED seen
    BY <1>3
  <2>2. PICK r : r = Page!Failure(kind)
    OBVIOUS
  <2>3. kind \in Page!Kinds
    BY DEF Page!Kinds, Page!TerminalErrors
  <2>4. r \in Page!Results /\ Told(r) /\ ~Page!HasNumber(r)
    BY <2>2, <2>3, FailureIs
  <2> QED
    BY <1>1, <1>2, <2>1, <2>2, <2>4, EndsKeeps
<1>4. CASE ~(\E kind \in {"access_denied", "rate_limit", "browser_start"} : Page!Ends(Page!Failure(kind)) /\ UNCHANGED seen)
  <2>1. PICK reading \in Page!Readings, login \in Page!Logins :
            LET r == [reading EXCEPT !.auth = signedIn]
            IN  /\ seen' = seen \cup {login}
                /\ IF login \in {"invalid", "checkpoint"} THEN Page!Ends(Page!Refusal(login))
                   ELSE IF Page!Usable(login) /\ r.kind \in Page!TerminalErrors THEN Page!Ends(r)
                   ELSE /\ found' = (IF Page!Usable(login) THEN r ELSE Page!Blank)
                        /\ verified' = (login = "valid")
                        /\ phase' = "poll"
                        /\ nulled' = (nulled \/ (Page!Usable(login) /\ Page!SaysNull(r)))
                        /\ UNCHANGED <<signedIn, request, extracted, polls, final, cell>>
    BY <1>4 DEF Page!Goto
  <2>2. PICK r : r = [reading EXCEPT !.auth = signedIn]
    OBVIOUS
  <2>3. /\ r \in Page!Results /\ Told(r)
        /\ r.kind \in Page!TerminalErrors \/ (r.kind = "" /\ ~r.err)
    BY <1>1, <2>2, SnapshotIs
  <2>4. Page!Usable(login) => ~signedIn \/ login = "valid"
    BY <1>1 DEF Page!Usable
  <2>5. CASE login \in Refused
    <3>1. seen' = seen \cup {login} /\ Page!Ends(Page!Refusal(login))
      BY <2>1, <2>5 DEF Refused
    <3> QED
      BY <1>1, <3>1, EndsKeeps, RefusalIs
  <2>6. CASE login \notin Refused /\ Page!Usable(login) /\ r.kind \in Page!TerminalErrors
    <3>1. seen' = seen \cup {login} /\ Page!Ends(r)
      BY <2>1, <2>2, <2>6 DEF Refused
    <3> QED
      BY <1>1, <1>2, <2>3, <2>4, <2>6, <3>1, EndsKeeps
  <2>7. CASE login \notin Refused /\ ~(Page!Usable(login) /\ r.kind \in Page!TerminalErrors)
    <3>1. /\ seen' = seen \cup {login} /\ found' = (IF Page!Usable(login) THEN r ELSE Page!Blank)
          /\ verified' = (login = "valid") /\ phase' = "poll"
          /\ nulled' = (nulled \/ (Page!Usable(login) /\ Page!SaysNull(r)))
          /\ UNCHANGED <<signedIn, request, extracted, polls, final, cell>>
      BY <2>1, <2>2, <2>7 DEF Refused
    <3>2. /\ found' \in Page!Results /\ Told(found') /\ found'.kind = "" /\ ~found'.err
          /\ Page!HasNumber(found') => Page!Usable(login)
      BY <2>3, <2>7, <3>1, BlankIs
    <3>3. Page!TypeOK'
      BY <3>1, <3>2 DEF CheckInv, Page!TypeOK
    <3>4. signedIn /\ (verified' \/ Page!HasNumber(request) \/ Page!HasNumber(found') \/ Page!HasNumber(final)) => "valid" \in seen'
      BY <2>4, <3>1, <3>2 DEF CheckInv
    <3>5. seen' \cap Refused = {} /\ verified' \in BOOLEAN
      BY <1>2, <2>7, <3>1
    <3>6. CheckInv'
      BY <3>1, <3>2, <3>3, <3>4, <3>5 DEF CheckInv, Told, Page!HasNumber, Page!CardViews
    <3>7. found.src = ""
      BY <1>1, BlankIs
    <3>9. ~nulled /\ nulled' => found'.views # Display
      BY <2>3, <3>1, CheckAssumption DEF Told, Page!SaysNull
    <3>8. BestKept
      BY <1>1, <3>1, <3>7, <3>9, CheckAssumption DEF BestKept, CheckInv, Told, Page!MergedInto
    <3> QED
      BY <3>6, <3>8
  <2> QED
    BY <2>5, <2>6, <2>7
<1> QED
  BY <1>3, <1>4

\* _dom_result
LEMMA DomIs ==
    ASSUME NEW likes \in {None, Display}, NEW views \in {None, Display}, NEW d, d = Page!DomResult(likes, views)
    PROVE  /\ d \in Page!Results /\ Told(d) /\ d.kind = "" /\ ~d.err
BY DEF Page!DomResult, Page!Result, Page!Results, Page!Sources, Page!Kinds, Told

LEMMA PollKeeps == ASSUME CheckInv, Page!Poll PROVE CheckInv' /\ BestKept
<1>1. phase = "poll" /\ signedIn \in BOOLEAN /\ verified \in BOOLEAN
  BY DEF Page!Poll, CheckInv
<1>2. seen \cap Refused = {}
  BY <1>1 DEF CheckInv, Page!Over
<1>3. CASE signedIn /\ \E place \in {"invalid_post", "redirect"} : Page!Ends(Page!Failure(place)) /\ UNCHANGED seen
  <2>1. PICK kind \in {"invalid_post", "redirect"} : Page!Ends(Page!Failure(kind)) /\ UNCHANGED seen
    BY <1>3
  <2>2. PICK r : r = Page!Failure(kind)
    OBVIOUS
  <2>3. kind \in Page!Kinds
    BY DEF Page!Kinds, Page!TerminalErrors
  <2>4. r \in Page!Results /\ Told(r) /\ ~Page!HasNumber(r)
    BY <2>2, <2>3, FailureIs
  <2> QED
    BY <1>1, <1>2, <2>1, <2>2, <2>4, EndsKeeps
<1>4. CASE ~(signedIn /\ \E place \in {"invalid_post", "redirect"} : Page!Ends(Page!Failure(place)) /\ UNCHANGED seen)
  <2>1. PICK reading \in Page!Readings, login \in Page!Logins, card \in BOOLEAN, likes \in {None, Display}, views \in {None, Display} :
            LET r == [reading EXCEPT !.auth = signedIn]
                proved == verified \/ login = "valid"
                merged == IF Page!Usable(login) THEN Page!Merge(found, r) ELSE found
            IN  /\ seen' = seen \cup {login}
                /\ IF login \in {"invalid", "checkpoint"} THEN Page!Ends(Page!Refusal(login))
                   ELSE IF Page!Usable(login) /\ r.kind \in Page!TerminalErrors THEN Page!Ends(r)
                   ELSE /\ verified' = proved
                        /\ extracted' = card
                        /\ found' = IF card /\ Page!CardCounts(proved) THEN Page!Merge(merged, Page!DomResult(likes, views)) ELSE merged
                        /\ phase' = IF Page!MissingCore(found') THEN "poll" ELSE "polled"
                        /\ nulled' = (nulled \/ (Page!Usable(login) /\ Page!SaysNull(r)))
                        /\ UNCHANGED <<signedIn, request, final, cell>>
    BY <1>4 DEF Page!Poll
  <2>2. PICK r : r = [reading EXCEPT !.auth = signedIn]
    OBVIOUS
  <2>3. /\ r \in Page!Results /\ Told(r)
        /\ r.kind \in Page!TerminalErrors \/ (r.kind = "" /\ ~r.err)
    BY <1>1, <2>2, SnapshotIs
  <2>4. /\ Page!Usable(login) => ~signedIn \/ verified \/ login = "valid"
        /\ verified /\ signedIn => "valid" \in seen
    BY DEF Page!Usable, CheckInv
  <2>5. CASE login \in Refused
    <3>1. seen' = seen \cup {login} /\ Page!Ends(Page!Refusal(login))
      BY <2>1, <2>5 DEF Refused
    <3> QED
      BY <1>1, <3>1, EndsKeeps, RefusalIs
  <2>6. CASE login \notin Refused /\ Page!Usable(login) /\ r.kind \in Page!TerminalErrors
    <3>1. seen' = seen \cup {login} /\ Page!Ends(r)
      BY <2>1, <2>2, <2>6 DEF Refused
    <3>2. signedIn /\ Page!HasNumber(r) => "valid" \in seen'
      BY <2>4, <2>6, <3>1
    <3> QED
      BY <1>1, <1>2, <2>3, <2>6, <3>1, <3>2, EndsKeeps
  <2>7. CASE login \notin Refused /\ ~(Page!Usable(login) /\ r.kind \in Page!TerminalErrors)
    <3>1. PICK d : d = Page!DomResult(likes, views)
      OBVIOUS
    <3>2. PICK used \in BOOLEAN : used = Page!Usable(login)
      BY DEF Page!Usable
    <3>3. PICK counted \in BOOLEAN : counted = (card /\ Page!CardCounts(verified \/ login = "valid"))
      OBVIOUS
    <3>4. PICK merged : merged = IF used THEN Page!Merge(found, r) ELSE found
      OBVIOUS
    <3>5. PICK all : all = IF counted THEN Page!Merge(merged, d) ELSE merged
      OBVIOUS
    <3>6. /\ seen' = seen \cup {login} /\ verified' = (verified \/ login = "valid") /\ found' = all
          /\ phase' \in {"poll", "polled"} /\ UNCHANGED <<signedIn, request, final, cell>>
          /\ ~nulled /\ nulled' => used /\ Page!SaysNull(r)
      BY <2>1, <2>2, <2>7, <3>1, <3>2, <3>3, <3>4, <3>5 DEF Refused
    <3>7. /\ all \in Page!Results /\ Told(all) /\ all.kind = "" /\ ~all.err
          /\ Page!HasNumber(all) => Page!HasNumber(found) \/ used \/ counted
          /\ found.src = "view_query_unknown" => all.views # Display
          /\ used /\ Page!SaysNull(r) /\ ~Page!CardViews(found) => all.views # Display
      <4>1. used => r.kind = "" /\ ~r.err
        BY <2>3, <2>7, <3>2
      <4>2. d \in Page!Results /\ Told(d) /\ d.kind = "" /\ ~d.err
        BY <3>1, DomIs
      <4>3. found \in Page!Results /\ Told(found) /\ found.kind = "" /\ ~found.err
        BY DEF CheckInv, Page!TypeOK
      <4>4. /\ merged \in Page!Results /\ Told(merged) /\ merged.kind = "" /\ ~merged.err
            /\ Page!HasNumber(merged) => Page!HasNumber(found) \/ used
            /\ found.src = "view_query_unknown" => ViewsTold(merged) /\ merged.views # Display
            /\ used /\ Page!SaysNull(r) /\ ~Page!CardViews(found) => ViewsTold(merged) /\ merged.views # Display
        <5>1. CASE used
          BY <2>3, <3>4, <4>1, <4>3, <5>1, MergeIs DEF ViewsTold
        <5>2. CASE ~used
          BY <3>4, <4>3, <5>2, CheckAssumption DEF Told, ViewsTold
        <5> QED
          BY <5>1, <5>2
      <4>5. CASE counted
        BY <3>5, <4>2, <4>4, <4>5, MergeIs
      <4>6. CASE ~counted
        BY <3>5, <4>4, <4>6
      <4> QED
        BY <4>5, <4>6
    <3>8. signedIn /\ (verified' \/ Page!HasNumber(request) \/ Page!HasNumber(all) \/ Page!HasNumber(final)) => "valid" \in seen'
      <4>1. used \/ counted => ~signedIn \/ verified \/ login = "valid"
        BY <2>4, <3>2, <3>3 DEF Page!CardCounts
      <4> QED
        BY <2>4, <3>6, <3>7, <4>1 DEF CheckInv
    <3>9. Page!TypeOK'
      BY <3>6, <3>7 DEF CheckInv, Page!TypeOK
    <3>10. seen' \cap Refused = {} /\ verified' \in BOOLEAN
      BY <1>1, <1>2, <2>7, <3>6
    <3>11. CheckInv'
      BY <3>6, <3>7, <3>8, <3>9, <3>10 DEF CheckInv, Told, Page!HasNumber, Page!CardViews
    <3>12. BestKept
      <4>1. Page!MergedInto = all
        BY <1>1, <3>6 DEF Page!MergedInto
      <4>2. ~nulled /\ nulled' /\ ~Page!CardViews(found) => all.views # Display
        BY <3>6, <3>7
      <4>3. request.src = "view_query_unknown" => request'.views # Display
        BY <3>6, CheckAssumption DEF CheckInv, Told
      <4> QED
        BY <3>6, <3>7, <4>1, <4>2, <4>3 DEF BestKept
    <3> QED
      BY <3>11, <3>12
  <2> QED
    BY <2>5, <2>6, <2>7
<1> QED
  BY <1>3, <1>4

LEMMA LateKeeps == ASSUME CheckInv, Page!Polled \/ Page!Breaks PROVE CheckInv' /\ BestKept
<1>1. phase \in {"goto", "poll", "polled"} /\ seen' = seen /\ signedIn \in BOOLEAN
  BY DEF Page!Polled, Page!Breaks, CheckInv
<1>2. seen \cap Refused = {}
  BY <1>1 DEF CheckInv, Page!Over
<1>3. found \in Page!Results /\ Told(found) /\ (signedIn /\ Page!HasNumber(found) => "valid" \in seen)
  BY DEF CheckInv, Page!TypeOK
<1>4. ASSUME NEW s \in Page!Results, Told(s), ~Page!HasNumber(s), Page!Ends(Page!Merge(found, s))
      PROVE  CheckInv' /\ BestKept
  <2>1. PICK r : r = Page!Merge(found, s)
    OBVIOUS
  <2>2. r \in Page!Results /\ Told(r) /\ (Page!HasNumber(r) => Page!HasNumber(found))
    BY <1>3, <1>4, <2>1, MergeIs
  <2> QED
    BY <1>1, <1>2, <1>3, <1>4, <2>1, <2>2, EndsKeeps
<1>5. {"auth_unknown", "payload", "transport"} \subseteq Page!Kinds
  BY DEF Page!Kinds
<1>6. CASE Page!Ends(Page!Failure("auth_unknown"))
  <2>1. PICK r : r = Page!Failure("auth_unknown")
    OBVIOUS
  <2>2. r \in Page!Results /\ Told(r) /\ ~Page!HasNumber(r)
    BY <1>5, <2>1, FailureIs
  <2> QED
    BY <1>1, <1>2, <1>6, <2>1, <2>2, EndsKeeps
<1>7. CASE Page!Ends(Page!Merge(found, Page!Failure("transport")))
  BY <1>4, <1>5, <1>7, FailureIs
<1>8. CASE Page!Ends(Page!Merge(found, IF extracted THEN [Page!Blank EXCEPT !.auth = signedIn]
                                       ELSE [Page!Failure("payload") EXCEPT !.auth = signedIn]))
  <2>1. PICK e : e = IF extracted THEN Page!Blank ELSE Page!Failure("payload")
    OBVIOUS
  <2>2. e \in Page!Results /\ Told(e) /\ ~Page!HasNumber(e)
    BY <1>5, <2>1, FailureIs, BlankIs
  <2>3. PICK s : s = [e EXCEPT !.auth = signedIn]
    OBVIOUS
  <2>4. /\ s \in Page!Results /\ s.views = e.views /\ s.likes = e.likes /\ s.src = e.src
    BY <1>1, <2>2, <2>3 DEF Page!Results
  <2>5. Told(s) /\ ~Page!HasNumber(s)
    BY <2>2, <2>4 DEF Told, Page!HasNumber
  <2>6. Page!Ends(Page!Merge(found, s))
    BY <1>8, <2>1, <2>3
  <2> QED
    BY <1>4, <2>4, <2>5, <2>6
<1> QED
  BY <1>6, <1>7, <1>8 DEF Page!Polled, Page!Breaks

LEMMA WriteKeeps == ASSUME CheckInv, Page!Write PROVE CheckInv' /\ BestKept
<1>1. phase' = "done" /\ phase = "write" /\ UNCHANGED <<signedIn, request, found, verified, extracted, polls, final, seen, nulled>>
  BY DEF Page!Write
<1>2. final \in Page!Results /\ cell \in [views : Numbers \cup {None, Display}, likes : Numbers \cup {None, Display}]
  BY DEF CheckInv, Page!TypeOK
<1>3. cell' \in [views : Numbers \cup {None, Display}, likes : Numbers \cup {None, Display}]
  BY <1>2 DEF Page!Write, Page!Results
<1>4. CheckInv'
  BY <1>1, <1>3 DEF CheckInv, Page!TypeOK, Page!Over, Told, Page!HasNumber, Page!CardViews
<1>5. BestKept
  BY <1>1, CheckAssumption DEF BestKept, CheckInv, Told
<1> QED
  BY <1>4, <1>5

LEMMA CheckInit == Page!Init => CheckInv
<1> SUFFICES ASSUME Page!Init PROVE CheckInv
  OBVIOUS
<1>1. /\ signedIn \in BOOLEAN /\ phase \in {"http", "goto"} /\ verified = FALSE /\ seen = {}
      /\ request = Page!Blank /\ found = Page!Blank /\ final = Page!Blank
      /\ cell \in [views : {Display}, likes : Numbers]
  BY ThreadsAssumption DEF Page!Init
<1>2. Page!TypeOK
  BY <1>1, BlankIs DEF Page!TypeOK
<1>3. seen \cap Refused = {}
  BY <1>1
<1> QED
  BY <1>1, <1>2, <1>3, BlankIs DEF CheckInv

LEMMA CheckStep == CheckInv /\ [Page!Next]_(Page!vars) => CheckInv' /\ [BestKept]_(Page!vars)
<1> SUFFICES ASSUME CheckInv, [Page!Next]_(Page!vars) PROVE CheckInv' /\ [BestKept]_(Page!vars)
  OBVIOUS
<1>1. CASE UNCHANGED Page!vars
  <2>1. UNCHANGED <<signedIn, phase, request, found, verified, final, cell, seen>>
    BY <1>1 DEF Page!vars
  <2>2. Told(request)' = Told(request) /\ Told(found)' = Told(found) /\ Page!Over' = Page!Over /\ Page!TypeOK' = Page!TypeOK
    BY <2>1 DEF Told, Page!Over, Page!TypeOK
  <2>3. CheckInv'
    BY <2>1, <2>2 DEF CheckInv, Page!HasNumber, Page!CardViews
  <2> QED
    BY <1>1, <2>3
<1>2. CASE Page!Done
  <2>1. UNCHANGED Page!vars
    BY <1>2 DEF Page!Done
  <2> QED
    BY <1>1, <2>1
<1> QED
  BY <1>1, <1>2, HttpKeeps, GotoKeeps, PollKeeps, LateKeeps, WriteKeeps DEF Page!Next

\* With a cookie session no number is written that a page of this link did not prove, and a page that
\* refuses the login refuses the result, for any numbers and snapshots (fetch_threads_http,
\* fetch_threads_browser, merge_results).
THEOREM NumbersAreProved == Page!Spec => []OnlyProvedNumbers
<1>1. CheckInv /\ [Page!Next]_(Page!vars) => CheckInv'
  BY CheckStep
<1>2. CheckInv => OnlyProvedNumbers
  BY DEF CheckInv, OnlyProvedNumbers, Page!OnlyProvedNumbers, Refused, AuthKinds, Page!AuthFailed
<1> QED
  BY <1>1, <1>2, CheckInit, PTL DEF Page!Spec

\* A number that HTTP read stands, and no rounded number takes the place of an answer of the post's own
\* view query (merge_results).
THEOREM BestStays == Page!Spec => BestNumberStands
<1>1. CheckInv /\ [Page!Next]_(Page!vars) => CheckInv' /\ [BestKept]_(Page!vars)
  BY CheckStep
<1> QED
  BY <1>1, CheckInit, PTL DEF Page!Spec, BestNumberStands, Page!BestNumberStands, BestKept
=============================================================================

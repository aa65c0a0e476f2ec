--------------------------- MODULE ScanGate_proofs ---------------------------
(***************************************************************************)
(* Proofs about the scan gate (ScanGate), for every set of platforms and   *)
(* callers and for both kinds of storage; and about the page published     *)
(* after a scan (Published), for any posts, readers and number of scans.   *)
(***************************************************************************)
EXTENDS MCGate, WellFoundedInduction, TLAPS

\* The lanes a platform, a start or a resume names are lanes of the program.
LEMMA LaneTyping ==
    /\ Single \in Lanes
    /\ ScanLanes \subseteq Lanes
    /\ \A p \in Platforms : LaneOf(p) \in ScanLanes
    /\ Postgres => \A p \in Platforms : p \in Lanes
    /\ ~Postgres => Lanes = {Single}
  BY GateAssumption DEF Lanes, ScanLanes, LaneOf

\* The four kinds of callers are disjoint sets of starters.
LEMMA StarterKinds ==
    /\ WsClients \subseteq Starters
    /\ Jobs \subseteq Starters
    /\ Internals \subseteq Starters
    /\ Resumers \subseteq Starters
    /\ NoRun \notin Starters
    /\ \A a \in WsClients \cup Jobs \cup Resumers : a \notin Internals
  BY GateAssumption DEF Starters

\* Type correctness: one lemma for each group of callers, then the step of the whole gate.
LEMMA TypeInit == Init => TypeOK
  <1>1. AnyPlatform \in Platforms
    BY GateAssumption DEF AnyPlatform
  <1> SUFFICES ASSUME Init PROVE TypeOK
    OBVIOUS
  <1> USE DEF Init
  <1>2. /\ starting \in [Lanes -> BOOLEAN] /\ running \in [Lanes -> BOOLEAN]
        /\ outerPrev \in [Starters -> BOOLEAN] /\ innerPrev \in [Starters -> BOOLEAN]
    BY Zenon
  <1>3. /\ laneRun \in [Lanes -> Starters \cup {NoRun}]
        /\ lock \in [Platforms -> Starters \cup {NoRun}]
        /\ sourceBusy \in BOOLEAN
        /\ opPc \in [SourceOps -> {"outside", "inside"}]
    OBVIOUS
  <1>4. /\ pc \in [Starters -> StarterPc] /\ platform \in [Starters -> Platforms]
        /\ holdLane \in [Starters -> Lanes] /\ run \in [Starters -> RunState]
    BY <1>1, LaneTyping DEF StarterPc, RunState
  <1>5. QED
    BY <1>2, <1>3, <1>4 DEF TypeOK

\* The moves of a hold keep the gate's variables in their types.
GateTyped ==
    /\ starting \in [Lanes -> BOOLEAN]
    /\ holdLane \in [Starters -> Lanes]
    /\ outerPrev \in [Starters -> BOOLEAN]
    /\ innerPrev \in [Starters -> BOOLEAN]

\* Entering a scan_starting() block keeps the types of the holds.
LEMMA EnterTyping ==
    ASSUME TypeOK, NEW a \in Starters, NEW l \in Lanes, EnterOuter(a, l)
    PROVE  GateTyped'
  BY DEF TypeOK, GateTyped, EnterOuter

\* So does entering or leaving either block.
LEMMA HoldTyping ==
    ASSUME TypeOK, NEW a \in Starters, ExitOuter(a) \/ EnterInner(a) \/ ExitInner(a)
    PROVE  GateTyped'
  <1> LaneOf(platform[a]) \in Lanes /\ holdLane[a] \in Lanes
    BY LaneTyping DEF TypeOK
  <1> USE DEF TypeOK, GateTyped
  <1>1. CASE ExitOuter(a)
    BY <1>1 DEF ExitOuter
  <1>2. CASE EnterInner(a)
    BY <1>2 DEF EnterInner
  <1>3. CASE ExitInner(a)
    BY <1>3 DEF ExitInner
  <1>4. QED
    BY <1>1, <1>2, <1>3

\* Source mutations.
LEMMA SourceTyping ==
    ASSUME TypeOK, NEW o \in SourceOps, SourceBegin(o) \/ SourceEnd(o)
    PROVE  TypeOK'
  BY DEF TypeOK, SourceBegin, SourceEnd, gateVars, runVars

\* start_scan_task.
LEMMA BeginTyping ==
    ASSUME TypeOK, NEW a \in Starters, BeginRun(a)
    PROVE  /\ running' \in [Lanes -> BOOLEAN]
           /\ laneRun' \in [Lanes -> Starters \cup {NoRun}]
           /\ run' \in [Starters -> RunState]
  BY LaneTyping DEF TypeOK, BeginRun, RunState

\* The /ws start.
LEMMA WsTyping ==
    ASSUME TypeOK, NEW a \in WsClients,
           WsStep(a) \/ \E p \in Platforms : WsCheck(a, p)
    PROVE  TypeOK'
  <1> a \in Starters
    BY StarterKinds
  <1> USE DEF TypeOK, GateTyped, StarterPc, OuterPc, Goto, gateVars, runVars, opVars
  <1>1. CASE \E p \in Platforms : WsCheck(a, p)
    BY <1>1 DEF WsCheck
  <1>2. CASE WsLoadSession(a)
    BY <1>2, HoldTyping DEF WsLoadSession
  <1>3. CASE WsBegin(a)
    BY <1>3, BeginTyping DEF WsBegin
  <1>4. CASE WsSessionLoaded(a)
    BY <1>4, BeginTyping, HoldTyping DEF WsSessionLoaded
  <1>5. CASE WsReject(a)
    BY <1>5 DEF WsReject
  <1>6. QED
    BY <1>1, <1>2, <1>3, <1>4, <1>5 DEF WsStep

\* Starts inside their hold.
LEMMA HeldTyping ==
    ASSUME TypeOK, NEW a \in Starters, HeldStep(a) \/ InternalStep(a)
    PROVE  TypeOK'
  <1> USE DEF TypeOK, GateTyped, StarterPc, OuterPc, Goto, gateVars, runVars, opVars
  <1>1. CASE HeldFail(a)
    BY <1>1, HoldTyping DEF HeldFail
  <1>2. CASE HeldLoadSession(a)
    BY <1>2, HoldTyping DEF HeldLoadSession
  <1>3. CASE HeldSessionDone(a)
    BY <1>3, HoldTyping DEF HeldSessionDone
  <1>4. CASE HeldBegin(a)
    BY <1>4, BeginTyping DEF HeldBegin
  <1>5. CASE HeldRelease(a)
    BY <1>5, HoldTyping DEF HeldRelease
  <1>6. CASE HeldReturn(a)
    BY <1>6 DEF HeldReturn
  <1>7. CASE InternalLock(a)
    BY <1>7 DEF InternalLock
  <1>8. CASE InternalRowFail(a)
    BY <1>8, HoldTyping DEF InternalRowFail
  <1>9. CASE InternalBegin(a)
    BY <1>9, HoldTyping, BeginTyping DEF InternalBegin
  <1>10. QED
    BY <1>1, <1>2, <1>3, <1>4, <1>5, <1>6, <1>7, <1>8, <1>9 DEF HeldStep, InternalStep

\* The checks that take a hold.
LEMMA CheckTyping ==
    ASSUME TypeOK, NEW a \in Starters, NEW p \in Platforms,
           JobCheck(a, p) \/ ResumeCheckSingle(a, p) \/ ResumeCheckLane(a, p)
             \/ (Postgres /\ InternalCheck(a, p))
    PROVE  TypeOK'
  <1>1. PICK l \in Lanes : HeldCheck(a, p, l)
    BY LaneTyping DEF JobCheck, ResumeCheckSingle, ResumeCheckLane, InternalCheck
  <1>2. QED
    BY <1>1, EnterTyping DEF HeldCheck, TypeOK, GateTyped, StarterPc, OuterPc, Goto, runVars, opVars

\* The scan task.
LEMMA RunTyping ==
    ASSUME TypeOK, NEW a \in Starters, RunStep(a) \/ CancelUnstarted(a)
    PROVE  TypeOK'
  <1> USE LaneTyping DEF TypeOK, RunState, SetRun, gateVars, opVars
  <1>1. CASE RunFirstStep(a)
    BY <1>1 DEF RunFirstStep
  <1>2. CASE RunOpen(a)
    BY <1>2 DEF RunOpen
  <1>3. CASE RunFailEarly(a)
    BY <1>3 DEF RunFailEarly
  <1>4. CASE RunPassesEnd(a)
    BY <1>4 DEF RunPassesEnd
  <1>5. CASE RunTerminal(a)
    BY <1>5 DEF RunTerminal
  <1>6. CASE RunReturn(a)
    BY <1>6 DEF RunReturn
  <1>7. CASE FinalizeCheck(a)
    BY <1>7 DEF FinalizeCheck
  <1>8. CASE FinalizeBroadcast(a)
    BY <1>8 DEF FinalizeBroadcast
  <1>9. CASE CancelUnstarted(a)
    BY <1>9 DEF CancelUnstarted
  <1>10. CASE RunBegin(a) \/ RunBeginFail(a)
    BY <1>10 DEF RunBegin, RunBeginFail
  <1>11. QED
    BY <1>1, <1>2, <1>3, <1>4, <1>5, <1>6, <1>7, <1>8, <1>9, <1>10 DEF RunStep

\* Every step of the gate keeps the types.
LEMMA TypeNext == TypeOK /\ [Next]_vars => TypeOK'
  <1> SUFFICES ASSUME TypeOK, [Next]_vars PROVE TypeOK'
    OBVIOUS
  <1> USE StarterKinds
  <1>1. CASE UNCHANGED vars
    BY <1>1 DEF TypeOK, vars
  <1>2. CASE \E o \in SourceOps : SourceBegin(o) \/ SourceEnd(o)
    BY <1>2, SourceTyping
  <1>3. CASE \E a \in WsClients : WsStep(a) \/ \E p \in Platforms : WsCheck(a, p)
    BY <1>3, WsTyping
  <1>4. CASE \E a \in Jobs : HeldStep(a) \/ \E p \in Platforms : JobCheck(a, p)
    BY <1>4, HeldTyping, CheckTyping
  <1>5. CASE \E a \in Resumers :
               HeldStep(a) \/ \E p \in Platforms : ResumeCheckSingle(a, p) \/ ResumeCheckLane(a, p)
    BY <1>5, HeldTyping, CheckTyping
  <1>6. CASE \E a \in Internals : InternalStep(a) \/ \E p \in Platforms : InternalCheck(a, p)
    BY <1>6, HeldTyping, CheckTyping, GateAssumption
  <1>7. CASE \E a \in Starters : RunStep(a) \/ CancelUnstarted(a)
    BY <1>7, RunTyping
  <1>8. QED
    BY <1>1, <1>2, <1>3, <1>4, <1>5, <1>6, <1>7 DEF Next

\* Every variable of the gates keeps its type, whoever calls them.
THEOREM GateTypeCorrect == Spec => []TypeOK
  BY TypeInit, TypeNext, PTL DEF Spec

-----------------------------------------------------------------------------
(* Exclusion, when every start takes its hold in the step of its check.    *)

\* No hold, no scan and no mutation at the start.
LEMMA ExclInit == Init => ExclInv
  BY GateAssumption, LaneTyping, StarterKinds
     DEF Init, ExclInv, HoldBeforeRun, CheckedIsWs, HoldsDisjoint, HoldExcludesRun, PreviousIsRight,
         HoldIsOwned, CancelReaches, OneScanPerLane, SourceExcludesScans, SourceGateHeld,
         SourceBusyIsOwned, Holds, HoldsOuter, HoldsInner, InHold, OuterPc, Alive, AliveState

\* A step of a scan task never makes a finished run alive again, and leaves the gates alone.
LEMMA RunOnlyEnds ==
    ASSUME TypeOK, NEW a \in Starters, RunStep(a) \/ CancelUnstarted(a)
    PROVE  /\ UNCHANGED <<gateVars, opVars, laneRun, pc, platform>>
           /\ \A b \in Starters : Alive(b)' => Alive(b)
           /\ \A b \in Starters : run[b] = "none" => run'[b] = "none"
  <1> USE DEF TypeOK, RunState, SetRun, Alive, AliveState
  <1>1. CASE RunFirstStep(a)
    BY <1>1 DEF RunFirstStep
  <1>2. CASE RunOpen(a)
    BY <1>2 DEF RunOpen
  <1>3. CASE RunFailEarly(a)
    BY <1>3 DEF RunFailEarly
  <1>4. CASE RunPassesEnd(a)
    BY <1>4 DEF RunPassesEnd
  <1>5. CASE RunTerminal(a)
    BY <1>5 DEF RunTerminal
  <1>6. CASE RunReturn(a)
    BY <1>6 DEF RunReturn
  <1>7. CASE FinalizeCheck(a)
    BY <1>7 DEF FinalizeCheck
  <1>8. CASE FinalizeBroadcast(a)
    BY <1>8 DEF FinalizeBroadcast
  <1>9. CASE CancelUnstarted(a)
    BY <1>9 DEF CancelUnstarted
  <1>10. CASE RunBegin(a) \/ RunBeginFail(a)
    BY <1>10 DEF RunBegin, RunBeginFail
  <1>11. QED
    BY <1>1, <1>2, <1>3, <1>4, <1>5, <1>6, <1>7, <1>8, <1>9, <1>10 DEF RunStep

\* A step of a scan task keeps every exclusion.
LEMMA RunExcl ==
    ASSUME TypeOK, ExclInv, NEW a \in Starters, RunStep(a) \/ CancelUnstarted(a)
    PROVE  ExclInv'
  <1>1. /\ UNCHANGED <<gateVars, opVars, laneRun, pc, platform>>
        /\ \A b \in Starters : Alive(b)' => Alive(b)
        /\ \A b \in Starters : run[b] = "none" => run'[b] = "none"
    BY RunOnlyEnds
  <1> USE <1>1 DEF ExclInv, gateVars, opVars, InHold
  <1>2. HoldBeforeRun' /\ CheckedIsWs' /\ HoldsDisjoint' /\ PreviousIsRight'
    BY DEF HoldBeforeRun, CheckedIsWs, HoldsDisjoint, PreviousIsRight
  <1>3. HoldExcludesRun' /\ CancelReaches' /\ OneScanPerLane' /\ SourceExcludesScans'
    BY DEF HoldExcludesRun, CancelReaches, OneScanPerLane, SourceExcludesScans
  <1>4. HoldIsOwned' /\ SourceGateHeld' /\ SourceBusyIsOwned'
    BY DEF HoldIsOwned, SourceGateHeld, SourceBusyIsOwned, Holds, HoldsOuter, HoldsInner
  <1>5. QED
    BY <1>2, <1>3, <1>4

\* A start that finds its lane free finds no start and no scan in it.
LEMMA FreeLane ==
    ASSUME TypeOK, ExclInv, WsClients = {}, NEW p \in Platforms, ~ScanRunning(p)
    PROVE  /\ \A b \in Starters : InHold(b) => holdLane[b] # Single /\ holdLane[b] # LaneOf(p)
           /\ \A b \in Starters : Alive(b) => LaneOf(platform[b]) # LaneOf(p)
  <1>1. ~starting[Single] /\ ~starting[LaneOf(p)] /\ ~TaskAlive(LaneOf(p))
    BY DEF ScanRunning, LaneBusy
  <1>2. ASSUME NEW b \in Starters, InHold(b)
        PROVE  starting[holdLane[b]]
    <2>1. Holds(b, holdLane[b]) /\ holdLane[b] \in Lanes
      BY <1>2 DEF Holds, HoldsOuter, InHold, TypeOK
    <2>2. QED
      BY <2>1 DEF ExclInv, HoldIsOwned
  <1>3. ASSUME NEW b \in Starters, Alive(b), LaneOf(platform[b]) = LaneOf(p)
        PROVE  FALSE
    BY <1>1, <1>3, StarterKinds DEF TaskAlive, ExclInv, CancelReaches
  <1>4. QED
    BY <1>1, <1>2, <1>3

\* A gate open to source mutations: nobody holds a lane and no scan is alive.
LEMMA FreeProgram ==
    ASSUME TypeOK, ExclInv, WsClients = {}, ~AnyScanRunning
    PROVE  \A b \in Starters : ~InHold(b) /\ ~Alive(b)
  <1> SUFFICES ASSUME NEW b \in Starters PROVE ~InHold(b) /\ ~Alive(b)
    OBVIOUS
  <1>1. platform[b] \in Platforms /\ LaneOf(platform[b]) \in ScanLanes
    BY LaneTyping DEF TypeOK
  <1>2. ~ScanRunning(platform[b])
    BY <1>1 DEF AnyScanRunning, ScanRunning
  <1>3. ~Alive(b)
    BY <1>1, <1>2, FreeLane
  <1>4. InHold(b) => holdLane[b] \notin {Single, LaneOf(platform[b])}
    BY <1>1, <1>2, FreeLane
  <1>5. QED
    BY <1>3, <1>4 DEF ExclInv, HoldBeforeRun

\* A source mutation begins only when nothing is held or alive, and its end frees nothing else.
LEMMA SourceExcl ==
    ASSUME TypeOK, ExclInv, WsClients = {}, NEW o \in SourceOps, SourceBegin(o) \/ SourceEnd(o)
    PROVE  ExclInv'
  <1>1. UNCHANGED <<gateVars, runVars, pc, platform>>
    BY DEF SourceBegin, SourceEnd
  <1> USE <1>1 DEF ExclInv, gateVars, runVars, InHold, Alive
  <1>2. /\ HoldBeforeRun' /\ CheckedIsWs' /\ HoldsDisjoint' /\ PreviousIsRight'
        /\ HoldExcludesRun' /\ CancelReaches' /\ OneScanPerLane' /\ HoldIsOwned'
    BY DEF HoldBeforeRun, CheckedIsWs, HoldsDisjoint, PreviousIsRight, HoldExcludesRun,
           CancelReaches, OneScanPerLane, HoldIsOwned, Holds, HoldsOuter, HoldsInner
  <1>3. SourceExcludesScans' /\ SourceGateHeld' /\ SourceBusyIsOwned'
    <2>1. CASE SourceBegin(o)
      <3>1. ~sourceBusy /\ \A b \in Starters : ~InHold(b) /\ ~Alive(b)
        BY <2>1, FreeProgram DEF SourceBegin, SourceMutationBlocked
      <3>2. QED
        BY <2>1, <3>1 DEF SourceBegin, TypeOK, SourceExcludesScans, SourceGateHeld,
              SourceBusyIsOwned, CheckedIsWs
    <2>2. CASE SourceEnd(o)
      BY <2>2 DEF SourceEnd, TypeOK, SourceExcludesScans, SourceGateHeld, SourceBusyIsOwned
    <2>3. QED
      BY <2>1, <2>2
  <1>4. QED
    BY <1>2, <1>3

\* A hold is taken only in a lane nobody holds and no scan runs in.
LEMMA CheckExcl ==
    ASSUME TypeOK, ExclInv, WsClients = {}, NEW a \in Starters, NEW p \in Platforms,
           JobCheck(a, p) \/ ResumeCheckSingle(a, p) \/ ResumeCheckLane(a, p)
             \/ (Postgres /\ InternalCheck(a, p))
    PROVE  ExclInv'
  <1>1. PICK l \in Lanes : HeldCheck(a, p, l) /\ l \in {Single, LaneOf(p)}
    BY LaneTyping DEF JobCheck, ResumeCheckSingle, ResumeCheckLane, InternalCheck, LaneOf
  <1>2. /\ ~sourceBusy
        /\ \A b \in Starters : InHold(b) => l # Single /\ holdLane[b] # Single /\ holdLane[b] # l
        /\ \A b \in Starters : Alive(b) => l # Single /\ LaneOf(platform[b]) # LaneOf(p)
    <2>1. CASE ResumeCheckSingle(a, p)
      BY <2>1, FreeProgram DEF ResumeCheckSingle, SourceMutationBlocked
    <2>2. CASE ~ResumeCheckSingle(a, p) /\ l = LaneOf(p)
      <3>1. ~StartBlocked(p)
        BY <2>2 DEF JobCheck, ResumeCheckLane, InternalCheck
      <3>2. ~sourceBusy /\ ~ScanRunning(p)
        BY <3>1 DEF StartBlocked
      <3>3. QED
        <4>1. \A b \in Starters :
                  /\ platform[b] \in Platforms
                  /\ InHold(b) => holdLane[b] \in {Single, LaneOf(platform[b])}
          BY DEF TypeOK, ExclInv, HoldBeforeRun
        <4>2. QED
          BY <2>2, <3>2, <4>1, FreeLane, GateAssumption DEF LaneOf
    <2>3. CASE ~ResumeCheckSingle(a, p) /\ l # LaneOf(p)
      <3>1. PICK k \in Lanes : HeldCheck(a, p, k) /\ k = LaneOf(p)
        BY <2>3, LaneTyping DEF JobCheck, ResumeCheckLane, InternalCheck, LaneOf
      <3>2. k = holdLane'[a] /\ l = holdLane'[a]
        BY <1>1, <3>1 DEF HeldCheck, EnterOuter, TypeOK
      <3>3. QED
        BY <2>3, <3>1, <3>2
    <2>4. QED
      BY <2>1, <2>2, <2>3
  <1>3. /\ pc[a] = "idle" /\ run[a] = "none" /\ ~starting[l]
        /\ pc' = [pc EXCEPT ![a] = "held"]
        /\ platform' = [platform EXCEPT ![a] = p]
        /\ holdLane' = [holdLane EXCEPT ![a] = l]
        /\ outerPrev' = [outerPrev EXCEPT ![a] = FALSE]
        /\ starting' = [starting EXCEPT ![l] = TRUE]
        /\ UNCHANGED <<innerPrev, running, laneRun, run, lock, sourceBusy, opPc>>
    <2>1. ~starting[l]
      <3>1. ASSUME starting[l] PROVE FALSE
        <4>1. PICK b \in Starters : Holds(b, l)
          BY <3>1 DEF ExclInv, HoldIsOwned
        <4>2. InHold(b)
          BY <4>1 DEF Holds, HoldsOuter, HoldsInner, InHold, OuterPc
        <4>3. holdLane[b] \in {Single, LaneOf(platform[b])} /\ holdLane[b] # l /\ holdLane[b] # Single
          BY <4>2, <1>2 DEF ExclInv, HoldBeforeRun
        <4>4. LaneOf(platform[b]) # l
          BY <4>3
        <4>5. QED
          BY <4>1, <4>3, <4>4 DEF Holds, HoldsOuter, HoldsInner
      <3>2. QED
        BY <3>1
    <2>2. starting[l] = FALSE
      BY <2>1 DEF TypeOK
    <2>3. QED
      BY <1>1, <2>2 DEF HeldCheck, EnterOuter, Goto, runVars, opVars
  <1> USE <1>3 DEF ExclInv, InHold, Alive, AliveState, TypeOK, OuterPc
  <1>4. HoldBeforeRun' /\ CheckedIsWs' /\ PreviousIsRight'
    <2>1. HoldBeforeRun' /\ CheckedIsWs'
      BY <1>1 DEF HoldBeforeRun, CheckedIsWs
    <2>2. \A b \in Starters : InHold(b)' => ~outerPrev'[b]
      BY DEF PreviousIsRight
    <2>3. \A b \in Starters : pc'[b] = "session" =>
              b # a /\ innerPrev'[b] = (holdLane'[b] = LaneOf(platform'[b]))
      BY DEF PreviousIsRight
    <2>4. QED
      BY <2>1, <2>2, <2>3 DEF PreviousIsRight
  <1>5. HoldsDisjoint' /\ HoldExcludesRun'
    <2>1. HoldsDisjoint'
      BY <1>1, <1>2 DEF HoldsDisjoint
    <2>2. HoldExcludesRun'
      BY <1>1, <1>2 DEF HoldExcludesRun
    <2>3. QED
      BY <2>1, <2>2
  <1>6. CancelReaches' /\ OneScanPerLane'
    BY DEF CancelReaches, OneScanPerLane
  <1>7. SourceExcludesScans' /\ SourceGateHeld' /\ SourceBusyIsOwned'
    BY <1>2 DEF SourceExcludesScans, SourceGateHeld, SourceBusyIsOwned
  <1>8. HoldIsOwned'
    BY StarterKinds DEF HoldIsOwned, Holds, HoldsOuter, HoldsInner
  <1>9. QED
    BY <1>4, <1>5, <1>6, <1>7, <1>8

\* Inside a hold, the steps before the scan begins change only the holder's own place.
LEMMA SessionExcl ==
    ASSUME TypeOK, ExclInv, WsClients = {}, NEW a \in Starters,
           HeldLoadSession(a) \/ HeldSessionDone(a) \/ InternalLock(a) \/ HeldReturn(a)
    PROVE  ExclInv'
  <1> USE DEF ExclInv, InHold, Alive, AliveState, TypeOK, OuterPc, Goto, gateVars, runVars, opVars
  <1> LaneOf(platform[a]) \in Lanes
    BY LaneTyping
  <1>1. /\ UNCHANGED <<platform, sourceBusy, opPc, running, laneRun, run, holdLane, outerPrev>>
        /\ \A b \in Starters : b # a => pc'[b] = pc[b] /\ innerPrev'[b] = innerPrev[b]
        /\ InHold(a) <=> InHold(a)'
        /\ pc'[a] \in {"idle", "locked", "session", "ready"}
        /\ pc[a] = "waiting" => pc'[a] = "idle"
        /\ InHold(a) => run[a] = "none"
    BY DEF HeldLoadSession, HeldSessionDone, InternalLock, HeldReturn, EnterInner, ExitInner,
           HoldBeforeRun
  <1>2. HoldBeforeRun' /\ CheckedIsWs' /\ HoldsDisjoint' /\ HoldExcludesRun'
    BY <1>1 DEF HoldBeforeRun, CheckedIsWs, HoldsDisjoint, HoldExcludesRun
  <1>3. CancelReaches' /\ OneScanPerLane'
    BY <1>1 DEF CancelReaches, OneScanPerLane
  <1>4. SourceExcludesScans' /\ SourceGateHeld' /\ SourceBusyIsOwned'
    BY <1>1 DEF SourceExcludesScans, SourceGateHeld, SourceBusyIsOwned
  <1>5. HoldIsOwned' /\ PreviousIsRight'
    <2>1. CASE HeldLoadSession(a)
      <3>1. starting[LaneOf(platform[a])] <=> holdLane[a] = LaneOf(platform[a])
        <4>1. ASSUME NEW b \in Starters, Holds(b, LaneOf(platform[a])), b # a PROVE FALSE
          BY <2>1, <4>1 DEF HeldLoadSession, HoldsDisjoint, HoldBeforeRun, Holds, HoldsOuter, HoldsInner
        <4>2. Holds(a, LaneOf(platform[a])) <=> holdLane[a] = LaneOf(platform[a])
          BY <2>1, StarterKinds DEF HeldLoadSession, Holds, HoldsOuter, HoldsInner
        <4>3. QED
          BY <4>1, <4>2 DEF HoldIsOwned
      <3>2. QED
        BY <2>1, <3>1, <1>1 DEF HeldLoadSession, EnterInner, HoldIsOwned, PreviousIsRight,
              Holds, HoldsOuter, HoldsInner
    <2>2. CASE HeldSessionDone(a)
      BY <2>2, <1>1 DEF HeldSessionDone, ExitInner, HoldIsOwned, PreviousIsRight, HoldsDisjoint,
            HoldBeforeRun, Holds, HoldsOuter, HoldsInner
    <2>3. CASE InternalLock(a) \/ HeldReturn(a)
      BY <2>3, <1>1 DEF InternalLock, HeldReturn, HoldIsOwned, PreviousIsRight,
            Holds, HoldsOuter, HoldsInner
    <2>4. QED
      BY <2>1, <2>2, <2>3
  <1>6. QED
    BY <1>2, <1>3, <1>4, <1>5

\* Leaving a hold: the scan it announced, if any, keeps the lane busy by itself.
LEMMA ExitExcl ==
    ASSUME TypeOK, ExclInv, WsClients = {}, NEW a \in Starters, InHold(a), pc[a] # "session",
           ExitOuter(a), pc'[a] \in {"idle", "waiting"},
           \A b \in Starters : b # a => pc'[b] = pc[b],
           UNCHANGED <<platform, sourceBusy, opPc, running, laneRun, run>>
    PROVE  ExclInv'
  <1> USE DEF ExclInv, InHold, Alive, AliveState, TypeOK, OuterPc
  <1>1. starting' = [starting EXCEPT ![holdLane[a]] = FALSE]
    <2>1. outerPrev[a] = FALSE
      BY DEF PreviousIsRight
    <2>2. QED
      BY <2>1 DEF ExitOuter
  <1>2. HoldBeforeRun' /\ CheckedIsWs' /\ HoldsDisjoint' /\ HoldExcludesRun'
    BY DEF ExitOuter, HoldBeforeRun, CheckedIsWs, HoldsDisjoint, HoldExcludesRun
  <1>3. CancelReaches' /\ OneScanPerLane'
    BY DEF CancelReaches, OneScanPerLane
  <1>4. SourceExcludesScans' /\ SourceGateHeld' /\ SourceBusyIsOwned'
    BY DEF SourceExcludesScans, SourceGateHeld, SourceBusyIsOwned
  <1>5. PreviousIsRight'
    BY DEF ExitOuter, PreviousIsRight
  <1>6. HoldIsOwned'
    BY <1>1, StarterKinds
       DEF ExitOuter, HoldIsOwned, Holds, HoldsOuter, HoldsInner, HoldsDisjoint, HoldBeforeRun
  <1>7. QED
    BY <1>2, <1>3, <1>4, <1>5, <1>6

\* Beginning a scan inside a hold: nobody else holds its lane or scans in it.
LEMMA BeginExcl ==
    ASSUME TypeOK, ExclInv, WsClients = {}, NEW a \in Starters, HeldBegin(a)
    PROVE  ExclInv'
  <1> USE DEF ExclInv, InHold, Alive, AliveState, TypeOK, OuterPc, HeldBegin, BeginRun, Goto,
              gateVars, opVars
  <1> LaneOf(platform[a]) \in Lanes
    BY LaneTyping
  <1>1. \A b \in Starters : b # a /\ Alive(b) => LaneOf(platform[b]) # LaneOf(platform[a])
    BY DEF HoldExcludesRun
  <1>2. \A b \in Starters : b # a /\ InHold(b) =>
            holdLane[b] # Single /\ LaneOf(platform[b]) # LaneOf(platform[a])
    BY DEF HoldsDisjoint, HoldBeforeRun
  <1>3. HoldBeforeRun' /\ CheckedIsWs' /\ HoldsDisjoint'
    BY DEF HoldBeforeRun, CheckedIsWs, HoldsDisjoint
  <1>4. HoldExcludesRun'
    BY <1>2 DEF HoldExcludesRun
  <1>5. CancelReaches' /\ OneScanPerLane'
    BY <1>1 DEF CancelReaches, OneScanPerLane
  <1>6. SourceExcludesScans' /\ SourceGateHeld' /\ SourceBusyIsOwned'
    BY DEF SourceExcludesScans, SourceGateHeld, SourceBusyIsOwned
  <1>7. PreviousIsRight'
    BY DEF PreviousIsRight
  <1>8. HoldIsOwned'
    BY StarterKinds DEF HoldIsOwned, Holds, HoldsOuter, HoldsInner
  <1>9. QED
    BY <1>3, <1>4, <1>5, <1>6, <1>7, <1>8

\* An internal scan begins and leaves its hold in one step.
LEMMA InternalBeginExcl ==
    ASSUME TypeOK, ExclInv, WsClients = {}, NEW a \in Starters, InternalBegin(a)
    PROVE  ExclInv'
  <1> USE DEF ExclInv, InHold, Alive, AliveState, TypeOK, OuterPc, InternalBegin, BeginRun, Goto, opVars
  <1> LaneOf(platform[a]) \in Lanes
    BY LaneTyping
  <1>1. starting' = [starting EXCEPT ![holdLane[a]] = FALSE]
    <2>1. outerPrev[a] = FALSE
      BY DEF PreviousIsRight
    <2>2. QED
      BY <2>1 DEF ExitOuter
  <1>2. \A b \in Starters : b # a /\ Alive(b) => LaneOf(platform[b]) # LaneOf(platform[a])
    BY DEF HoldExcludesRun
  <1>3. \A b \in Starters : b # a /\ InHold(b) =>
            holdLane[b] # Single /\ LaneOf(platform[b]) # LaneOf(platform[a])
    BY DEF HoldsDisjoint, HoldBeforeRun
  <1>4. HoldBeforeRun' /\ CheckedIsWs' /\ HoldsDisjoint'
    BY DEF ExitOuter, HoldBeforeRun, CheckedIsWs, HoldsDisjoint
  <1>5. HoldExcludesRun'
    BY <1>3 DEF ExitOuter, HoldExcludesRun
  <1>6. CancelReaches' /\ OneScanPerLane'
    BY <1>2 DEF CancelReaches, OneScanPerLane
  <1>7. SourceExcludesScans' /\ SourceGateHeld' /\ SourceBusyIsOwned'
    BY DEF SourceExcludesScans, SourceGateHeld, SourceBusyIsOwned
  <1>8. PreviousIsRight'
    BY DEF ExitOuter, PreviousIsRight
  <1>9. HoldIsOwned'
    BY <1>1, StarterKinds
       DEF ExitOuter, HoldIsOwned, Holds, HoldsOuter, HoldsInner, HoldsDisjoint, HoldBeforeRun
  <1>10. QED
    BY <1>4, <1>5, <1>6, <1>7, <1>8, <1>9

\* A step of a start inside its hold keeps every exclusion.
LEMMA HeldExcl ==
    ASSUME TypeOK, ExclInv, WsClients = {}, NEW a \in Starters, HeldStep(a) \/ InternalStep(a)
    PROVE  ExclInv'
  <1>1. CASE HeldLoadSession(a) \/ HeldSessionDone(a) \/ InternalLock(a) \/ HeldReturn(a)
    BY <1>1, SessionExcl
  <1>2. CASE HeldFail(a) \/ HeldRelease(a) \/ InternalRowFail(a)
    <2>1. /\ InHold(a) /\ pc[a] # "session" /\ ExitOuter(a)
          /\ pc'[a] \in {"idle", "waiting"}
          /\ \A b \in Starters : b # a => pc'[b] = pc[b]
          /\ UNCHANGED <<platform, sourceBusy, opPc, running, laneRun, run>>
      BY <1>2 DEF HeldFail, HeldRelease, InternalRowFail, Goto, TypeOK, InHold, OuterPc, runVars, opVars
    <2>2. QED
      BY <2>1, ExitExcl
  <1>3. CASE HeldBegin(a)
    BY <1>3, BeginExcl
  <1>4. CASE InternalBegin(a)
    BY <1>4, InternalBeginExcl
  <1>5. QED
    BY <1>1, <1>2, <1>3, <1>4 DEF HeldStep, InternalStep

\* Every step keeps every exclusion when no start skips its hold.
LEMMA ExclNext == WsClients = {} /\ GateInv /\ [Next]_vars => ExclInv'
  <1> SUFFICES ASSUME WsClients = {}, TypeOK, ExclInv, [Next]_vars PROVE ExclInv'
    BY DEF GateInv
  <1> USE StarterKinds
  <1>1. CASE UNCHANGED vars
    BY <1>1 DEF vars, ExclInv, HoldBeforeRun, CheckedIsWs, HoldsDisjoint, HoldExcludesRun,
          PreviousIsRight, HoldIsOwned, CancelReaches, OneScanPerLane, SourceExcludesScans,
          SourceGateHeld, SourceBusyIsOwned, Holds, HoldsOuter, HoldsInner, InHold, Alive
  <1>2. CASE \E o \in SourceOps : SourceBegin(o) \/ SourceEnd(o)
    BY <1>2, SourceExcl
  <1>3. CASE \E a \in Jobs : HeldStep(a) \/ \E p \in Platforms : JobCheck(a, p)
    BY <1>3, HeldExcl, CheckExcl
  <1>4. CASE \E a \in Resumers :
               HeldStep(a) \/ \E p \in Platforms : ResumeCheckSingle(a, p) \/ ResumeCheckLane(a, p)
    BY <1>4, HeldExcl, CheckExcl
  <1>5. CASE \E a \in Internals : InternalStep(a) \/ \E p \in Platforms : InternalCheck(a, p)
    BY <1>5, HeldExcl, CheckExcl, GateAssumption
  <1>6. CASE \E a \in Starters : RunStep(a) \/ CancelUnstarted(a)
    BY <1>6, RunExcl
  <1>7. QED
    BY <1>1, <1>2, <1>3, <1>4, <1>5, <1>6 DEF Next

\* The inductive invariant of the gate: without /ws starts, holds of one lane never overlap, leaving
\* a hold restores what it found, and no scan is alive beside a hold of its lane.
THEOREM GateInvariant == ASSUME WsClients = {} PROVE Spec => []GateInv
  <1>1. Init => GateInv
    BY TypeInit, ExclInit DEF GateInv
  <1>2. GateInv /\ [Next]_vars => GateInv'
    BY TypeNext, ExclNext DEF GateInv
  <1>3. QED
    BY <1>1, <1>2, PTL DEF Spec

\* Without /ws starts, a lane never runs two scans.
THEOREM LanesExclude == ASSUME WsClients = {} PROVE Spec => []OneScanPerLane
  <1>1. GateInv => OneScanPerLane
    BY DEF GateInv, ExclInv
  <1>2. QED
    BY <1>1, GateInvariant, PTL

\* Without /ws starts, no scan and no start overlaps a source mutation.
THEOREM SourceExclude == ASSUME WsClients = {} PROVE Spec => []SourceExcludesScans
  <1>1. GateInv => SourceExcludesScans
    BY DEF GateInv, ExclInv
  <1>2. QED
    BY <1>1, GateInvariant, PTL

\* Without /ws starts, the start hold of a lane is never dropped early and never left behind.
THEOREM HoldsOwned == ASSUME WsClients = {} PROVE Spec => []HoldIsOwned
  <1>1. GateInv => HoldIsOwned
    BY DEF GateInv, ExclInv
  <1>2. QED
    BY <1>1, GateInvariant, PTL

-----------------------------------------------------------------------------
(* The advisory lock, whoever starts the scans.                            *)

\* The advisory lock starts free.
LEMMA LockInit == Init => LockInv
  BY TypeInit DEF Init, LockInv, RunAfterStart, LockFollowsRun, HasLock, Alive, AliveState

\* Steps that leave the tasks, the lock and the platforms of running scans alone.
LEMMA LockFrame ==
    ASSUME LockInv, TypeOK', NEW a \in Starters,
           run[a] = "none" \/ pc'[a] \in {"idle", "waiting", "started"},
           \A b \in Starters : b # a => pc'[b] = pc[b] /\ platform'[b] = platform[b],
           platform'[a] = platform[a] \/ (pc[a] = "idle" /\ run[a] = "none" /\ pc'[a] # "locked"),
           pc'[a] = "locked" => pc[a] = "locked",
           UNCHANGED <<lock, run>>
    PROVE  LockInv'
  BY DEF LockInv, TypeOK, RunAfterStart, LockFollowsRun, HasLock, Alive, AliveState

\* Beginning a scan: only an internal one needs the lock already, and it has taken it.
LEMMA LockBegin ==
    ASSUME LockInv, TypeOK', NEW a \in Starters, BeginRun(a), pc[a] # "idle",
           pc'[a] \in {"idle", "waiting", "started"},
           a \in Internals => pc[a] = "locked",
           \A b \in Starters : b # a => pc'[b] = pc[b],
           UNCHANGED <<lock, platform>>
    PROVE  LockInv'
  BY DEF LockInv, TypeOK, RunAfterStart, LockFollowsRun, HasLock, Alive, AliveState, BeginRun

\* A /ws start never touches the lock.
LEMMA LockWs ==
    ASSUME LockInv, TypeOK', NEW a \in WsClients,
           WsStep(a) \/ \E p \in Platforms : WsCheck(a, p)
    PROVE  LockInv'
  <1> a \in Starters /\ a \notin Internals
    BY StarterKinds, GateAssumption
  <1> DEFINE Typed == /\ pc \in [Starters -> StarterPc] /\ platform \in [Starters -> Platforms]
                     /\ \A b \in Starters :
                           pc[b] \in {"checked", "held", "locked", "session", "ready"} => run[b] = "none"
  <1>t. Typed
    BY DEF LockInv, TypeOK, RunAfterStart
  <1> USE DEF Goto, gateVars, runVars, opVars
  <1>1. CASE (\E p \in Platforms : WsCheck(a, p)) \/ WsLoadSession(a) \/ WsReject(a)
    BY <1>1, <1>t, LockFrame DEF WsCheck, WsLoadSession, WsReject
  <1>2. CASE WsBegin(a)
    BY <1>2, <1>t, LockBegin DEF WsBegin
  <1>3. CASE WsSessionLoaded(a)
    <2>1. CASE BeginRun(a) /\ Goto(a, "idle")
      BY <1>3, <1>t, <2>1, LockBegin DEF WsSessionLoaded
    <2>2. CASE UNCHANGED <<running, laneRun, run>> /\ (Goto(a, "ready") \/ Goto(a, "idle"))
      BY <1>3, <1>t, <2>2, LockFrame DEF WsSessionLoaded
    <2>3. QED
      BY <1>3, <2>1, <2>2 DEF WsSessionLoaded
  <1>4. QED
    BY <1>1, <1>2, <1>3 DEF WsStep

\* Starts inside their hold: internal_scan takes the lock for its run or gives it back.
LEMMA LockHeld ==
    ASSUME LockInv, TypeOK', NEW a \in Starters,
           (HeldStep(a) /\ a \notin Internals) \/ (InternalStep(a) /\ a \in Internals)
    PROVE  LockInv'
  <1> DEFINE Typed == /\ pc \in [Starters -> StarterPc] /\ platform \in [Starters -> Platforms]
                     /\ \A b \in Starters :
                           pc[b] \in {"checked", "held", "locked", "session", "ready"} => run[b] = "none"
  <1>t. Typed
    BY DEF LockInv, TypeOK, RunAfterStart
  <1> USE DEF Goto, gateVars, runVars, opVars
  <1>1. CASE HeldFail(a) \/ HeldLoadSession(a) \/ HeldSessionDone(a)
    BY <1>1, <1>t, LockFrame DEF HeldFail, HeldLoadSession, HeldSessionDone
  <1>2. CASE HeldRelease(a) \/ HeldReturn(a)
    <2>1. /\ pc'[a] \in {"idle", "waiting", "started"}
          /\ pc'[a] = "locked" => pc[a] = "locked"
          /\ \A b \in Starters : b # a => pc'[b] = pc[b] /\ platform'[b] = platform[b]
          /\ platform'[a] = platform[a]
          /\ UNCHANGED <<lock, run>>
      BY <1>2, <1>t DEF HeldRelease, HeldReturn
    <2>2. QED
      BY <2>1, LockFrame
  <1>3. CASE HeldBegin(a) /\ a \notin Internals
    BY <1>3, <1>t, LockBegin DEF HeldBegin
  <1>4. CASE InternalBegin(a)
    BY <1>4, <1>t, LockBegin DEF InternalBegin
  <1>5. CASE InternalLock(a)
    BY <1>5, StarterKinds DEF InternalLock, LockInv, TypeOK, RunAfterStart, LockFollowsRun, HasLock, Alive, AliveState
  <1>6. CASE InternalRowFail(a) /\ a \in Internals
    <2>1. Postgres /\ a \in Internals => lock[platform[a]] = a
      BY <1>6 DEF InternalRowFail, LockInv, LockFollowsRun
    <2>2. QED
      BY <1>6, <2>1 DEF InternalRowFail, LockInv, TypeOK, RunAfterStart, LockFollowsRun, HasLock, Alive, AliveState
  <1>7. QED
    BY <1>1, <1>2, <1>3, <1>4, <1>5, <1>6 DEF HeldStep, InternalStep

\* A scan task scans only with the lock in its hands, and gives up only its own.
LEMMA LockRun ==
    ASSUME LockInv, TypeOK', NEW a \in Starters, RunStep(a) \/ CancelUnstarted(a)
    PROVE  LockInv'
  <1>1. RunAfterStart'
    BY RunOnlyEnds DEF LockInv, RunAfterStart, TypeOK
  <1> USE DEF LockInv, TypeOK, RunState, SetRun, LockFollowsRun, HasLock, Alive, AliveState,
              gateVars, opVars
  <1>2. CASE RunFirstStep(a) \/ RunFailEarly(a) \/ RunTerminal(a) \/ FinalizeCheck(a)
             \/ FinalizeBroadcast(a) \/ CancelUnstarted(a)
    BY <1>1, <1>2 DEF RunFirstStep, RunFailEarly, RunTerminal, FinalizeCheck, FinalizeBroadcast,
          CancelUnstarted
  <1>3. CASE RunOpen(a)
    BY <1>1, <1>3, StarterKinds DEF RunOpen
  <1>4. CASE RunPassesEnd(a)
    BY <1>1, <1>4 DEF RunPassesEnd
  <1>5. CASE RunReturn(a)
    BY <1>1, <1>5 DEF RunReturn, RunAfterStart
  <1>6. CASE RunBegin(a) \/ RunBeginFail(a)
    BY <1>1, <1>6, StarterKinds DEF RunBegin, RunBeginFail
  <1>7. QED
    BY <1>2, <1>3, <1>4, <1>5, <1>6 DEF RunStep

\* Every step keeps the lock with the run that uses it.
LEMMA LockNext == LockInv /\ [Next]_vars => LockInv'
  <1> SUFFICES ASSUME LockInv, [Next]_vars PROVE LockInv'
    OBVIOUS
  <1>1. TypeOK'
    BY TypeNext DEF LockInv
  <1> USE <1>1, StarterKinds
  <1>2. CASE UNCHANGED vars
    BY <1>2 DEF vars, LockInv, RunAfterStart, LockFollowsRun, HasLock, Alive
  <1>3. CASE \E o \in SourceOps : SourceBegin(o) \/ SourceEnd(o)
    BY <1>3 DEF SourceBegin, SourceEnd, runVars, LockInv, RunAfterStart, LockFollowsRun, HasLock, Alive
  <1>4. CASE \E a \in WsClients : WsStep(a) \/ \E p \in Platforms : WsCheck(a, p)
    BY <1>4, LockWs
  <1>5. ASSUME NEW a \in Starters, NEW p \in Platforms,
               JobCheck(a, p) \/ ResumeCheckSingle(a, p) \/ ResumeCheckLane(a, p) \/ InternalCheck(a, p)
        PROVE  LockInv'
    <2>1. PICK l : HeldCheck(a, p, l)
      BY <1>5 DEF JobCheck, ResumeCheckSingle, ResumeCheckLane, InternalCheck
    <2>2. QED
      BY <2>1, LockFrame DEF HeldCheck, Goto, LockInv, TypeOK, runVars
  <1>h. ASSUME NEW a \in Jobs \cup Resumers, HeldStep(a)
        PROVE  LockInv'
    <2>1. a \in Starters /\ a \notin Internals
      OBVIOUS
    <2>2. QED
      BY <1>h, <2>1, LockHeld
  <1>6. CASE \E a \in Jobs : HeldStep(a) \/ \E p \in Platforms : JobCheck(a, p)
    BY <1>5, <1>6, <1>h
  <1>7. CASE \E a \in Resumers :
               HeldStep(a) \/ \E p \in Platforms : ResumeCheckSingle(a, p) \/ ResumeCheckLane(a, p)
    BY <1>5, <1>7, <1>h
  <1>8. CASE \E a \in Internals : InternalStep(a) \/ \E p \in Platforms : InternalCheck(a, p)
    BY <1>5, <1>8, LockHeld
  <1>9. CASE \E a \in Starters : RunStep(a) \/ CancelUnstarted(a)
    BY <1>9, LockRun
  <1>10. QED
    BY <1>2, <1>3, <1>4, <1>6, <1>7, <1>8, <1>9 DEF Next

\* Two scans of one platform never both read and write its rows on Riviu Data storage, even
\* when a /ws start slips past the gate.
THEOREM LockExclude == Spec => []LockExcludesScans
  <1>1. LockInv => LockExcludesScans
    BY DEF LockInv, LockExcludesScans, LockFollowsRun, HasLock, Scanning
  <1>2. QED
    BY <1>1, LockInit, LockNext, PTL DEF Spec

-----------------------------------------------------------------------------
(* The owner of the advisory lock.                                         *)

\* A StoreRun has the lock of its platform only between taking it and giving it back, in open or close.
OwnerScans ==
    \A p \in Platforms : lock[p] \in Starters \ Internals =>
        Postgres /\ platform[lock[p]] = p /\ HasLock(lock[p])

OwnerInv == LockInv /\ OwnerScans

\* Steps that give the lock to no StoreRun and leave the runs that have it alone.
LEMMA OwnerFrame ==
    ASSUME OwnerScans,
           \A p \in Platforms : lock'[p] \in Starters \ Internals => lock'[p] = lock[p],
           \A b \in Starters : HasLock(b) => HasLock(b)' /\ platform'[b] = platform[b]
    PROVE  OwnerScans'
  BY DEF OwnerScans

\* A start never touches a scan under way.
LEMMA OwnerStarts ==
    ASSUME OwnerInv, NEW a \in Starters,
           WsStep(a) \/ HeldStep(a) \/ (InternalStep(a) /\ a \in Internals)
             \/ \E p \in Platforms : \/ WsCheck(a, p) \/ JobCheck(a, p) \/ InternalCheck(a, p)
                                     \/ ResumeCheckSingle(a, p) \/ ResumeCheckLane(a, p)
    PROVE  OwnerScans'
  <1> USE DEF gateVars, runVars, opVars, Goto
  <1>1. TypeOK /\ RunAfterStart /\ OwnerScans
    BY DEF OwnerInv, LockInv
  <1>2. CASE WsStep(a) \/ HeldStep(a) \/ (InternalStep(a) /\ a \in Internals)
    <2>1. \A p \in Platforms : lock'[p] \in Starters \ Internals => lock'[p] = lock[p]
      BY <1>1, <1>2, StarterKinds
         DEF WsStep, WsLoadSession, WsBegin, WsSessionLoaded, WsReject, HeldStep, HeldFail, HeldLoadSession,
             HeldSessionDone, HeldBegin, HeldRelease, HeldReturn, InternalStep, InternalLock, InternalRowFail,
             InternalBegin, TypeOK
    <2>2. platform' = platform /\ (run' = run \/ (run[a] = "none" /\ run' = [run EXCEPT ![a] = "created"]))
      BY <1>1, <1>2
         DEF WsStep, WsLoadSession, WsBegin, WsSessionLoaded, WsReject, HeldStep, HeldFail, HeldLoadSession,
             HeldSessionDone, HeldBegin, HeldRelease, HeldReturn, InternalStep, InternalLock, InternalRowFail,
             InternalBegin, BeginRun, RunAfterStart
    <2>3. \A b \in Starters : HasLock(b) => HasLock(b)' /\ platform'[b] = platform[b]
      BY <1>1, <2>2 DEF HasLock, TypeOK
    <2>4. QED
      BY <1>1, <2>1, <2>3, OwnerFrame
  <1>3. CASE \E p \in Platforms : \/ WsCheck(a, p) \/ JobCheck(a, p) \/ InternalCheck(a, p)
                                  \/ ResumeCheckSingle(a, p) \/ ResumeCheckLane(a, p)
    <2>1. run[a] = "none" /\ UNCHANGED <<run, lock>> /\ \E p \in Platforms : platform' = [platform EXCEPT ![a] = p]
      BY <1>3 DEF WsCheck, JobCheck, InternalCheck, ResumeCheckSingle, ResumeCheckLane, HeldCheck
    <2>2. QED
      BY <1>1, <2>1, OwnerFrame DEF HasLock, TypeOK
  <1>4. QED
    BY <1>2, <1>3

\* StoreRun.open takes the lock, and gives it back if the row is not written; StoreRun.close gives it back
\* as the passes end.
LEMMA OwnerRun ==
    ASSUME OwnerInv, NEW a \in Starters, RunStep(a) \/ CancelUnstarted(a)
    PROVE  OwnerScans'
  <1> USE DEF SetRun, gateVars, opVars, HasLock
  <1>1. TypeOK /\ OwnerScans
    BY DEF OwnerInv, LockInv
  <1>2. CASE RunFirstStep(a) \/ RunFailEarly(a) \/ RunTerminal(a) \/ FinalizeCheck(a)
             \/ FinalizeBroadcast(a) \/ CancelUnstarted(a)
    BY <1>1, <1>2, OwnerFrame DEF RunFirstStep, RunFailEarly, RunTerminal, FinalizeCheck, FinalizeBroadcast,
          CancelUnstarted, TypeOK
  <1>3. CASE RunOpen(a)
    BY <1>1, <1>3 DEF RunOpen, OwnerScans, TypeOK
  <1>4. CASE RunPassesEnd(a)
    BY <1>1, <1>4, StarterKinds DEF RunPassesEnd, OwnerScans, TypeOK
  <1>5. CASE RunReturn(a)
    <2>1. \A p \in Platforms : lock'[p] \in Starters \ Internals => lock'[p] = lock[p]
      BY <1>1, <1>5, StarterKinds DEF RunReturn, TypeOK
    <2>2. QED
      BY <1>1, <1>5, <2>1, OwnerFrame DEF RunReturn, TypeOK
  <1>6. CASE RunBegin(a)
    BY <1>1, <1>6, OwnerFrame DEF RunBegin, TypeOK
  <1>7. CASE RunBeginFail(a)
    BY <1>1, <1>7, StarterKinds DEF RunBeginFail, OwnerScans, TypeOK
  <1>8. QED
    BY <1>2, <1>3, <1>4, <1>5, <1>6, <1>7 DEF RunStep

LEMMA OwnerNext == OwnerInv /\ [Next]_vars => OwnerInv'
  <1> SUFFICES ASSUME OwnerInv, [Next]_vars PROVE OwnerScans'
    BY LockNext DEF OwnerInv
  <1> USE StarterKinds
  <1>1. CASE UNCHANGED vars \/ \E o \in SourceOps : SourceBegin(o) \/ SourceEnd(o)
    BY <1>1, OwnerFrame DEF vars, SourceBegin, SourceEnd, runVars, OwnerInv, HasLock
  <1>2. CASE \E a \in WsClients : WsStep(a) \/ \E p \in Platforms : WsCheck(a, p)
    BY <1>2, OwnerStarts
  <1>3. CASE \E a \in Jobs : HeldStep(a) \/ \E p \in Platforms : JobCheck(a, p)
    BY <1>3, OwnerStarts
  <1>4. CASE \E a \in Resumers :
               HeldStep(a) \/ \E p \in Platforms : ResumeCheckSingle(a, p) \/ ResumeCheckLane(a, p)
    BY <1>4, OwnerStarts
  <1>5. CASE \E a \in Internals : InternalStep(a) \/ \E p \in Platforms : InternalCheck(a, p)
    BY <1>5, OwnerStarts
  <1>6. CASE \E a \in Starters : RunStep(a) \/ CancelUnstarted(a)
    BY <1>6, OwnerRun
  <1>7. QED
    BY <1>1, <1>2, <1>3, <1>4, <1>5, <1>6 DEF Next

\* A StoreRun keeps the lock of its platform only while its task is alive, whoever starts the scans and
\* whatever way out the tasks take.
THEOREM LockOwned == Spec => []LockIsOwned
  <1>1. Init => OwnerInv
    BY LockInit, StarterKinds DEF Init, OwnerInv, OwnerScans
  <1>2. OwnerInv => LockIsOwned
    BY DEF OwnerInv, OwnerScans, LockIsOwned, HasLock, Alive, AliveState
  <1>3. QED
    BY <1>1, <1>2, OwnerNext, PTL DEF Spec

\* With /ws starts included, the lock of a platform lets in one scan at a time, and whatever way a store run
\* ends, it leaves its lock to the next.
THEOREM LockStays == Spec => []LockSound
  <1>1. LockExcludesScans /\ LockIsOwned => LockSound
    BY DEF LockSound
  <1>2. QED
    BY <1>1, LockExclude, LockOwned, PTL

-----------------------------------------------------------------------------
(* What a lane shows.                                                      *)

\* Runs that have begun and not announced their end, and those whose task never ran, until their done
\* callback has told the page.
Shown == {"created", "opening", "locked", "scanning", "closing", "cancelled", "finalizing"}
Unran == {"cancelled", "finalizing"}

\* A lane shows each of these, and points to it; so nobody is inside a hold of its lane either.
ShownInv ==
    /\ \A b \in Starters : run[b] \in Shown => laneRun[LaneOf(platform[b])] = b /\ running[LaneOf(platform[b])]
    /\ \A a, b \in Starters :
          a # b /\ InHold(a) /\ run[b] \in Unran => holdLane[a] # Single /\ LaneOf(platform[a]) # LaneOf(platform[b])

\* Steps that leave the runs and their lanes alone, and take no hold.
LEMMA ShownFrame ==
    ASSUME ShownInv, UNCHANGED <<running, laneRun, run, platform, holdLane>>,
           \A b \in Starters : InHold(b)' => InHold(b)
    PROVE  ShownInv'
  BY DEF ShownInv

\* A hold is taken only where no lane shows a run.
LEMMA CheckShown ==
    ASSUME TypeOK, ShownInv, NEW a \in Starters, NEW p \in Platforms,
           JobCheck(a, p) \/ ResumeCheckSingle(a, p) \/ ResumeCheckLane(a, p) \/ (Postgres /\ InternalCheck(a, p))
    PROVE  ShownInv'
  <1>1. PICK l \in Lanes : HeldCheck(a, p, l) /\ (ResumeCheckSingle(a, p) \/ (l = LaneOf(p) /\ ~ScanRunning(p)))
    BY LaneTyping DEF JobCheck, ResumeCheckSingle, ResumeCheckLane, InternalCheck, LaneOf, StartBlocked
  <1>2. \A b \in Starters : run[b] \in Shown => l # Single /\ LaneOf(platform[b]) # LaneOf(p)
    <2> SUFFICES ASSUME NEW b \in Starters, run[b] \in Shown PROVE l # Single /\ LaneOf(platform[b]) # LaneOf(p)
      OBVIOUS
    <2>1. running[LaneOf(platform[b])] /\ LaneOf(platform[b]) \in ScanLanes
      BY LaneTyping DEF ShownInv, TypeOK
    <2>2. ~ResumeCheckSingle(a, p)
      BY <2>1 DEF ResumeCheckSingle, SourceMutationBlocked, AnyScanRunning, LaneBusy
    <2>3. l = LaneOf(p) /\ ~running[LaneOf(p)]
      BY <1>1, <2>2 DEF ScanRunning, LaneBusy
    <2>4. LaneOf(p) # Single \/ LaneOf(platform[b]) = LaneOf(p)
      BY GateAssumption DEF LaneOf
    <2>5. QED
      BY <2>1, <2>3, <2>4
  <1>3. /\ run[a] = "none" /\ UNCHANGED <<running, laneRun, run>>
        /\ platform' = [platform EXCEPT ![a] = p] /\ holdLane' = [holdLane EXCEPT ![a] = l]
        /\ \A b \in Starters : b # a => pc'[b] = pc[b]
    BY <1>1 DEF HeldCheck, EnterOuter, Goto, runVars, TypeOK
  <1>4. \A b \in Starters : b # a => platform'[b] = platform[b] /\ holdLane'[b] = holdLane[b]
    BY <1>3 DEF TypeOK
  <1>5. platform'[a] = p /\ holdLane'[a] = l
    BY <1>3 DEF TypeOK
  <1>6. \A b \in Starters : run'[b] \in Shown => laneRun'[LaneOf(platform'[b])] = b /\ running'[LaneOf(platform'[b])]
    BY <1>3, <1>4 DEF ShownInv, Shown
  <1>7. ASSUME NEW c \in Starters, NEW b \in Starters, c # b, InHold(c)', run'[b] \in Unran
        PROVE  holdLane'[c] # Single /\ LaneOf(platform'[c]) # LaneOf(platform'[b])
    <2>1. b # a /\ run[b] \in Shown /\ run[b] \in Unran
      BY <1>3, <1>7 DEF Shown, Unran
    <2>2. CASE c = a
      BY <1>2, <1>4, <1>5, <2>1, <2>2
    <2>3. CASE c # a
      BY <1>3, <1>4, <1>7, <2>1, <2>3 DEF ShownInv, InHold
    <2>4. QED
      BY <2>2, <2>3
  <1>8. QED
    BY <1>6, <1>7 DEF ShownInv

\* A scan begins only in a lane that shows no other.
LEMMA BeginShown ==
    ASSUME TypeOK, ExclInv, ShownInv, NEW a \in Starters, HeldBegin(a) \/ InternalBegin(a)
    PROVE  ShownInv'
  <1> DEFINE l == LaneOf(platform[a])
  <1>1. /\ UNCHANGED <<platform, holdLane>> /\ InHold(a) /\ l \in Lanes
        /\ running' = [running EXCEPT ![l] = TRUE] /\ laneRun' = [laneRun EXCEPT ![l] = a]
        /\ run' = [run EXCEPT ![a] = "created"] /\ \A b \in Starters : InHold(b)' => InHold(b)
    BY LaneTyping DEF HeldBegin, InternalBegin, BeginRun, ExitOuter, gateVars, Goto, InHold, OuterPc, TypeOK
  <1>2. \A b \in Starters : b # a /\ run[b] \in Shown => LaneOf(platform[b]) # l
    <2> SUFFICES ASSUME NEW b \in Starters, b # a, run[b] \in Shown PROVE LaneOf(platform[b]) # l
      OBVIOUS
    <2>1. Alive(b) \/ run[b] \in Unran
      BY DEF Alive, AliveState, Shown, Unran
    <2>2. QED
      BY <1>1, <2>1 DEF ExclInv, HoldExcludesRun, ShownInv
  <1>3. \A b \in Starters : b # a => run'[b] = run[b] /\ LaneOf(platform[b]) \in Lanes
    BY <1>1, LaneTyping DEF TypeOK
  <1>4. run'[a] = "created" /\ running'[l] /\ laneRun'[l] = a
        /\ \A k \in Lanes : k # l => running'[k] = running[k] /\ laneRun'[k] = laneRun[k]
    BY <1>1 DEF TypeOK
  <1>5. \A b \in Starters : run'[b] \in Shown => laneRun'[LaneOf(platform[b])] = b /\ running'[LaneOf(platform[b])]
    BY <1>2, <1>3, <1>4 DEF ShownInv
  <1>6. \A b \in Starters : run'[b] \in Unran => run[b] \in Unran
    BY <1>3, <1>4 DEF Unran
  <1>7. QED
    BY <1>1, <1>5, <1>6 DEF ShownInv

\* A lane stops showing a run only when it is that run that ends.
LEMMA RunShown ==
    ASSUME TypeOK, ExclInv, ShownInv, NEW a \in Starters, RunStep(a) \/ CancelUnstarted(a)
    PROVE  ShownInv'
  <1> DEFINE l == LaneOf(platform[a])
  <1>1. UNCHANGED <<laneRun, pc, platform, holdLane>> /\ l \in Lanes
    BY RunOnlyEnds, LaneTyping DEF gateVars, TypeOK
  <1>2. \A b \in Starters : b # a => run'[b] = run[b]
    BY DEF RunStep, RunFirstStep, RunOpen, RunFailEarly, RunBegin, RunBeginFail, RunPassesEnd, RunTerminal, RunReturn, FinalizeCheck,
           FinalizeBroadcast, CancelUnstarted, SetRun, TypeOK
  <1>3. run'[a] \in Unran => run[a] \in Unran \/ Alive(a)
    BY DEF RunStep, RunFirstStep, RunOpen, RunFailEarly, RunBegin, RunBeginFail, RunPassesEnd, RunTerminal, RunReturn, FinalizeCheck,
           FinalizeBroadcast, CancelUnstarted, SetRun, TypeOK, Unran, Alive, AliveState
  <1>4. \A c, b \in Starters :
          c # b /\ InHold(c)' /\ run'[b] \in Unran => holdLane'[c] # Single /\ LaneOf(platform'[c]) # LaneOf(platform'[b])
    BY <1>1, <1>2, <1>3 DEF ShownInv, ExclInv, HoldExcludesRun, InHold
  <1>5. \A b \in Starters : run'[b] \in Shown => laneRun'[LaneOf(platform'[b])] = b /\ running'[LaneOf(platform'[b])]
    <2>1. CASE RunTerminal(a) \/ FinalizeBroadcast(a)
      <3>1. running' = [running EXCEPT ![l] = FALSE] /\ run[a] \in Shown /\ run'[a] \notin Shown
        BY <2>1 DEF RunTerminal, FinalizeBroadcast, SetRun, Shown, TypeOK
      <3>2. laneRun[l] = a
        BY <3>1 DEF ShownInv
      <3> SUFFICES ASSUME NEW b \in Starters, b # a, run[b] \in Shown
                   PROVE  laneRun[LaneOf(platform[b])] = b /\ running'[LaneOf(platform[b])]
        BY <1>1, <1>2, <3>1
      <3>3. laneRun[LaneOf(platform[b])] = b /\ running[LaneOf(platform[b])] /\ LaneOf(platform[b]) # l
        BY <3>2 DEF ShownInv
      <3>4. QED
        BY <3>1, <3>3, LaneTyping DEF TypeOK
    <2>2. CASE ~RunTerminal(a) /\ ~FinalizeBroadcast(a)
      <3>1. running' = running /\ (run'[a] \in Shown => run[a] \in Shown)
        BY <2>2 DEF RunStep, RunFirstStep, RunOpen, RunFailEarly, RunBegin, RunBeginFail, RunPassesEnd, RunReturn, FinalizeCheck,
               CancelUnstarted, SetRun, Shown, TypeOK
      <3>2. QED
        BY <1>1, <1>2, <3>1 DEF ShownInv
    <2>3. QED
      BY <2>1, <2>2
  <1>6. QED
    BY <1>4, <1>5 DEF ShownInv

LEMMA HeldShown ==
    ASSUME TypeOK, ExclInv, ShownInv, NEW a \in Starters, HeldStep(a) \/ InternalStep(a)
    PROVE  ShownInv'
  <1>1. CASE HeldBegin(a) \/ InternalBegin(a)
    BY <1>1, BeginShown
  <1>2. CASE ~HeldBegin(a) /\ ~InternalBegin(a)
    <2>1. UNCHANGED <<running, laneRun, run, platform, holdLane>>
      BY <1>2 DEF HeldStep, InternalStep, HeldFail, HeldLoadSession, HeldSessionDone, HeldRelease, HeldReturn,
             InternalLock, InternalRowFail, ExitOuter, EnterInner, ExitInner, gateVars, runVars
    <2>2. \A b \in Starters : InHold(b)' => InHold(b)
      BY <1>2 DEF HeldStep, InternalStep, HeldFail, HeldLoadSession, HeldSessionDone, HeldRelease, HeldReturn,
             InternalLock, InternalRowFail, Goto, InHold, OuterPc, TypeOK
    <2>3. QED
      BY <2>1, <2>2, ShownFrame
  <1>3. QED
    BY <1>1, <1>2

LEMMA ShownNext == WsClients = {} /\ GateInv /\ ShownInv /\ [Next]_vars => ShownInv'
  <1> SUFFICES ASSUME WsClients = {}, TypeOK, ExclInv, ShownInv, [Next]_vars PROVE ShownInv'
    BY DEF GateInv
  <1> USE StarterKinds
  <1>1. CASE UNCHANGED vars \/ \E o \in SourceOps : SourceBegin(o) \/ SourceEnd(o)
    BY <1>1, ShownFrame DEF vars, SourceBegin, SourceEnd, gateVars, runVars, InHold
  <1>2. CASE \E a \in Jobs : HeldStep(a) \/ \E p \in Platforms : JobCheck(a, p)
    BY <1>2, HeldShown, CheckShown
  <1>3. CASE \E a \in Resumers :
               HeldStep(a) \/ \E p \in Platforms : ResumeCheckSingle(a, p) \/ ResumeCheckLane(a, p)
    BY <1>3, HeldShown, CheckShown
  <1>4. CASE \E a \in Internals : InternalStep(a) \/ \E p \in Platforms : InternalCheck(a, p)
    BY <1>4, HeldShown, CheckShown, GateAssumption
  <1>5. CASE \E a \in Starters : RunStep(a) \/ CancelUnstarted(a)
    BY <1>5, RunShown
  <1>6. QED
    BY <1>1, <1>2, <1>3, <1>4, <1>5 DEF Next

\* Without /ws starts, a scan that is alive is the one its lane shows and a cancel reaches, from the
\* creation of its task until it has announced its end, however the scans before it ended.
THEOREM RunTracked == ASSUME WsClients = {} PROVE Spec => []RunIsTracked
  <1>1. Init => ShownInv
    BY DEF Init, ShownInv, Shown, Unran
  <1>2. GateInv /\ ShownInv => RunIsTracked
    BY DEF GateInv, ExclInv, ShownInv, RunIsTracked, RunningIsShown, Shown
  <1>3. Spec => []GateInv
    BY GateInvariant
  <1>4. QED
    BY <1>1, <1>2, <1>3, ShownNext, PTL DEF Spec

-----------------------------------------------------------------------------
(* The published page.                                                     *)

Rows(k) == {p \in Posts : added[p] < k}

\* What a client has looked up, and read, while it waits.
Looked(c) == at[c] \in {"waiting", "reading", "read"}

\* The scan under way is the newest, and none that has not begun is of any phase.
ScansInv ==
    /\ scan # 0 => scan = last /\ phase[scan] = "running"
    /\ \A k \in Page!Scans : phase[k] # "none" => k <= last

\* A client that waits or reads does so for a scan that finished; what it has read are the links of
\* that scan, as is what is kept.
LookInv ==
    \A c \in Page!Clients :
        /\ Looked(c) => seen[c].scan \in Page!Scans /\ phase[seen[c].scan] = "done"
        /\ at[c] = "read" => got[c] \in Page!Pages /\ DOMAIN got[c] = Rows(seen[c].scan)

PageInv == ScansInv /\ LookInv /\ KeptIsOfItsScan

\* Numbers up to a bound have a greatest one.
LEMMA GreatestNat ==
    ASSUME NEW n \in Nat, NEW T, T \subseteq 0 .. n, T # {}
    PROVE  \E x \in T : \A y \in T : x >= y
  <1> DEFINE U == {n - x : x \in T}
  <1> DEFINE R == OpToRel(<, Nat)
  <1>1. (\A x \in T : n - x \in U) /\ (\A u \in U : \E x \in T : u = n - x)
    OBVIOUS
  <1>2. IsWellFoundedOn(R, Nat)
    BY NatLessThanWellFounded, Zenon
  <1>3. \A x \in Nat : \A y \in Nat : y < x => <<y, x>> \in R
    BY DEF OpToRel
  <1> HIDE DEF R, U
  <1>4. PICK z \in T : TRUE
    OBVIOUS
  <1>5. U \subseteq Nat /\ U # {}
    BY <1>1, <1>4
  <1>6. PICK u \in U : \A v \in U : ~ (<<v, u>> \in R)
    BY <1>2, <1>5, WFMin, Zenon
  <1>7. \A v \in U : ~ (v < u)
    BY <1>3, <1>5, <1>6
  <1>8. PICK x \in T : u = n - x
    BY <1>1
  <1>9. QED
    BY <1>1, <1>7, <1>8

\* The last finished scan is the newest of those that are done, or 0.
LEMMA LastFinishedIs ==
    ASSUME Page!TypeOK
    PROVE  /\ Page!LastFinished \in 0 .. MaxScans
           /\ Page!LastFinished # 0 => Page!LastFinished \in Page!Scans /\ phase[Page!LastFinished] = "done"
           /\ \A k \in Page!Scans : phase[k] = "done" => k <= Page!LastFinished
  <1> DEFINE done == {0} \cup {k \in Page!Scans : phase[k] = "done"}
  <1>1. MaxScans \in Nat /\ done \subseteq 0 .. MaxScans /\ done # {}
    BY PageAssumption DEF Page!PublishedAssumption, Page!Scans
  <1>2. Page!LastFinished = CHOOSE x \in done : \A y \in done : x >= y
    BY DEF Page!LastFinished, Page!Max
  <1>3. \E x \in done : \A y \in done : x >= y
    <2> HIDE DEF done
    <2>1. QED
      BY <1>1, GreatestNat
  <1>4. Page!LastFinished \in done /\ \A y \in done : Page!LastFinished >= y
    <2> HIDE DEF done
    <2>1. QED
      BY <1>2, <1>3
  <1>5. QED
    BY <1>1, <1>4 DEF Page!Scans

\* The links of a scan: a page of them is a page, and those added later are not among them.
LEMMA RowsArePage ==
    ASSUME Page!TypeOK, NEW k \in Nat
    PROVE  Page!RowsNow(k) \in Page!Pages /\ DOMAIN Page!RowsNow(k) = Rows(k)
  <1>1. Page!RowsNow(k) = [p \in Rows(k) |-> numbers[p]] /\ Rows(k) \in SUBSET Posts
    BY DEF Page!RowsNow, Rows
  <1>2. Page!RowsNow(k) \in [Rows(k) -> 0 .. MaxScans]
    BY <1>1 DEF Page!TypeOK
  <1>3. QED
    BY <1>1, <1>2 DEF Page!Pages

\* A step of staff or of a scan: clients stay where they are or are answered, a finished scan stays
\* finished and keeps its links.
LEMMA TableFrame ==
    ASSUME PageInv, Page!TypeOK', ScansInv', UNCHANGED <<kept, seen, got>>,
           \A c \in Page!Clients : at'[c] \in {at[c], "asked"},
           \A k \in Page!Scans : phase[k] = "done" => phase'[k] = "done" /\ Rows(k)' = Rows(k)
    PROVE  PageInv'
  <1>1. LookInv'
    BY DEF PageInv, LookInv, Looked
  <1>2. KeptIsOfItsScan'
    <2>1. kept # NoPage => kept.scan \in Page!Scans
      BY DEF PageInv, KeptIsOfItsScan, Page!KeptIsOfItsScan, Page!TypeOK
    <2>2. QED
      BY <2>1 DEF PageInv, KeptIsOfItsScan, Page!KeptIsOfItsScan, Rows
  <1>3. QED
    BY <1>1, <1>2 DEF PageInv

\* A step of a client: what it has looked up, read or kept is of a finished scan.
LEMMA ClientFrame ==
    ASSUME PageInv, Page!TypeOK', NEW c \in Page!Clients, UNCHANGED Page!tableVars,
           \A d \in Page!Clients \ {c} : at'[d] = at[d] /\ seen'[d] = seen[d] /\ got'[d] = got[d],
           Looked(c)' => seen'[c].scan \in Page!Scans /\ phase[seen'[c].scan] = "done",
           at'[c] = "read" => got'[c] \in Page!Pages /\ DOMAIN got'[c] = Rows(seen'[c].scan),
           \/ kept' = kept
           \/ phase[kept'.scan] = "done" /\ DOMAIN kept'.page = Rows(kept'.scan)
    PROVE  PageInv'
  <1>1. ScansInv' /\ UNCHANGED <<phase, added>>
    BY DEF PageInv, ScansInv, Page!tableVars
  <1>2. \A k : Rows(k)' = Rows(k)
    BY <1>1 DEF Rows
  <1>3. ASSUME NEW d \in Page!Clients
        PROVE  /\ Looked(d)' => seen'[d].scan \in Page!Scans /\ phase'[seen'[d].scan] = "done"
               /\ at'[d] = "read" => got'[d] \in Page!Pages /\ DOMAIN got'[d] = Rows(seen[d].scan)'
    <2>1. CASE d = c
      BY <1>1, <2>1 DEF Looked, Rows
    <2>2. CASE d # c
      BY <1>1, <2>2 DEF PageInv, LookInv, Looked, Rows
    <2>3. QED
      BY <2>1, <2>2
  <1>4. KeptIsOfItsScan'
    BY <1>1, <1>2 DEF PageInv, KeptIsOfItsScan, Page!KeptIsOfItsScan, Rows
  <1>5. LookInv'
    BY <1>3 DEF LookInv
  <1>6. QED
    BY <1>1, <1>4, <1>5 DEF PageInv

\* Staff add a post; a scan begins, writes and ends; the server restarts.
LEMMA TableSteps ==
    ASSUME PageInv,
           (\E p \in Posts : Page!AddPost(p) \/ Page!ScanWrite(p)) \/ Page!ScanBegin \/ Page!ScanEnd \/ Page!Restart
    PROVE  PageInv'
  <1>1. Page!TypeOK /\ ScansInv /\ MaxScans \in Nat /\ Page!Absent = MaxScans + 1
    BY PageAssumption DEF PageInv, KeptIsOfItsScan, Page!KeptIsOfItsScan, Page!PublishedAssumption, Page!Absent
  <1>2. \A k \in Page!Scans : k \in Nat /\ (phase[k] = "done" => k <= last /\ k # scan)
    BY <1>1 DEF ScansInv, Page!Scans
  <1>3. ASSUME NEW p \in Posts, Page!AddPost(p) PROVE PageInv'
    <2>1. Page!TypeOK'
      BY <1>1, <1>3 DEF Page!AddPost, Page!TypeOK
    <2>2. \A k \in Page!Scans : phase[k] = "done" => Rows(k)' = Rows(k)
      BY <1>1, <1>2, <1>3 DEF Page!AddPost, Page!TypeOK, Rows, Page!Scans
    <2>3. ScansInv'
      BY <1>1, <1>3 DEF Page!AddPost, ScansInv
    <2>4. QED
      BY <1>3, <2>1, <2>2, <2>3, TableFrame DEF Page!AddPost
  <1>4. ASSUME NEW p \in Posts, Page!ScanWrite(p) PROVE PageInv'
    <2>1. Page!TypeOK' /\ ScansInv'
      BY <1>1, <1>4 DEF Page!ScanWrite, Page!TypeOK, ScansInv
    <2>2. QED
      BY <1>4, <2>1, TableFrame DEF Page!ScanWrite, Rows
  <1>5. CASE Page!ScanBegin
    <2>1. Page!TypeOK'
      <3>1. phase' \in [Page!Scans -> {"none", "running", "done", "over"}]
        BY <1>1, <1>5 DEF Page!ScanBegin, Page!TypeOK
      <3>2. scan' \in 0 .. MaxScans /\ last' \in 0 .. MaxScans
        BY <1>1, <1>5 DEF Page!ScanBegin, Page!TypeOK
      <3>3. QED
        BY <1>1, <1>5, <3>1, <3>2 DEF Page!ScanBegin, Page!TypeOK
    <2>2. ScansInv'
      <3>1. /\ last + 1 \in Page!Scans /\ last \in Nat /\ scan' = last + 1 /\ last' = last + 1
            /\ phase' = [phase EXCEPT ![last + 1] = "running"] /\ phase \in [Page!Scans -> {"none", "running", "done", "over"}]
        BY <1>1, <1>5 DEF Page!ScanBegin, Page!TypeOK, Page!Scans
      <3>2. phase'[last + 1] = "running" /\ \A k \in Page!Scans \ {last + 1} : phase'[k] = phase[k]
        BY <3>1
      <3>3. ASSUME NEW k \in Page!Scans, phase'[k] # "none" PROVE k <= last'
        BY <1>1, <1>2, <3>1, <3>2, <3>3 DEF ScansInv
      <3>4. QED
        BY <3>1, <3>2, <3>3 DEF ScansInv
    <2>3. \A k \in Page!Scans : phase[k] = "done" => phase'[k] = "done" /\ Rows(k)' = Rows(k)
      BY <1>1, <1>2, <1>5 DEF Page!ScanBegin, Page!TypeOK, Rows
    <2>4. QED
      BY <1>5, <2>1, <2>2, <2>3, TableFrame DEF Page!ScanBegin
  <1>6. CASE Page!ScanEnd
    <2>1. /\ scan \in Page!Scans /\ scan' = 0 /\ UNCHANGED <<last, added, numbers, kept, rowsLock, seen, got>>
          /\ at' = [at EXCEPT ![Refresher] = "asked"]
      BY <1>1, <1>6 DEF Page!ScanEnd, Page!TypeOK, Page!Scans
    <2>0. PICK how \in {"running", "done", "over"} : phase' = [phase EXCEPT ![scan] = how]
      BY <1>1, <1>6, <2>1 DEF Page!ScanEnd, Page!TypeOK, ScansInv
    <2>5. Page!TypeOK'
      <3>1. phase' \in [Page!Scans -> {"none", "running", "done", "over"}]
        BY <1>1, <2>0 DEF Page!TypeOK
      <3>2. at' \in [Page!Clients -> {"idle", "asked", "plain", "waiting", "reading", "read"}]
        BY <1>1, <2>1 DEF Page!TypeOK
      <3>3. QED
        BY <1>1, <2>1, <3>1, <3>2 DEF Page!TypeOK
    <2>6. ScansInv'
      BY <1>1, <2>0, <2>1 DEF Page!TypeOK, ScansInv
    <2>2. \A k \in Page!Scans : phase[k] = "done" => phase'[k] = "done" /\ Rows(k)' = Rows(k)
      BY <1>1, <1>2, <1>6 DEF Page!ScanEnd, Page!TypeOK, Rows
    <2>3. \A c \in Page!Clients : at'[c] \in {at[c], "asked"}
      BY <1>1, <1>6 DEF Page!ScanEnd, Page!TypeOK
    <2>4. QED
      BY <1>6, <2>1, <2>2, <2>3, <2>5, <2>6, TableFrame
  <1>7. CASE Page!Restart
    <2>1. Page!TypeOK' /\ ScansInv'
      BY <1>1, <1>7 DEF Page!Restart, Page!TypeOK, ScansInv
    <2>2. LookInv' /\ KeptIsOfItsScan'
      BY <1>7, <2>1 DEF Page!Restart, LookInv, Looked, KeptIsOfItsScan, Page!KeptIsOfItsScan
    <2>3. QED
      BY <2>1, <2>2 DEF PageInv
  <1>8. QED
    BY <1>3, <1>4, <1>5, <1>6, <1>7

\* Clients ask, look the last finished scan up, read its rows and keep them.
LEMMA ClientSteps ==
    ASSUME PageInv, NEW c \in Page!Clients, Page!Ask(c) \/ Page!ClientStep(c)
    PROVE  PageInv'
  <1>1. /\ Page!TypeOK /\ MaxScans \in Nat
        /\ Looked(c) => seen[c].scan \in Page!Scans /\ phase[seen[c].scan] = "done"
        /\ at[c] = "read" => got[c] \in Page!Pages /\ DOMAIN got[c] = Rows(seen[c].scan)
    BY PageAssumption DEF PageInv, KeptIsOfItsScan, Page!KeptIsOfItsScan, Page!PublishedAssumption, LookInv
  <1>2. CASE Page!Ask(c) \/ Page!ReadPlain(c) \/ Page!Fail(c) \/ Page!Enter(c)
    <2>1. /\ UNCHANGED <<Page!tableVars, kept, seen, got>> /\ rowsLock' \in {rowsLock, c, Nobody}
          /\ \E label \in {"idle", "asked", "reading"} :
                at' = [at EXCEPT ![c] = label] /\ (label = "reading" => Looked(c))
      BY <1>2 DEF Page!Ask, Page!ReadPlain, Page!Fail, Page!Enter, Page!Goto, Looked
    <2>2. PICK label \in {"idle", "asked", "reading"} :
             at' = [at EXCEPT ![c] = label] /\ (label = "reading" => Looked(c))
      BY <2>1
    <2>3. Page!TypeOK'
      BY <1>1, <2>1, <2>2 DEF Page!TypeOK, Page!tableVars
    <2>4. at'[c] = label /\ \A d \in Page!Clients \ {c} : at'[d] = at[d]
      BY <1>1, <2>2 DEF Page!TypeOK
    <2>5. QED
      BY <1>1, <2>1, <2>2, <2>3, <2>4, ClientFrame DEF Looked
  <1>3. CASE Page!LookUp(c)
    <2>1. PICK k, b, label :
             /\ k = Page!LastFinished /\ b \in BOOLEAN /\ label \in {"plain", "idle", "waiting"}
             /\ label = "waiting" => k # 0
             /\ seen' = [seen EXCEPT ![c] = [scan |-> k, running |-> b]]
             /\ at' = [at EXCEPT ![c] = label]
      BY <1>3, Zenon DEF Page!LookUp, Page!Goto, Page!SomeRunning
    <2>2. UNCHANGED <<Page!tableVars, kept, rowsLock, got>>
      BY <1>3 DEF Page!LookUp
    <2>3. k \in 0 .. MaxScans /\ (k # 0 => k \in Page!Scans /\ phase[k] = "done")
      BY <1>1, <2>1, LastFinishedIs
    <2>4. Page!TypeOK'
      BY <1>1, <2>1, <2>2, <2>3 DEF Page!TypeOK, Page!tableVars
    <2>5. /\ at'[c] = label /\ seen'[c].scan = k
          /\ \A d \in Page!Clients \ {c} : at'[d] = at[d] /\ seen'[d] = seen[d]
      BY <1>1, <2>1 DEF Page!TypeOK
    <2>6. QED
      BY <2>1, <2>2, <2>3, <2>4, <2>5, ClientFrame DEF Looked
  <1>4. CASE Page!ReadRows(c)
    <2>1. /\ UNCHANGED <<Page!tableVars, kept, rowsLock, seen>> /\ Looked(c)
          /\ got' = [got EXCEPT ![c] = Page!RowsNow(seen[c].scan)] /\ at' = [at EXCEPT ![c] = "read"]
      BY <1>4 DEF Page!ReadRows, Page!Goto, Looked
    <2>2. /\ Page!RowsNow(seen[c].scan) \in Page!Pages
          /\ DOMAIN Page!RowsNow(seen[c].scan) = Rows(seen[c].scan)
      BY <1>1, <2>1, RowsArePage DEF Page!Scans
    <2>3. Page!TypeOK'
      BY <1>1, <2>1, <2>2 DEF Page!TypeOK, Page!tableVars
    <2>4. /\ got'[c] = Page!RowsNow(seen[c].scan)
          /\ \A d \in Page!Clients \ {c} : at'[d] = at[d] /\ got'[d] = got[d]
      BY <1>1, <2>1 DEF Page!TypeOK
    <2>5. QED
      BY <1>1, <2>1, <2>2, <2>3, <2>4, ClientFrame
  <1>5. CASE Page!HandOut(c)
    <2>1. /\ UNCHANGED <<Page!tableVars, seen>> /\ rowsLock' = Nobody /\ Looked(c)
          /\ got' = [got EXCEPT ![c] = NoPage] /\ at' = [at EXCEPT ![c] = "idle"]
          /\ kept' \in {kept, [scan |-> seen[c].scan, page |-> got[c]]}
      BY <1>5 DEF Page!HandOut, Page!Goto, Looked
    <2>2. at[c] = "read"
      BY <1>5 DEF Page!HandOut
    <2>3. Page!TypeOK'
      BY <1>1, <2>1, <2>2 DEF Page!TypeOK, Page!tableVars
    <2>4. at'[c] = "idle" /\ \A d \in Page!Clients \ {c} : at'[d] = at[d] /\ got'[d] = got[d]
      BY <1>1, <2>1 DEF Page!TypeOK
    <2>5. kept' = kept \/ (phase[kept'.scan] = "done" /\ DOMAIN kept'.page = Rows(kept'.scan))
      BY <1>1, <2>1, <2>2
    <2>6. QED
      BY <2>1, <2>3, <2>4, <2>5, ClientFrame DEF Looked
  <1>6. QED
    BY <1>2, <1>3, <1>4, <1>5 DEF Page!ClientStep, Page!QueryStep

LEMMA PageInit == Page!Init => PageInv
  <1> SUFFICES ASSUME Page!Init PROVE PageInv
    OBVIOUS
  <1>1. MaxScans \in Nat /\ Page!Absent = MaxScans + 1
    BY PageAssumption DEF Page!PublishedAssumption, Page!Absent
  <1>2. Page!TypeOK
    BY <1>1 DEF Page!Init, Page!TypeOK
  <1>3. ScansInv /\ LookInv
    BY DEF Page!Init, ScansInv, LookInv, Looked
  <1>4. QED
    BY <1>2, <1>3 DEF Page!Init, PageInv, KeptIsOfItsScan, Page!KeptIsOfItsScan

LEMMA PageNext == PageInv /\ [Page!Next]_(Page!vars) => PageInv'
  <1> SUFFICES ASSUME PageInv, [Page!Next]_(Page!vars) PROVE PageInv'
    OBVIOUS
  <1>1. CASE UNCHANGED Page!vars
    BY <1>1 DEF Page!vars, PageInv, ScansInv, LookInv, Looked, Rows, KeptIsOfItsScan, Page!KeptIsOfItsScan,
                Page!TypeOK
  <1>2. CASE Page!Next
    <2>1. ASSUME NEW c \in Readers PROVE c \in Page!Clients
      BY DEF Page!Clients
    <2>2. QED
      BY <1>2, <2>1, TableSteps, ClientSteps DEF Page!Next
  <1>3. QED
    BY <1>1, <1>2

\* A kept page is that of a scan that finished, with the links added before that scan began and no
\* others (published.report_rows), whatever clients, staff, scans, failures and restarts come between
\* its two queries.
THEOREM PagesStay == Page!Spec => []KeptIsOfItsScan
  <1>1. PageInv => KeptIsOfItsScan
    BY DEF PageInv
  <1>2. QED
    BY <1>1, PageInit, PageNext, PTL DEF Page!Spec

-----------------------------------------------------------------------------
(* The refresh after a scan.                                               *)

\* While the refresh of a scan is under way no scan runs, so what it looked up still holds; and a page
\* of the newest scan, kept or read, is the table as it is.
FreshInv ==
    /\ PageInv
    /\ \A k \in Page!Scans : phase[k] = "running" => k = scan
    /\ at[Refresher] # "idle" => scan = 0
    /\ Looked(Refresher) => seen[Refresher].scan = Page!LastFinished /\ seen[Refresher].running = FALSE
    /\ kept # NoPage /\ kept.scan = last => kept.page = Page!RowsNow(last)
    /\ \A c \in Page!Clients : at[c] = "read" /\ seen[c].scan = last => got[c] = Page!RowsNow(last)

\* What is of the newest scan, kept or read, is of one that is done.
LEMMA NewestDone ==
    ASSUME PageInv
    PROVE  /\ MaxScans \in Nat /\ last \in 0 .. MaxScans /\ scan \in 0 .. MaxScans
           /\ kept # NoPage => kept.scan \in Page!Scans /\ phase[kept.scan] = "done" /\ kept.scan <= last
           /\ \A c \in Page!Clients : at[c] = "read" =>
                 seen[c].scan \in Page!Scans /\ phase[seen[c].scan] = "done" /\ seen[c].scan <= last
           /\ last # 0 => last \in Page!Scans
           /\ last \in Page!Scans /\ phase[last] = "done" => scan = 0
           /\ Refresher \in Page!Clients
  <1>1. MaxScans \in Nat /\ Page!TypeOK /\ Refresher \in Page!Clients
    BY PageAssumption DEF Page!PublishedAssumption, PageInv, KeptIsOfItsScan, Page!KeptIsOfItsScan, Page!Clients
  <1>2. last \in 0 .. MaxScans /\ scan \in 0 .. MaxScans /\ (last # 0 => last \in Page!Scans)
    BY <1>1 DEF Page!TypeOK, Page!Scans
  <1>3. last \in Page!Scans /\ phase[last] = "done" => scan = 0
    BY DEF PageInv, ScansInv
  <1>4. kept # NoPage => kept.scan \in Page!Scans /\ phase[kept.scan] = "done" /\ kept.scan <= last
    BY <1>1 DEF Page!TypeOK, PageInv, KeptIsOfItsScan, Page!KeptIsOfItsScan, ScansInv
  <1>5. ASSUME NEW c \in Page!Clients, at[c] = "read"
        PROVE  seen[c].scan \in Page!Scans /\ phase[seen[c].scan] = "done" /\ seen[c].scan <= last
    BY <1>5 DEF PageInv, ScansInv, LookInv, Looked
  <1>6. QED
    BY <1>1, <1>2, <1>3, <1>4, <1>5

\* Staff add a post; a scan begins, writes and ends; the server restarts.
LEMMA FreshTables ==
    ASSUME ~Crashes, FreshInv, PageInv',
           (\E p \in Posts : Page!AddPost(p) \/ Page!ScanWrite(p)) \/ Page!ScanBegin \/ Page!ScanEnd \/ Page!Restart
    PROVE  FreshInv'
  <1>1. Page!TypeOK /\ PageInv
    BY DEF FreshInv, PageInv, KeptIsOfItsScan, Page!KeptIsOfItsScan
  <1>2. ASSUME NEW p \in Posts, Page!AddPost(p) PROVE FreshInv'
    <2>1. UNCHANGED <<phase, scan, last, numbers, kept, at, seen, got>> /\ Page!LastFinished' = Page!LastFinished
      BY <1>2 DEF Page!AddPost, Page!LastFinished
    <2>2. {q \in Posts : added'[q] < last} = {q \in Posts : added[q] < last}
      BY <1>1, <1>2, NewestDone DEF Page!AddPost, Page!TypeOK, Page!Absent
    <2>3. Page!RowsNow(last)' = Page!RowsNow(last)
      BY <2>1, <2>2 DEF Page!RowsNow
    <2>4. QED
      BY <2>1, <2>3 DEF FreshInv, Looked
  <1>3. ASSUME NEW p \in Posts, Page!ScanWrite(p) PROVE FreshInv'
    <2>1. /\ UNCHANGED <<phase, scan, last, added, kept, at, seen, got>> /\ scan # 0
          /\ Page!LastFinished' = Page!LastFinished
      BY <1>3 DEF Page!ScanWrite, Page!LastFinished
    <2>2. ~(kept # NoPage /\ kept.scan = last)
      BY <1>1, <2>1, NewestDone
    <2>3. \A c \in Page!Clients : ~(at[c] = "read" /\ seen[c].scan = last)
      BY <1>1, <2>1, NewestDone
    <2>4. QED
      BY <2>1, <2>2, <2>3 DEF FreshInv, Looked
  <1>4. CASE Page!ScanBegin
    <2>1. /\ UNCHANGED <<added, numbers, kept, at, seen, got>> /\ at[Refresher] = "idle"
          /\ scan' = last + 1 /\ last' = last + 1 /\ phase' = [phase EXCEPT ![last + 1] = "running"] /\ scan = 0
      BY <1>4 DEF Page!ScanBegin
    <2>2. ~(kept # NoPage /\ kept.scan = last')
      BY <1>1, <2>1, NewestDone DEF Page!Scans
    <2>3. \A c \in Page!Clients : ~(at[c] = "read" /\ seen[c].scan = last')
      BY <1>1, <2>1, NewestDone DEF Page!Scans
    <2>4. \A k \in Page!Scans : phase'[k] = "running" => k = scan'
      BY <1>1, <2>1 DEF FreshInv, Page!TypeOK, Page!Scans
    <2>5. QED
      BY <2>1, <2>2, <2>3, <2>4 DEF FreshInv, Looked
  <1>5. CASE Page!ScanEnd
    <2>1. /\ UNCHANGED <<last, added, numbers, kept, seen, got>> /\ scan # 0 /\ scan' = 0
          /\ at' = [at EXCEPT ![Refresher] = "asked"]
          /\ \E how \in {"done", "over"} : phase' = [phase EXCEPT ![scan] = how]
      BY <1>5 DEF Page!ScanEnd
    <2>2. PICK how \in {"done", "over"} : phase' = [phase EXCEPT ![scan] = how]
      BY <2>1
    <2>3. at'[Refresher] = "asked" /\ \A c \in Page!Clients : at'[c] = "read" => at[c] = "read"
      BY <1>1, <2>1, NewestDone DEF Page!TypeOK
    <2>4. ~(kept # NoPage /\ kept.scan = last)
      BY <1>1, <2>1, NewestDone
    <2>5. \A c \in Page!Clients : ~(at[c] = "read" /\ seen[c].scan = last)
      BY <1>1, <2>1, NewestDone
    <2>6. \A k \in Page!Scans : phase'[k] # "running"
      BY <1>1, <2>2 DEF FreshInv, Page!TypeOK
    <2>7. QED
      BY <2>1, <2>3, <2>4, <2>5, <2>6 DEF FreshInv, Looked
  <1>6. CASE Page!Restart
    <2>1. /\ kept' = NoPage /\ at' = [c \in Page!Clients |-> "idle"]
          /\ phase' = IF scan = 0 THEN phase ELSE [phase EXCEPT ![scan] = "over"]
      BY <1>6 DEF Page!Restart
    <2>2. \A k \in Page!Scans : phase'[k] # "running"
      BY <1>1, <2>1 DEF FreshInv, Page!TypeOK, Page!Scans
    <2>3. \A c \in Page!Clients : at'[c] = "idle"
      BY <2>1
    <2>4. Refresher \in Page!Clients
      BY <1>1, NewestDone
    <2>5. QED
      BY <2>1, <2>2, <2>3, <2>4 DEF FreshInv, Looked
  <1>7. QED
    BY <1>2, <1>3, <1>4, <1>5, <1>6

\* A step of a client leaves the others as they are; what it looks up, reads and keeps is the table as
\* it is, if it is of the newest scan.
LEMMA FreshClient ==
    ASSUME FreshInv, PageInv', NEW c \in Page!Clients, UNCHANGED Page!tableVars,
           \A d \in Page!Clients \ {c} : at'[d] = at[d] /\ seen'[d] = seen[d] /\ got'[d] = got[d],
           c = Refresher => /\ at[c] # "idle"
                            /\ Looked(c)' => seen'[c].scan = Page!LastFinished /\ seen'[c].running = FALSE,
           at'[c] = "read" /\ seen'[c].scan = last => got'[c] = Page!RowsNow(last),
           kept' # NoPage /\ kept'.scan = last => kept'.page = Page!RowsNow(last)
    PROVE  FreshInv'
  <1>1. UNCHANGED <<phase, scan, last, added, numbers>>
    BY DEF Page!tableVars
  <1>2. Page!RowsNow(last)' = Page!RowsNow(last) /\ Page!LastFinished' = Page!LastFinished
    BY <1>1 DEF Page!RowsNow, Page!LastFinished
  <1>3. /\ at'[Refresher] # "idle" => scan' = 0
        /\ Looked(Refresher)' => seen'[Refresher].scan = Page!LastFinished' /\ seen'[Refresher].running = FALSE
    <2>1. Refresher \in Page!Clients
      BY NewestDone DEF FreshInv
    <2>2. CASE c = Refresher
      BY <1>1, <1>2, <2>2 DEF FreshInv
    <2>3. CASE c # Refresher
      BY <1>1, <1>2, <2>1, <2>3 DEF FreshInv, Looked
    <2>4. QED
      BY <2>2, <2>3
  <1>4. \A d \in Page!Clients : at'[d] = "read" /\ seen'[d].scan = last' => got'[d] = Page!RowsNow(last)'
    BY <1>1, <1>2 DEF FreshInv
  <1>5. QED
    BY <1>1, <1>2, <1>3, <1>4 DEF FreshInv

\* The refresh looks up the newest finished scan while none runs.
LEMMA RefreshLooks ==
    ASSUME FreshInv, at[Refresher] # "idle"
    PROVE  Page!SomeRunning = FALSE
  <1>1. \A k \in Page!Scans : phase[k] # "running"
    BY DEF FreshInv, Page!Scans
  <1>2. QED
    BY <1>1 DEF Page!SomeRunning

LEMMA FreshClients ==
    ASSUME FreshInv, PageInv', NEW c \in Page!Clients,
           (c \in Readers /\ Page!Ask(c)) \/ Page!ClientStep(c)
    PROVE  FreshInv'
  <1>1. /\ Page!TypeOK /\ PageInv /\ Refresher \notin Readers
        /\ kept # NoPage /\ kept.scan = last => kept.page = Page!RowsNow(last)
        /\ at[c] = "read" /\ seen[c].scan = last => got[c] = Page!RowsNow(last)
        /\ c = Refresher /\ Looked(c) => seen[c].scan = Page!LastFinished /\ seen[c].running = FALSE
    BY PageAssumption DEF FreshInv, PageInv, KeptIsOfItsScan, Page!KeptIsOfItsScan, Page!PublishedAssumption
  <1>2. c = Refresher => at[c] # "idle"
    BY <1>1 DEF Page!ClientStep, Page!QueryStep, Page!LookUp, Page!ReadPlain, Page!ReadRows, Page!HandOut,
                Page!Fail, Page!Enter
  <1>3. CASE Page!Ask(c) \/ Page!ReadPlain(c) \/ Page!Fail(c) \/ Page!Enter(c)
    <2>1. PICK label \in {"idle", "asked", "reading"} :
             /\ at' = [at EXCEPT ![c] = label] /\ (label = "reading" => Looked(c))
             /\ UNCHANGED <<Page!tableVars, kept, seen, got>>
      BY <1>3 DEF Page!Ask, Page!ReadPlain, Page!Fail, Page!Enter, Page!Goto, Looked
    <2>2. at'[c] = label /\ \A d \in Page!Clients \ {c} : at'[d] = at[d]
      BY <1>1, <2>1 DEF Page!TypeOK
    <2>3. Looked(c)' => Looked(c)
      BY <2>1, <2>2 DEF Looked
    <2>4. QED
      BY <1>1, <1>2, <2>1, <2>2, <2>3, FreshClient
  <1>4. CASE Page!LookUp(c)
    <2>1. PICK k, b, label :
             /\ k = Page!LastFinished /\ b = Page!SomeRunning /\ label \in {"plain", "idle", "waiting"}
             /\ seen' = [seen EXCEPT ![c] = [scan |-> k, running |-> b]]
             /\ at' = [at EXCEPT ![c] = label]
      BY <1>4, Zenon DEF Page!LookUp, Page!Goto
    <2>2. UNCHANGED <<Page!tableVars, kept, got>>
      BY <1>4 DEF Page!LookUp
    <2>3. /\ at'[c] = label /\ seen'[c].scan = k /\ seen'[c].running = b
          /\ \A d \in Page!Clients \ {c} : at'[d] = at[d] /\ seen'[d] = seen[d]
      BY <1>1, <2>1 DEF Page!TypeOK
    <2>4. c = Refresher => b = FALSE
      BY <1>2, <2>1, RefreshLooks
    <2>5. QED
      BY <1>1, <1>2, <2>1, <2>2, <2>3, <2>4, FreshClient
  <1>5. CASE Page!ReadRows(c)
    <2>1. /\ UNCHANGED <<Page!tableVars, kept, seen>> /\ Looked(c)
          /\ got' = [got EXCEPT ![c] = Page!RowsNow(seen[c].scan)] /\ at' = [at EXCEPT ![c] = "read"]
      BY <1>5 DEF Page!ReadRows, Page!Goto, Looked
    <2>2. /\ got'[c] = Page!RowsNow(seen[c].scan)
          /\ \A d \in Page!Clients \ {c} : at'[d] = at[d] /\ got'[d] = got[d]
      BY <1>1, <2>1 DEF Page!TypeOK
    <2>3. QED
      BY <1>1, <1>2, <2>1, <2>2, FreshClient
  <1>6. CASE Page!HandOut(c)
    <2>1. /\ UNCHANGED <<Page!tableVars, seen>> /\ at[c] = "read"
          /\ got' = [got EXCEPT ![c] = NoPage] /\ at' = [at EXCEPT ![c] = "idle"]
          /\ kept' \in {kept, [scan |-> seen[c].scan, page |-> got[c]]}
      BY <1>6 DEF Page!HandOut, Page!Goto
    <2>2. at'[c] = "idle" /\ \A d \in Page!Clients \ {c} : at'[d] = at[d] /\ got'[d] = got[d]
      BY <1>1, <2>1 DEF Page!TypeOK
    <2>3. kept' # NoPage /\ kept'.scan = last => kept'.page = Page!RowsNow(last)
      BY <1>1, <2>1
    <2>4. QED
      BY <1>2, <2>1, <2>2, <2>3, FreshClient DEF Looked
  <1>7. QED
    BY <1>3, <1>4, <1>5, <1>6 DEF Page!ClientStep, Page!QueryStep

LEMMA FreshInit == ~Crashes /\ Page!Init => FreshInv
  <1> SUFFICES ASSUME Page!Init PROVE FreshInv
    OBVIOUS
  <1>1. PageInv /\ Refresher \in Page!Clients
    BY PageInit, NewestDone
  <1>2. QED
    BY <1>1 DEF Page!Init, FreshInv, Looked

LEMMA FreshNext ==
    ASSUME ~Crashes
    PROVE  FreshInv /\ [Page!Next]_(Page!vars) => FreshInv'
  <1> SUFFICES ASSUME FreshInv, [Page!Next]_(Page!vars) PROVE FreshInv'
    OBVIOUS
  <1>1. PageInv'
    BY PageNext DEF FreshInv
  <1>2. CASE UNCHANGED Page!vars
    BY <1>1, <1>2 DEF Page!vars, FreshInv, Looked, Page!RowsNow, Page!LastFinished
  <1>3. CASE Page!Next
    <2>1. \A c \in Readers : c \in Page!Clients
      BY DEF Page!Clients
    <2>2. QED
      BY <1>1, <1>3, <2>1, FreshTables, FreshClients DEF Page!Next
  <1>4. QED
    BY <1>2, <1>3

\* What the refresh of a scan leaves behind.
LEMMA RefreshKeeps ==
    ASSUME FreshInv, Page!LastFinished = last, at[Refresher] # "idle", at'[Refresher] = "idle",
           Page!LookUp(Refresher) \/ Page!Enter(Refresher) \/ Page!HandOut(Refresher)
    PROVE  kept' = [scan |-> last, page |-> Page!RowsNow(last)]
  <1>1. Page!TypeOK /\ PageInv /\ Refresher \in Page!Clients
    BY NewestDone DEF FreshInv, PageInv, KeptIsOfItsScan, Page!KeptIsOfItsScan
  <1>2. Page!IsKept(last) => kept = [scan |-> last, page |-> Page!RowsNow(last)]
    BY <1>1 DEF FreshInv, Page!IsKept, Page!TypeOK
  <1>3. CASE Page!LookUp(Refresher)
    <2>1. kept' = kept
      BY <1>3 DEF Page!LookUp
    <2>2. PICK label :
             /\ at' = [at EXCEPT ![Refresher] = label]
             /\ label = CASE Page!LastFinished = 0 -> "plain"
                         [] Page!IsKept(Page!LastFinished) -> "idle"
                         [] OTHER -> "waiting"
      BY <1>3, Zenon DEF Page!LookUp, Page!Goto
    <2>3. label = "idle"
      BY <1>1, <2>2 DEF Page!TypeOK
    <2>4. ASSUME ~Page!IsKept(Page!LastFinished) PROVE label \in {"plain", "waiting"}
      BY <2>2, <2>4, Zenon
    <2>5. QED
      BY <1>2, <2>1, <2>3, <2>4
  <1>4. CASE Page!Enter(Refresher)
    <2>1. seen[Refresher].scan = last
      BY <1>4 DEF Page!Enter, FreshInv, Looked
    <2>2. kept' = kept /\ Page!IsKept(last)
      BY <1>1, <1>4, <2>1 DEF Page!Enter, Page!Goto, Page!TypeOK
    <2>3. QED
      BY <1>2, <2>2
  <1>5. CASE Page!HandOut(Refresher)
    <2>1. /\ seen[Refresher].scan = last /\ seen[Refresher].running = FALSE
          /\ got[Refresher] = Page!RowsNow(last)
      BY <1>1, <1>5 DEF Page!HandOut, FreshInv, Looked
    <2>2. QED
      BY <1>5, <2>1 DEF Page!HandOut
  <1>6. QED
    BY <1>3, <1>4, <1>5

\* The refresh a scan makes when it has ended leaves its page kept as the scan left the table
\* (store session close, published.refresh), whatever readers keep meanwhile. ~Crashes: a scan that
\* dies, or whose end is not recorded, stays "running" and no page is kept any more.
THEOREM RefreshStays == ASSUME ~Crashes PROVE Page!Spec => RefreshPublishes
  <1>1. FreshInv /\ [Page!Next]_(Page!vars) =>
           [/\ Page!LastFinished = last
            /\ at[Refresher] # "idle" /\ at'[Refresher] = "idle"
            /\ Page!LookUp(Refresher) \/ Page!Enter(Refresher) \/ Page!HandOut(Refresher)
            => kept' = [scan |-> last, page |-> Page!RowsNow(last)]]_(Page!vars)
    BY RefreshKeeps
  <1>2. QED
    BY <1>1, FreshInit, FreshNext, PTL DEF Page!Spec, RefreshPublishes, Page!RefreshPublishes
=============================================================================

------------------------------- MODULE MCGate -------------------------------
(***************************************************************************)
(* For TLC: the scan gate and what follows a scan, in one run. The page    *)
(* published after a scan (Published) sees of the gate only that one scan  *)
(* of a month follows another, so each behaviour is one of the gate, or of *)
(* the page, while the other stays put.                                    *)
(***************************************************************************)
EXTENDS ScanGate

CONSTANTS Posts, Readers, Refresher, MaxScans, Crashes, NoPage, Nobody

VARIABLES
    level, \* whose behaviour this is
    phase, scan, last, added, numbers, kept, rowsLock, at, seen, got

pageVars == <<phase, scan, last, added, numbers, kept, rowsLock, at, seen, got>>
allVars == <<level, vars, pageVars>>

Page == INSTANCE Published WITH lock <- rowsLock, pc <- at

ASSUME PageAssumption == Page!PublishedAssumption

MCInit ==
    /\ level \in {"gate", "page"}
    /\ Init /\ Page!Init
    \* A part that stays put need not do so in every one of its initial states.
    /\ level # "page" => \A p \in Posts : added[p] = 0

GateDoes(A) == level = "gate" /\ A /\ UNCHANGED <<level, pageVars>>
PageDoes(A) == level = "page" /\ A /\ UNCHANGED <<level, vars>>

MCSpec ==
    /\ MCInit /\ [][GateDoes(Next) \/ PageDoes(Page!Next)]_allVars
    /\ \A o \in SourceOps : WF_allVars(GateDoes(SourceEnd(o)))
    /\ \A a \in WsClients : WF_allVars(GateDoes(WsStep(a)))
    /\ \A a \in Jobs \cup Resumers : WF_allVars(GateDoes(HeldStep(a)))
    /\ \A a \in Internals : WF_allVars(GateDoes(InternalStep(a)))
    /\ \A a \in Starters : WF_allVars(GateDoes(RunStep(a)))
    /\ \A c \in Page!Clients : WF_allVars(PageDoes(Page!QueryStep(c))) /\ SF_allVars(PageDoes(Page!Enter(c)))

\* ScanGate: no lane, nor the source, stays closed for good.
GateAlwaysReopens == level = "gate" => GateReopens

\* Published: a kept page is that of a scan that finished, with the links it had.
KeptIsOfItsScan == Page!KeptIsOfItsScan

\* Published: the refresh after a scan leaves its page kept.
RefreshPublishes == Page!RefreshPublishes

\* Published: every request for a page is answered.
PagesAnswered == level = "page" => Page!PagesAnswered
=============================================================================

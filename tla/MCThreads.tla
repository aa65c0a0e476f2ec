----------------------------- MODULE MCThreads -----------------------------
(***************************************************************************)
(* For TLC: the three levels of a Threads scan in one run. The pass        *)
(* (ThreadsPass) sees of a check only its outcome, and the check           *)
(* (ThreadsPage) of a navigation only that it came to its page, so each    *)
(* behaviour is one of the pass, of one check, or of one page's            *)
(* navigations (ThreadsNavigation), while the other two stay put.          *)
(***************************************************************************)
EXTENDS ThreadsPass

CONSTANTS Numbers, Display, None, MaxPolls, Urls, Foreign, NoUrl, Budget, MaxNavs

ASSUME CheckAssumption == None \notin Numbers /\ Display \notin Numbers /\ None # Display
ASSUME NavAssumption == Budget \in Nat \ {0} /\ MaxNavs \in Nat /\ NoUrl \notin Urls

VARIABLES
    level,  \* whose behaviour this is
    signedIn, phase, request, found, verified, extracted, polls, final, cell, seen, nulled,
    nav, navs, attempt, url, claimed, remaining, pending, handler, target, finalUrl, goto, shown

pageVars == <<signedIn, phase, request, found, verified, extracted, polls, final, cell, seen, nulled>>
navVars == <<nav, navs, attempt, url, claimed, remaining, pending, handler, target, finalUrl, goto, shown>>
allVars == <<level, vars, pageVars, navVars>>

Page == INSTANCE ThreadsPage WITH session <- signedIn
Nav == INSTANCE ThreadsNavigation

MCInit ==
    /\ level \in {"pass", "check", "navigation"}
    /\ Init /\ Page!Init /\ Nav!Init
    \* A part that stays put need not do so in every one of its initial states.
    /\ level # "pass" => mode = "request" /\ session /\ store
    /\ level # "check" => signedIn /\ phase = "goto" /\ cell.likes = CHOOSE n \in Numbers : TRUE

PassDoes(A) == level = "pass" /\ A /\ UNCHANGED <<level, pageVars, navVars>>
CheckDoes == level = "check" /\ Page!Next /\ UNCHANGED <<level, vars, navVars>>
NavigationDoes == level = "navigation" /\ Nav!Next /\ UNCHANGED <<level, vars, pageVars>>

MCSpec ==
    /\ MCInit /\ [][PassDoes(Next) \/ CheckDoes \/ NavigationDoes]_allVars
    /\ \A i \in Items : WF_allVars(PassDoes(TaskStep(i)))
    /\ WF_allVars(PassDoes(LoopStep))

\* ThreadsPage: a signed-in check writes no number that its own page load did not prove.
OnlyProvedNumbers == Page!TypeOK /\ Page!OnlyProvedNumbers

\* ThreadsPage: no number of a row is given up for a worse one.
BestNumberStands == Page!BestNumberStands
NullGivesUpRounded == Page!NullGivesUpRounded

\* ThreadsNavigation: the address a page shows is the one its document was fetched from, and nothing
\* is fetched for a page that is not navigating.
NavigationSound == Nav!TypeOK /\ Nav!ShownIsFinal /\ Nav!IdleIsClosed

\* ThreadsPass: the pass ends, whatever is retired, refused or cancelled.
PassAlwaysEnds == level = "pass" => PassEnds
=============================================================================

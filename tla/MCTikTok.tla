------------------------------ MODULE MCTikTok ------------------------------
(***************************************************************************)
(* For TLC: a TikTok scan in one run. The pass (TikTokPass) sees of a      *)
(* check only that it is over, the check of a link (TikTokPage) nothing of *)
(* other links, and the names (TikTokNames) of a check only its status and *)
(* the name it found, so each behaviour is one of the pass, of one check,  *)
(* or of the names of one profile, while the other two stay put.           *)
(***************************************************************************)
EXTENDS TikTokPass, TikTokParse

CONSTANTS Modes, Limit, Retries, MaxPolls, Threads

VARIABLES
    level, \* whose behaviour this is
    mode, named, expected, browser, phase, attempt, used, again, outcome, landed, polls, previous,
    verdict, resolved, gone, answers, cell, hid, streak, found,
    generated, short, cache, attempted, lookups, nameAt, ok, name, was, nameCell

pageVars == <<mode, named, expected, browser, phase, attempt, used, again, outcome, landed, polls,
              previous, verdict, resolved, gone, answers, cell, hid, streak, found>>
nameVars == <<generated, short, cache, attempted, lookups, nameAt, ok, name, was, nameCell>>
allVars == <<level, vars, pageVars, nameVars>>

\* An item with both blobs, one without saves, two that are not plausible, one without likes.
Blob(views, likes, saves) == [views |-> views, likes |-> likes, saves |-> saves]
MCBlobs == {{Blob(2, 1, None), Blob(1, 2, 1)}, {Blob(1, 0, None)}, {Blob(0, 1, None)},
            {Blob(1, 6, 0)}, {Blob(1, None, None)}}

Page == INSTANCE TikTokPage WITH Valid <- Plausible
Names == INSTANCE TikTokNames WITH Workers <- Threads, at <- nameAt, cell <- nameCell

\* "No number" is none of the places and none of the readings.
ASSUME CheckAssumption ==
    /\ Limit \in Nat /\ Retries \in Nat /\ MaxPolls \in Nat
    /\ None \notin Places
    /\ \A withId \in BOOLEAN : \A r \in Readings[withId] :
         None # [counts |-> r.counts, place |-> r.place, titled |-> r.titled]

MCInit ==
    /\ level \in {"pass", "check", "names"}
    /\ Init /\ Page!Init /\ Names!Init
    \* A part that stays put need not do so in every one of its initial states.
    /\ level # "pass" => store /\ hands = RequestWorkers
    /\ level # "check" => mode = "request" /\ named /\ expected
    /\ level # "names" => ~generated /\ \A w \in Threads : ~short[w] /\ was[w] = ""

PassDoes(A) == level = "pass" /\ A /\ UNCHANGED <<level, pageVars, nameVars>>
CheckDoes == level = "check" /\ Page!Next /\ UNCHANGED <<level, vars, nameVars>>
NamesDo == level = "names" /\ Names!Next /\ UNCHANGED <<level, vars, pageVars>>

MCSpec ==
    /\ MCInit /\ [][PassDoes(Next) \/ CheckDoes \/ NamesDo]_allVars
    /\ \A w \in Workers : WF_allVars(PassDoes(WorkerStep(w)))
    /\ WF_allVars(PassDoes(MarkEnds \/ Released))
    /\ WF_allVars(PassDoes(PassStep))

\* TikTokPage: a row's numbers are its post's, cleared only on proof, and written when read.
RowOfItsPost == Page!RowOfItsPost

\* TikTokPage: a row's numbers are cleared only for what was proved of its own post.
ClearedForItsPost == Page!ClearedForItsPost

\* TikTokNames: one request for a profile page; a failed check keeps a name; no generated id.
NamesSound == Names!NamesSound

\* TikTokNames: no handle replaces a nickname.
NicknameStands == Names!NicknameStands

\* TikTokPass: a pass ends, however many workers die.
PassAlwaysEnds == level = "pass" => PassEnds
=============================================================================

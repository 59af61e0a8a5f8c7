---------------------------- MODULE MCReviewers ----------------------------
\* What reviewers say and are told: one call of a reviewer, or what the memory makes of
\* proposals, or the lore of the project.
EXTENDS Reviewer, Brain, Lore

CONSTANTS ta, tb, tc, td   \* texts: ta, tb and tc are near to each other, ta and tb the same

NearTexts == {ta, tb, tc} \X {ta, tb, tc} \cup {<<td, td>>}
SameTexts == {ta, tb} \X {ta, tb} \cup {<<tc, tc>>, <<td, td>>}

By(p, persona) == [provider |-> p, persona |-> persona]
Says(t, by) == [text |-> t, by |-> by, diff |-> FALSE, cited |-> FALSE, sure |-> 1, wide |-> FALSE, loose |-> FALSE]
codex == By(<<"codex">>, <<"security">>)
codex2 == By(<<"codex">>, <<"code", "quality">>)
gemini == By(<<"gemini">>, <<"security">>)
claude == By(<<"claude", "code">>, <<"security">>)
claude2 == By(<<"claude", "code">>, <<"code", "quality">>)
ollama == By(<<"ollama">>, <<"security">>)

Quiet == [reviews |-> 3, offers |-> {}, plan |-> FALSE, sessions |-> 2, trouble |-> FALSE, judge |-> FALSE,
         revokes |-> FALSE, days |-> 0]

\* One provider a review, over sessions.
Turns == [Quiet EXCEPT !.offers = {<<Says(ta, codex)>>, <<Says(tc, codex2)>>, <<Says(tb, gemini)>>}, !.reviews = 4]

\* What two say while the limit is reached.
Crowd == [Quiet EXCEPT !.offers = {<<Says(ta, codex), Says(tb, gemini), Says(td, codex)>>, <<Says(td, gemini)>>,
                                  <<Says(ta, ollama), Says(td, codex2)>>}]

\* Read off the diff, by up to three.
Diffs == [Quiet EXCEPT !.reviews = 4,
            !.offers = {<<[Says(ta, codex) EXCEPT !.diff = TRUE], [Says(tc, codex2) EXCEPT !.diff = TRUE]>>,
                        <<[Says(tb, gemini) EXCEPT !.sure = 2]>>,
                        <<[Says(ta, claude) EXCEPT !.diff = TRUE], Says(tc, claude2)>>}]

\* With pages to fetch, a judge, and a scope that is too wide.
Pages == [Quiet EXCEPT !.judge = TRUE,
            !.offers = {<<[Says(ta, codex) EXCEPT !.cited = TRUE]>>, <<Says(ta, codex2)>>,
                        <<[Says(tb, gemini) EXCEPT !.cited = TRUE, !.diff = TRUE, !.wide = TRUE]>>}]

\* Notes fade, come back, go, and curators die.
Fading == [Quiet EXCEPT !.offers = {<<Says(ta, codex), Says(tb, gemini)>>, <<Says(tb, codex2), Says(tc, claude)>>}, !.sessions = 1,
             !.trouble = TRUE, !.revokes = TRUE, !.days = 5]

\* A plan review in between.
Plans == [Quiet EXCEPT !.offers = {<<Says(ta, codex), Says(td, codex)>>, <<Says(tb, gemini), Says(td, gemini)>>}, !.plan = TRUE, !.trouble = TRUE]

\* Loosely formed proposals.
Loose == [Quiet EXCEPT !.offers = {<<[Says(ta, codex) EXCEPT !.loose = TRUE]>>, <<Says(tb, gemini)>>,
                                  <<[Says(ta, codex2) EXCEPT !.loose = TRUE], Says(td, gemini)>>}]

NoMemory == [Quiet EXCEPT !.reviews = 0, !.sessions = 1]
AllMemories == {NoMemory, Turns, Crowd, Diffs, Pages, Fading, Plans, Loose}

\* Calls of all six adapters, with and without retries.
Finding == [blocking : BOOLEAN, fits : BOOLEAN]
SomeAnswers == [verdict : {"PASS", "FAIL"}, found : {{}} \cup {{f, g} : f, g \in Finding}]

Providers6 == {"codex", "claude-code", "gemini", "opencode", "openrouter", "ollama"}
AllOrders == [p : Providers6, once : {FALSE}, key : {TRUE}] \cup [p : {"codex", "gemini"}, once : {TRUE}, key : {TRUE}]
             \cup [p : Http, once : {FALSE}, key : {FALSE}]

Page(status) == [status |-> status, verified |-> 1]

\* A page that goes stale, and is said to be fixed; two of them; pages that become
\* canon; a human at the command line.
Reminded == [pages |-> <<Page("canon"), Page("draft")>>, approved |-> {1}, visits |-> 3, edits |-> 2, days |-> 1,
             prompts |-> 0]
Crowded == [Reminded EXCEPT !.pages = <<Page("canon"), Page("canon")>>, !.approved = {1, 2}, !.edits = 1, !.days = 2,
                            !.visits = 4]
Promoted == [Reminded EXCEPT !.pages = <<Page("draft"), Page("absent")>>, !.approved = {}, !.days = 0]
Asked == [Reminded EXCEPT !.pages = <<Page("canon"), Page("draft")>>, !.approved = {}, !.days = 0, !.visits = 2,
                          !.prompts = 1]
AllLore == {Reminded, Crowded, Promoted, Asked}

LoreOff ==
    /\ spare = [Asked EXCEPT !.visits = 0, !.edits = 0, !.prompts = 0]
    /\ pages = spare.pages /\ based = <<"canon", "draft">> /\ approvals = {} /\ code = 1 /\ date = 1
    /\ desk = [iter |-> 0, claimed |-> {}, cool |-> <<0, 0>>, last |-> 0]
    /\ pending = NoReport /\ decided = NoDecisions /\ visit = NoGate /\ served = {} /\ prompt = NoPrompt
    /\ word = [vouched |-> {}, said |-> {}, unheard |-> {}, heard |-> <<0, 0>>]

NoCall ==
    /\ order = CHOOSE o \in Orders : TRUE
    /\ phase = "off" /\ try = 1 /\ child = Nobody /\ pipe = NoPipe /\ cut = FALSE
    /\ lastFile = [n \in 1 .. 2 |-> NoFile] /\ kept = NoResult /\ result = NoResult /\ heard = {}

Init ==
    \/ BrainInit /\ LoreOff /\ IF memory = NoMemory THEN RevInit ELSE NoCall
    \/ BrainInit /\ memory = NoMemory /\ NoCall /\ LoreInit

Next ==
    \/ Prints /\ UNCHANGED <<brainVars, loreVars>>
    \/ WritesLast /\ UNCHANGED <<brainVars, loreVars>>
    \/ Forks /\ UNCHANGED <<brainVars, loreVars>>
    \/ Exits /\ UNCHANGED <<brainVars, loreVars>>
    \/ HelperEnds /\ UNCHANGED <<brainVars, loreVars>>
    \/ Spawn /\ UNCHANGED <<brainVars, loreVars>>
    \/ OnExit /\ UNCHANGED <<brainVars, loreVars>>
    \/ Settle /\ UNCHANGED <<brainVars, loreVars>>
    \/ Read /\ UNCHANGED <<brainVars, loreVars>>
    \/ ReadProbe /\ UNCHANGED <<brainVars, loreVars>>
    \/ NoKey /\ UNCHANGED <<brainVars, loreVars>>
    \/ Request /\ UNCHANGED <<brainVars, loreVars>>
    \/ CannotSpawn /\ UNCHANGED <<brainVars, loreVars>>
    \/ Data /\ UNCHANGED <<brainVars, loreVars>>
    \/ Timeout /\ UNCHANGED <<brainVars, loreVars>>
    \/ Watchdog /\ UNCHANGED <<brainVars, loreVars>>
    \/ Deadline /\ UNCHANGED <<brainVars, loreVars>>
    \/ RequestEnds /\ UNCHANGED <<brainVars, loreVars>>
    \/ Response /\ UNCHANGED <<brainVars, loreVars>>
    \/ \E k \in Curators, said \in memory.offers : Collect(k, said) /\ UNCHANGED <<revVars, loreVars>>
    \/ \E k \in Curators : DecayNotes(k) /\ UNCHANGED <<revVars, loreVars>>
    \/ \E k \in Curators : \E got \in SUBSET DOMAIN job[k].said : Fetch(k, got) /\ UNCHANGED <<revVars, loreVars>>
    \/ \E k \in Curators : Embed(k) /\ UNCHANGED <<revVars, loreVars>>
    \/ \E k \in Curators : EmbedFails(k) /\ UNCHANGED <<revVars, loreVars>>
    \/ \E k \in Curators : Weigh(k) /\ UNCHANGED <<revVars, loreVars>>
    \/ \E k \in Curators : Finish(k) /\ UNCHANGED <<revVars, loreVars>>
    \/ \E k \in Curators : Look(k) /\ UNCHANGED <<revVars, loreVars>>
    \/ \E k \in Curators : Bump(k) /\ UNCHANGED <<revVars, loreVars>>
    \/ \E k \in Curators, accept \in BOOLEAN : Ask(k, accept) /\ UNCHANGED <<revVars, loreVars>>
    \/ \E k \in Curators : Add(k) /\ UNCHANGED <<revVars, loreVars>>
    \/ \E k \in Curators : Spend(k) /\ UNCHANGED <<revVars, loreVars>>
    \/ \E k \in Curators : Cut(k) /\ UNCHANGED <<revVars, loreVars>>
    \/ ClearPool /\ UNCHANGED <<revVars, loreVars>>
    \/ StartSession /\ UNCHANGED <<revVars, loreVars>>
    \/ \E i \in DOMAIN notes : RevokeNote(i) /\ UNCHANGED <<revVars, loreVars>>
    \/ \E t \in 1 .. memory.days : Pass(t) /\ UNCHANGED <<revVars, loreVars>>
    \/ Absorb /\ UNCHANGED <<revVars, brainVars>>
    \/ AskHuman /\ UNCHANGED <<revVars, brainVars>>
    \/ AsksForDecisions /\ UNCHANGED <<revVars, brainVars>>
    \/ Load /\ UNCHANGED <<revVars, brainVars>>
    \/ Serve /\ UNCHANGED <<revVars, brainVars>>
    \/ \E verdict \in {"pass", "fail", "critical"} : Report(verdict) /\ UNCHANGED <<revVars, brainVars>>
    \/ Incomplete /\ UNCHANGED <<revVars, brainVars>>
    \/ Book /\ UNCHANGED <<revVars, brainVars>>
    \/ Leave /\ UNCHANGED <<revVars, brainVars>>
    \/ KillGate /\ UNCHANGED <<revVars, brainVars>>
    \/ \E i \in DOMAIN pending.lore, verdict \in {"fixed", "rejected"} : DecideLore(i, verdict) /\ UNCHANGED <<revVars, brainVars>>
    \/ DecideDefect /\ UNCHANGED <<revVars, brainVars>>
    \/ \E i \in Entries, status \in {"absent", "draft", "canon", "broken"} : EditPage(i, status) /\ UNCHANGED <<revVars, brainVars>>
    \/ EditAnchored /\ UNCHANGED <<revVars, brainVars>>
    \/ \E i \in Entries : VerifyPage(i) /\ UNCHANGED <<revVars, brainVars>>
    \/ CommitPages /\ UNCHANGED <<revVars, brainVars>>
    \/ NextDay /\ UNCHANGED <<revVars, brainVars>>
    \/ \E i \in Entries : Preflight(i) /\ UNCHANGED <<revVars, brainVars>>
    \/ Confirm /\ UNCHANGED <<revVars, brainVars>>
    \/ AppendApproval /\ UNCHANGED <<revVars, brainVars>>

Spec == Init /\ [][Next]_<<revVars, brainVars, loreVars>> /\ RevFairness
=============================================================================

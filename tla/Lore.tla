-------------------------------- MODULE Lore --------------------------------
(***************************************************************************)
(* Project lore: pages of .reviewgate/lore, which reviewers are told once  *)
(* they are canon and approved.  The gate asks about every page that       *)
(* becomes canon without an approval, and reminds of a page whose anchored *)
(* files changed since somebody verified it; the answers are absorbed at   *)
(* the next stop.  A human approves at the command line.                   *)
(*                                                                         *)
(* The anchors of every page reach files of the diff.  Variable `word` and *)
(* field `owed` are history.                                               *)
(***************************************************************************)
EXTENDS Naturals, Sequences, FiniteSets, SequencesExt

CONSTANTS
    LoreScenes,     \* what may happen: [pages, approved, visits, edits, days, prompts]
    Room,           \* pages that fit in maxInjectChars
    CooldownDays,   \* rejectedReminderCooldownDays
    LoreRounds,     \* maxIterations
    NoPrompt,
    GateDies        \* bound: where a gate may be killed, of "absorbed", "reviewing", "written"

ASSUME LoreAssumption ==
    /\ Room \in Nat /\ {CooldownDays, LoreRounds} \subseteq Nat \ {0}
    /\ GateDies \subseteq {"absorbed", "reviewing", "written"}
    /\ \A s \in LoreScenes : IsFiniteSet(DOMAIN s.pages)

VARIABLES
    spare,      \* what is left of the scene
    pages,      \* the files, by the rank of their anchors: [status, verified]
    based,      \* what they said of their status at the base of the review
    approvals,  \* approvals.jsonl
    code,       \* the anchored files, which are the diff
    date,       \* the clock, in local days
    desk,       \* state.json: [iter, claimed, cool, last]
    pending,    \* pending.json: [lore, defect]
    decided,    \* decisions/<iter>.jsonl
    visit,      \* the gate that runs
    served,     \* the cache and the ledger of passes
    prompt,     \* lore approve
    word        \* [vouched, said, unheard, heard]: what was answered

loreVars == <<spare, pages, based, approvals, code, date, desk, pending, decided, visit, served, prompt, word>>
files == <<pages, based, code>>

Entries == DOMAIN pages
NoReport == [lore |-> <<>>, defect |-> FALSE]
NoDecisions == [lore |-> <<>>, defect |-> FALSE]
NoGate == [pc |-> "none"]

(***************************************************************************)
(* A page.                                                                 *)
(***************************************************************************)

Parses(e) == pages[e].status \in {"draft", "canon"}

\* What a page says of its status, whether or not the rest can be parsed.
Declares(e) == IF pages[e].status = "broken" THEN "canon" ELSE pages[e].status

Stale(e) == pages[e].verified # code

\* What may be told, and what fits, the pages with the narrowest anchors first.
Selected == {e \in Entries : pages[e].status = "canon" /\ e \in approvals}
Told == {e \in Selected : Cardinality({f \in Selected : f < e}) < Room}

Promotions == {e \in Entries : Declares(e) = "canon" /\ based[e] # "canon" /\ e \notin approvals}

(***************************************************************************)
(* The gate.                                                               *)
(***************************************************************************)

\* The findings of this kind that the agent decided in this way.
Answered(kind, verdict) ==
    {n \in DOMAIN pending.lore \cap DOMAIN decided.lore : pending.lore[n].kind = kind /\ decided.lore[n] = verdict}
About(kind, verdict) == {pending.lore[n].page : n \in Answered(kind, verdict)}

Confirmed_Answered == About("canon-promotion", "fixed") \cup About("canon-promotion", "rejected")
Confirmed == About("canon-promotion", "fixed")

\* At every stop the answers are absorbed again.
Absorb ==
    /\ visit.pc = "none" /\ spare.visits > 0
    /\ LET rejected == About("reminder", "rejected") IN
         /\ approvals' = approvals \cup Confirmed
         /\ desk' = [desk EXCEPT
                       !.claimed = @ \cup About("reminder", "fixed"),
                       !.cool = [e \in Entries |-> IF e \in rejected /\ @[e] = 0 THEN date + CooldownDays ELSE @[e]]]
         /\ word' = [word EXCEPT
                       !.said = @ \cup {e \in About("reminder", "fixed") : Parses(e) /\ Stale(e)},
                       !.heard = [e \in Entries |-> IF e \in rejected \cap word.unheard THEN date ELSE @[e]],
                       !.unheard = @ \ rejected]
    /\ visit' = [pc |-> "absorbed"] /\ spare' = [spare EXCEPT !.visits = @ - 1]
    /\ UNCHANGED <<files, date, pending, decided, served, prompt>>

\* After too many rounds the human is asked, and the cycle ends.
AskHuman ==
    /\ visit.pc = "absorbed" /\ desk.iter >= LoreRounds
    /\ desk' = [desk EXCEPT !.iter = 0] /\ decided' = NoDecisions /\ visit' = NoGate
    /\ UNCHANGED <<spare, files, approvals, date, pending, served, prompt, word>>

Undecided ==
    /\ desk.iter > 0
    /\ ~(DOMAIN pending.lore \subseteq DOMAIN decided.lore) \/ (pending.defect /\ ~decided.defect)

AsksForDecisions ==
    /\ visit.pc = "absorbed" /\ desk.iter < LoreRounds /\ Undecided /\ visit' = NoGate
    /\ UNCHANGED <<spare, files, approvals, date, desk, pending, decided, served, prompt, word>>

StillStale == {e \in desk.claimed : Parses(e) /\ Stale(e)}
Cooling == {e \in Entries : desk.cool[e] > date}
Allowed == desk.last # date \/ StillStale # {}
Candidates == {e \in Selected : Stale(e)} \ Cooling
ReminderDue_Never == FALSE
ReminderDue == Allowed /\ Candidates # {}

\* The behaviour hash: what is told, marks included, and what waits for an approval.
Key == [code |-> code, told |-> {<<e, Stale(e)>> : e \in Told}, waits |-> {<<e, based[e]>> : e \in Promotions}]

\* The pages a review at this moment must remind of, by what was answered.
Owed ==
    {e \in Selected :
        /\ Stale(e)
        /\ word.heard[e] = 0 \/ date >= word.heard[e] + CooldownDays
        /\ desk.last # date \/ \E f \in word.said : Parses(f) /\ Stale(f)}

\* The review begins: what it needs of the lore is read.
Load ==
    /\ visit.pc = "absorbed" /\ desk.iter < LoreRounds /\ ~Undecided
    /\ desk' = [desk EXCEPT !.claimed = StillStale,
                            !.cool = [e \in Entries |-> IF e \in Cooling THEN @[e] ELSE 0]]
    /\ visit' = [pc |-> "reviewing", key |-> Key, told |-> Told, promotions |-> Promotions, allowed |-> Allowed,
                 candidates |-> Candidates, claimed |-> StillStale, due |-> ReminderDue, owed |-> Owed]
    /\ UNCHANGED <<spare, files, approvals, date, pending, decided, served, prompt, word>>

\* The cycle ends on a pass.
Passes ==
    /\ desk' = [desk EXCEPT !.iter = 0] /\ decided' = NoDecisions
    /\ visit' = [visit EXCEPT !.pc = "green"]

CacheHit == visit.key \in served /\ ~visit.due

\* A pass of the same content is served again, without a panel.
Serve ==
    /\ visit.pc = "reviewing" /\ CacheHit /\ pending' = NoReport /\ Passes
    /\ UNCHANGED <<spare, files, approvals, date, served, prompt, word>>

\* One page is reminded of, first one that was said to be fixed.
Reminders(verdict) ==
    IF ~visit.allowed \/ verdict = "critical" \/ visit.candidates = {} THEN {<<>>}
    ELSE LET first == visit.candidates \cap visit.claimed IN
         {<<[kind |-> "reminder", page |-> e]>> : e \in IF first # {} THEN first ELSE visit.candidates}
ByName(S) == SetToSortSeq(S, <)
Guard ==
    LET asked == ByName(visit.promotions)
    IN  [n \in 1 .. Cardinality(visit.promotions) |-> [kind |-> "canon-promotion", page |-> asked[n]]]

\* The panel is through: its report, and what the cache keeps of it.
Report(verdict) ==
    /\ visit.pc = "reviewing" /\ ~CacheHit
    /\ \E reminder \in Reminders(verdict) :
         pending' = [lore |-> reminder \o Guard, defect |-> verdict # "pass"]
    /\ served' = served \cup IF verdict = "pass" /\ pending'.lore = <<>> THEN {visit.key} ELSE {}
    /\ visit' = [visit EXCEPT !.pc = "written"]
    /\ UNCHANGED <<spare, files, approvals, date, desk, decided, prompt, word>>

\* No verdict in time: the report goes, the round is not counted.
Incomplete ==
    /\ visit.pc = "reviewing" /\ ~CacheHit /\ pending' = NoReport /\ visit' = NoGate
    /\ UNCHANGED <<spare, files, approvals, date, desk, decided, served, prompt, word>>

DecisionRequired == pending.defect \/ pending.lore # <<>>

\* The round is counted.
Book ==
    /\ visit.pc = "written"
    /\ LET last == IF \E n \in DOMAIN pending.lore : pending.lore[n].kind = "reminder" THEN date ELSE desk.last IN
       IF DecisionRequired
       THEN /\ desk' = [desk EXCEPT !.iter = @ + 1, !.last = last]
            /\ decided' = NoDecisions /\ visit' = NoGate
       ELSE Passes
    /\ UNCHANGED <<spare, files, approvals, date, pending, served, prompt, word>>

Leave ==
    /\ visit.pc = "green" /\ visit' = NoGate
    /\ UNCHANGED <<spare, files, approvals, date, desk, pending, decided, served, prompt, word>>

KillGate ==
    /\ visit.pc \in GateDies /\ visit' = NoGate
    /\ UNCHANGED <<spare, files, approvals, date, desk, pending, decided, served, prompt, word>>

(***************************************************************************)
(* The agent and the human.                                                *)
(***************************************************************************)

\* The agent decides, or changes its mind.
DecideLore(n, verdict) ==
    /\ visit.pc = "none" /\ desk.iter > 0 /\ n \in DOMAIN pending.lore
    /\ \A k \in 1 .. n - 1 : k \in DOMAIN decided.lore
    /\ n \in DOMAIN decided.lore => decided.lore[n] # verdict
    /\ decided' = [decided EXCEPT !.lore = [k \in DOMAIN @ \cup {n} |-> IF k = n THEN verdict ELSE @[k]]]
    /\ LET e == pending.lore[n].page IN
       word' = CASE pending.lore[n].kind = "canon-promotion" /\ verdict = "fixed" -> [word EXCEPT !.vouched = @ \cup {e}]
                 [] pending.lore[n].kind = "reminder" /\ verdict = "rejected" -> [word EXCEPT !.unheard = @ \cup {e}]
                 [] OTHER -> word
    /\ UNCHANGED <<spare, files, approvals, date, desk, pending, visit, served, prompt>>

DecideDefect ==
    /\ visit.pc = "none" /\ desk.iter > 0 /\ pending.defect /\ ~decided.defect
    /\ decided' = [decided EXCEPT !.defect = TRUE]
    /\ UNCHANGED <<spare, files, approvals, date, desk, pending, visit, served, prompt, word>>

Spends == spare.edits > 0 /\ spare' = [spare EXCEPT !.edits = @ - 1]

EditPage(e, status) ==
    /\ Spends /\ status # pages[e].status
    /\ pages' = [pages EXCEPT ![e].status = status, ![e].verified = IF pages[e].status = "absent" THEN code ELSE @]
    /\ word' = [word EXCEPT !.said = @ \ {e}]
    /\ UNCHANGED <<based, approvals, code, date, desk, pending, decided, visit, served, prompt>>

\* The code changes, or changes back.
EditAnchored ==
    /\ Spends /\ code' = 3 - code
    /\ word' = [word EXCEPT !.said = {e \in @ : pages[e].verified # code'}]
    /\ UNCHANGED <<pages, based, approvals, date, desk, pending, decided, visit, served, prompt>>

\* lore verify
VerifyPage(e) ==
    /\ Parses(e) /\ Stale(e)
    /\ pages' = [pages EXCEPT ![e].verified = code]
    /\ word' = [word EXCEPT !.said = @ \ {e}]
    /\ UNCHANGED <<spare, based, approvals, code, date, desk, pending, decided, visit, served, prompt>>

\* A commit between cycles moves the base.
CommitPages ==
    /\ visit.pc = "none" /\ desk.iter = 0 /\ based' = [e \in Entries |-> Declares(e)] /\ based' # based
    /\ UNCHANGED <<spare, pages, approvals, code, date, desk, pending, decided, visit, served, prompt, word>>

NextDay ==
    /\ spare.days > 0 /\ spare' = [spare EXCEPT !.days = @ - 1] /\ date' = date + 1
    /\ UNCHANGED <<files, approvals, desk, pending, decided, visit, served, prompt, word>>

Approvable(e) == e \notin approvals /\ pages[e].status = "canon"

\* lore approve prints the page and the challenge, which is of these bytes.
Preflight(e) ==
    /\ prompt = NoPrompt /\ spare.prompts > 0 /\ spare' = [spare EXCEPT !.prompts = @ - 1]
    /\ Approvable(e) /\ prompt' = [pc |-> "shown", page |-> e, bytes |-> pages[e]]
    /\ UNCHANGED <<files, approvals, date, desk, pending, decided, visit, served, word>>

\* The human types it in, and the page is looked at again.
Confirm ==
    /\ prompt # NoPrompt /\ prompt.pc = "shown"
    /\ IF Approvable(prompt.page) /\ pages[prompt.page] = prompt.bytes
       THEN prompt' = [prompt EXCEPT !.pc = "append"] /\ word' = [word EXCEPT !.vouched = @ \cup {prompt.page}]
       ELSE prompt' = NoPrompt /\ word' = word
    /\ UNCHANGED <<spare, files, approvals, date, desk, pending, decided, visit, served>>

AppendApproval ==
    /\ prompt # NoPrompt /\ prompt.pc = "append"
    /\ approvals' = approvals \cup {prompt.page} /\ prompt' = NoPrompt
    /\ UNCHANGED <<spare, files, date, desk, pending, decided, visit, served, word>>

LoreInit ==
    /\ spare \in LoreScenes
    /\ pages = spare.pages /\ based = [e \in Entries |-> Declares(e)] /\ approvals = spare.approved
    /\ code = 1 /\ date = 1 /\ desk = [iter |-> 0, claimed |-> {}, cool |-> [e \in Entries |-> 0], last |-> 0]
    /\ pending = NoReport /\ decided = NoDecisions /\ visit = NoGate /\ served = {} /\ prompt = NoPrompt
    /\ word = [vouched |-> approvals, said |-> {}, unheard |-> {}, heard |-> [e \in Entries |-> 0]]

LoreNext ==
    \/ Absorb \/ AskHuman \/ AsksForDecisions \/ Load \/ Serve \/ Incomplete \/ Book \/ Leave \/ KillGate
    \/ \E verdict \in {"pass", "fail", "critical"} : Report(verdict)
    \/ \E n \in DOMAIN pending.lore, verdict \in {"fixed", "rejected"} : DecideLore(n, verdict)
    \/ DecideDefect \/ EditAnchored \/ CommitPages \/ NextDay \/ Confirm \/ AppendApproval
    \/ \E e \in Entries, status \in {"absent", "draft", "canon", "broken"} : EditPage(e, status)
    \/ \E e \in Entries : VerifyPage(e) \/ Preflight(e)

LoreSpec == LoreInit /\ [][LoreNext]_loreVars

(***************************************************************************)
(* Properties.                                                             *)
(***************************************************************************)

\* What reviewers are told as approved was vouched for: the agent answered, for this
\* page, that the human agrees, or the human confirmed it at the command line while it
\* was canon.  The answers are found again by the number of a finding, in the report
\* that is there at the next stop (loop-driver.ts, absorbLoreDecisions).
ToldIsVouched == visit.pc \notin {"none", "absorbed"} => visit.told \subseteq word.vouched

\* A pass that lets the agent go leaves nothing unsaid: no page waited for an approval
\* when the review began, and no reminder was owed: neither the cache, nor the cap of a
\* day, nor a claim that a page was fixed, nor an old rejection swallowed one.
GreenSaysAll == visit.pc = "green" => visit.promotions = {} /\ visit.owed = {}
=============================================================================

------------------------------- MODULE Bench -------------------------------
(***************************************************************************)
(* The benchmark engine of src/cli/commands/bench.ts: a baseline is run    *)
(* live and every answer of a provider captured; the other profiles, each  *)
(* with some policy passes switched off, are run again from what was       *)
(* captured.  Reviewers of one case work side by side, so calls are        *)
(* numbered when they are made and captured when they are answered.        *)
(*                                                                         *)
(* What a policy pass does to findings is in Verdict; here it only shows   *)
(* in what the critic is asked (`early`: a pass before the critic is off). *)
(* Every profile reads the versions of its providers after its last case,  *)
(* one after the other: those preflights are left out.                     *)
(***************************************************************************)
EXTENDS Naturals, Sequences, FiniteSets, SequencesExt

CONSTANTS
    Benches,   \* the benchmarks to look at
    NoText

\* A benchmark has a baseline, and the critic is none of its reviewers.
ASSUME BenchesAssumption ==
    \A b \in Benches :
        /\ b.reviewers \in Seq(Range(b.reviewers)) /\ "critic" \notin Range(b.reviewers)
        /\ b.profiles \in Seq(Range(b.profiles)) /\ Len(b.profiles) > 0
        /\ b.cases \in Seq(Range(b.cases)) /\ b.repeats \in Nat

VARIABLES
    bench,     \* the benchmark, fixed
    stage,     \* what is going on: a profile runs, or how it ended
    calls,     \* the call of each reviewer, and the critic's, in the case that runs
    turn,      \* nextOrdinal of the capture, or the cursor of the replay
    budget,    \* the provider-call budget of the whole benchmark
    capture,   \* what was captured: the entries, and the sticky mismatch
    rows,      \* the cases this profile has run
    results,   \* the results of the profiles that ended
    head,      \* the commit checked out
    told       \* history: what was asked and answered, profile by profile

benchVars == <<bench, stage, calls, turn, budget, capture, rows, results, head, told>>

Slots == DOMAIN bench.reviewers
Critic == Len(bench.reviewers) + 1
Agents == 1 .. Critic
Profile == bench.profiles[stage.profile]
Live == stage.profile = 1

\* Repeats outer, cases inner: the rows of a profile in the order they are run.
RowCount == bench.repeats * Len(bench.cases)
Case(n) == bench.cases[((n - 1) % Len(bench.cases)) + 1]
RepeatOf(n) == ((n - 1) \div Len(bench.cases)) + 1
Now == Len(rows) + 1

NoAnswer == [out |-> "none", ok |-> FALSE, text |-> NoText]
Unasked == [state |-> "unasked", try |-> 0, ordinal |-> 0, answer |-> NoAnswer, texts |-> <<>>]

Ok(a) == calls[a].state = "done" /\ calls[a].answer.out = "return" /\ calls[a].answer.ok
Finds(a) == Ok(a) /\ calls[a].answer.text \in bench.findings

(***************************************************************************)
(* One call.                                                               *)
(***************************************************************************)

\* What the critic is shown are the findings that came so far.
Prompt(a) ==
    IF a \in Slots THEN [case |-> Case(Now).id, shown |-> <<>>, early |-> FALSE]
    ELSE [case |-> Case(Now).id, early |-> Profile.early,
          shown |-> [s \in Slots |-> IF Finds(s) THEN calls[s].answer.text ELSE NoText]]

\* reviewRequestHash and completionRequestHash: a reviewer is its provider and
\* persona, whatever slot it sits in.
Request(a, ordinal) ==
    [who |-> IF a \in Slots THEN bench.reviewers[a] ELSE "critic", ordinal |-> ordinal, prompt |-> Prompt(a)]

MaxAttempts(a) == IF a \in Slots THEN bench.attempts ELSE bench.criticAttempts

Charged(a, try) == Live
\* One attempt of a, whose call is c so far.  A call that is not paid for is not
\* made: the review ends in an error whatever came before, and the critic's other
\* attempts would meet the same end.
Send(a, c) ==
    LET try == c.try + 1
        charged == Charged(a, try)
        refused == charged /\ budget.used >= bench.ceiling
    IN  /\ budget' = CASE refused -> [budget EXCEPT !.exceeded = TRUE]
                       [] charged /\ ~refused -> [budget EXCEPT !.used = @ + 1]
                       [] OTHER -> budget
        /\ calls' = [calls EXCEPT ![a] = IF refused THEN [c EXCEPT !.state = "done", !.answer = NoAnswer]
                                         ELSE [c EXCEPT !.state = "asked", !.try = try, !.ordinal = turn]]
        /\ turn' = IF refused THEN turn ELSE turn + 1

\* A reviewer that throws leaves its loop, the critic's throws are caught in it.
LastTry(a, r) ==
    \/ r.out = "return" /\ r.ok
    \/ r.out # "return" /\ a \in Slots
    \/ calls[a].try = MaxAttempts(a)

\* The answer r reaches a: taken, or asked again at once.
Deliver(a, r) ==
    LET c == [calls[a] EXCEPT !.texts = IF r.out = "return" /\ r.text # NoText THEN Append(@, r.text) ELSE @]
    IN  /\ told' = [told EXCEPT ![stage.profile] = @ \cup
                       {[row |-> Now, agent |-> a, try |-> c.try, ordinal |-> c.ordinal, prompt |-> Prompt(a), answer |-> r]}]
        /\ IF LastTry(a, r)
           THEN /\ calls' = [calls EXCEPT ![a] = [c EXCEPT !.state = "done", !.answer = r]]
                /\ UNCHANGED <<budget, turn>>
           ELSE Send(a, c)

(***************************************************************************)
(* One case.                                                               *)
(***************************************************************************)

Running == stage.pc = "running"
Asked(a) == calls[a].state # "unasked"
Done(a) == calls[a].state = "done"

\* The panel opens: the slots ask in their order, before anybody is answered.
OpenSlot(s) ==
    /\ Running /\ Now <= RowCount
    /\ ~Asked(s) /\ \A t \in Slots : t < s => Asked(t)
    /\ Send(s, calls[s])
    /\ UNCHANGED <<bench, stage, capture, rows, results, head, told>>

\* The panel has settled and found something.
AskCritic ==
    /\ Running /\ Now <= RowCount
    /\ bench.critic /\ ~Asked(Critic)
    /\ \A s \in Slots : Done(s)
    /\ \E s \in Slots : Finds(s)
    /\ Send(Critic, calls[Critic])
    /\ UNCHANGED <<bench, stage, capture, rows, results, head, told>>

Waiting(a) == Running /\ calls[a].state = "asked" /\ \A s \in Slots : Asked(s)

\* captureReviewerAdapters: the answer of a provider, captured with the case that
\* runs now.  A throw that could not be raised again spoils the benchmark.
Capture(a) ==
    /\ Live /\ Waiting(a)
    /\ \E r \in IF a \in Slots THEN bench.replies ELSE bench.criticReplies :
        /\ capture' = IF r.out = "odd" THEN [capture EXCEPT !.mismatch = TRUE]
                      ELSE [capture EXCEPT !.entries = Append(@,
                               [request |-> Request(a, calls[a].ordinal), answer |-> r,
                                case |-> Case(Now).id, repeat |-> RepeatOf(Now)])]
        /\ Deliver(a, r)
    /\ UNCHANGED <<bench, stage, rows, results, head>>

Expected_ByOrder(a) == calls[a].ordinal < Len(capture.entries)
Expected(a) ==
    /\ calls[a].ordinal < Len(capture.entries)
    /\ capture.entries[calls[a].ordinal + 1].request = Request(a, calls[a].ordinal)

\* replayReviewerAdapters: the captured answer at the cursor, if it was given to
\* this very request.
Replay(a) ==
    /\ ~Live /\ Waiting(a)
    /\ IF Expected(a)
       THEN Deliver(a, capture.entries[calls[a].ordinal + 1].answer) /\ UNCHANGED capture
       ELSE /\ capture' = [capture EXCEPT !.mismatch = TRUE]
            /\ Deliver(a, IF a \in Slots THEN [out |-> "return", ok |-> FALSE, text |-> NoText]
                          ELSE [out |-> "throw", ok |-> FALSE, text |-> NoText])
    /\ UNCHANGED <<bench, stage, rows, results, head>>

\* The trace of a case lists the final answer of each slot and all of the critic's;
\* a case no reviewer completed has no trace.
Row ==
    [case |-> Case(Now), repeat |-> RepeatOf(Now),
     oks |-> {s \in Slots : Ok(s)},
     critic |-> IF ~Asked(Critic) THEN "none" ELSE IF calls[Critic].answer.ok THEN "ran" ELSE "failed",
     raw |-> FoldLeft(LAMBDA acc, s : IF calls[s].answer.text = NoText THEN acc
                                      ELSE Append(acc, calls[s].answer.text),
                      <<>>, [s \in Slots |-> s]) \o calls[Critic].texts]

CloseCase ==
    /\ Running /\ Now <= RowCount
    /\ \A s \in Slots : Done(s)
    /\ IF bench.critic /\ \E s \in Slots : Finds(s) THEN Done(Critic) ELSE TRUE
    /\ rows' = Append(rows, Row)
    /\ calls' = [a \in Agents |-> Unasked]
    /\ UNCHANGED <<bench, stage, turn, budget, capture, results, head, told>>

(***************************************************************************)
(* One profile.                                                            *)
(***************************************************************************)

Scored(rs) == {n \in 1 .. RowCount : rs[n].oks # {}}
Kinds(rs) == {rs[n].case.kind : n \in 1 .. RowCount}
OkSum(rs) == FoldLeft(LAMBDA n, r : n + Cardinality(r.oks), 0, rs)

\* Why a run is no benchmark; a floor of four fifths, a tenth of the cases may fail.
GateReasons(rs) ==
    \/ Kinds(rs) # {"seeded", "clean"}
    \/ 10 * (RowCount - Cardinality(Scored(rs))) > RowCount
    \/ 10 * OkSum(rs) < 8 * RowCount * Len(bench.reviewers)
    \/ budget.exceeded
    \/ bench.authoritative /\
         \/ Scored(rs) # 1 .. RowCount
         \/ \E p \in Range(bench.reviewers) : \E n \in 1 .. RowCount : \A s \in rs[n].oks : bench.reviewers[s] # p
         \/ bench.critic /\ \/ \A n \in 1 .. RowCount : rs[n].critic = "none"
                            \/ \E n \in 1 .. RowCount : rs[n].critic = "failed"

GateExit(rs) ==
    CASE Scored(rs) = {} /\ ~budget.exceeded -> 3
      [] ~(Scored(rs) = {} /\ ~budget.exceeded) /\ GateReasons(rs) -> 4
      [] OTHER -> 0

\* The capture is sorted by the number each call got when it was made.
Earlier(entries, e) == {d \in Range(entries) : d.request.ordinal < e.request.ordinal}
ByOrdinal(entries) ==
    [n \in DOMAIN entries |-> CHOOSE e \in Range(entries) : Cardinality(Earlier(entries, e)) = n - 1]

\* executeCapturedProfileSchedule: the run of a profile ends.  A mismatch ends the
\* benchmark, and so does an answer that was captured and not asked for again.
EndProfile ==
    /\ Running /\ Now > RowCount
    /\ LET spoiled == capture.mismatch \/ (~Live /\ turn # Len(capture.entries))
       IN  /\ results' = Append(results, [rows |-> rows, exit |-> GateExit(rows), commit |-> stage.commit])
           /\ stage' = CASE spoiled -> [stage EXCEPT !.pc = "refused", !.exit = 4]
                         [] ~spoiled /\ stage.profile = Len(bench.profiles) -> [stage EXCEPT !.pc = "judging"]
                         [] OTHER -> [stage EXCEPT !.profile = @ + 1, !.commit = head]
           /\ capture' = IF Live THEN [capture EXCEPT !.entries = ByOrdinal(@)] ELSE capture
    /\ rows' = <<>>
    /\ turn' = 0
    /\ UNCHANGED <<bench, calls, budget, head, told>>

(***************************************************************************)
(* The judgement.                                                          *)
(***************************************************************************)

\* validateBenchResultTracePairs
Paired(rs1, rs2) ==
    \A n \in 1 .. RowCount : /\ rs1[n].case = rs2[n].case /\ rs1[n].repeat = rs2[n].repeat
                             /\ rs1[n].oks # {} /\ rs2[n].oks # {}
                             /\ rs1[n].raw = rs2[n].raw

\* profileRepeatAuthority: what was captured while a case ran is, answer for
\* answer, what its trace lists.
Own(r) == SelectSeq(capture.entries, LAMBDA e : e.case = r.case.id /\ e.repeat = r.repeat)
Closed(rs) ==
    \A n \in 1 .. RowCount :
        /\ Own(rs[n]) # <<>>
        /\ \A e \in Range(Own(rs[n])) : e.answer.out = "return" /\ e.answer.text # NoText
        /\ [i \in DOMAIN Own(rs[n]) |-> Own(rs[n])[i].answer.text] = rs[n].raw

\* runCapturedProfiles, and the closure when it is a policy benchmark.
Judge ==
    /\ stage.pc = "judging"
    /\ LET refused == {p \in DOMAIN results :
                          \/ results[p].exit # 0
                          \/ results[p].commit # results[1].commit
                          \/ p > 1 /\ ~Paired(results[1].rows, results[p].rows)}
           exit == CASE results[1].exit # 0 -> results[1].exit
                     [] results[1].exit = 0 /\ refused # {} ->
                          IF results[Min(refused)].exit = 0 THEN 4 ELSE results[Min(refused)].exit
                     [] OTHER -> IF bench.policy /\ \E p \in DOMAIN results : ~Closed(results[p].rows) THEN 4 ELSE 0
       IN  stage' = [stage EXCEPT !.pc = IF exit = 0 THEN "accepted" ELSE "refused", !.exit = exit]
    /\ UNCHANGED <<bench, calls, turn, budget, capture, rows, results, head, told>>

\* Somebody commits while the benchmark runs.
Commit ==
    /\ Running /\ bench.commits /\ head = 1
    /\ head' = 2
    /\ UNCHANGED <<bench, stage, calls, turn, budget, capture, rows, results, told>>

BenchInit ==
    /\ bench \in Benches
    /\ stage = [pc |-> "running", profile |-> 1, commit |-> 1, exit |-> 0]
    /\ calls = [a \in Agents |-> Unasked]
    /\ turn = 0
    /\ budget = [used |-> 0, exceeded |-> FALSE]
    /\ capture = [entries |-> <<>>, mismatch |-> FALSE]
    /\ rows = <<>>
    /\ results = <<>>
    /\ head = 1
    /\ told = [p \in DOMAIN bench.profiles |-> {}]

Ended == stage.pc \in {"accepted", "refused"} /\ UNCHANGED benchVars

BenchNext ==
    \/ \E s \in Slots : OpenSlot(s)
    \/ AskCritic
    \/ \E a \in Agents : Capture(a)
    \/ \E a \in Agents : Replay(a)
    \/ CloseCase
    \/ EndProfile
    \/ Judge
    \/ Commit
    \/ Ended

BenchSpec == BenchInit /\ [][BenchNext]_benchVars

(***************************************************************************)
(* What a benchmark promises.                                              *)
(***************************************************************************)

\* A benchmark that is accepted compares like with like: in every profile each
\* reviewer and the critic were asked, attempt for attempt, what they were asked in
\* the baseline, and were given the answer they gave there; and it all ran on one
\* commit (replayReviewerAdapters, consumed, validateBenchResultTracePairs).
Said(p) == {[row |-> t.row, agent |-> t.agent, try |-> t.try, prompt |-> t.prompt, answer |-> t.answer] : t \in told[p]}
SameAnswers ==
    stage.pc = "accepted" => \A p \in DOMAIN told : Said(p) = Said(1) /\ results[p].commit = results[1].commit

=============================================================================

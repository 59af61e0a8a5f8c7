-------------------------------- MODULE Rig --------------------------------
(***************************************************************************)
(* The measurement rig of src/rig: `rig run` lets an agent work through a  *)
(* script, turn by turn, under a recording gate; `rig harvest` counts what *)
(* each turn brought; `rig ablate` and `rig replay` run the policy again   *)
(* from what was captured, with a pass switched off in one of two          *)
(* branches.                                                               *)
(*                                                                         *)
(* A review is named by its session (`run`) and its round (`iter`): its    *)
(* report, its audit event, its calls on the cassette and its envelope.    *)
(* Another cycle of the session names its rounds the same again; only what *)
(* is learned knows the cycle.  What the policy decides is in Verdict;     *)
(* here a review demotes something or not, which is what the branches      *)
(* write.  Field `turn` is history throughout: it stands for the time and  *)
(* the bytes that tell a report, or an audit event, from an older one.     *)
(***************************************************************************)
EXTENDS Naturals, Sequences, FiniteSets, SequencesExt

CONSTANTS
    Turns,         \* turns of the script
    Reviews,       \* bound: reviews that begin in the whole run
    Kills,         \* bound: gates that are killed
    Rounds,        \* maxIterations of a cycle
    Demotes,       \* bound: whether the policy of a live review demotes something
    CaptureFails   \* ways an envelope gets lost, of "overflow", "lossy", "unread" and "untaped"

ASSUME RigAssumption ==
    /\ Turns \in Nat \ {0} /\ Rounds \in Nat \ {0} /\ {Reviews, Kills} \subseteq Nat
    /\ Demotes \subseteq BOOLEAN
    /\ CaptureFails \subseteq {"overflow", "lossy", "unread", "untaped"}

VARIABLES
    driver,     \* the driver of the run, and what it knows of its turn
    live,       \* .reviewgate/ of the measured repository
    review,     \* the gate that runs
    sink,       \* what gates left in policy-replay/
    tape,       \* the cassette: the calls recorded
    manifest,   \* manifest.json, the snapshots and the copy of the cassette; `captures`: with policy replay
    altered,    \* what somebody changed of the artifacts
    harvested,  \* the result, and what it counts in each turn
    replay,     \* the replay of the policy, and its two branches
    ran,        \* history: the policy runs of live reviews
    spent       \* of the bounds

rigVars == <<driver, live, review, sink, tape, manifest, altered, harvested, replay, ran, spent>>

NoReport == [run |-> 0, iter |-> 0, turn |-> 0]
NoState == [run |-> 0, cycle |-> 0, iter |-> 0, ledger |-> {}, outcomes |-> {}]
NoReview == [pc |-> "none", state |-> NoState, fate |-> "none"]

(***************************************************************************)
(* The gate, in the turns.                                                 *)
(***************************************************************************)

InTurn == driver.pc \in {"agent", "settling"}

\* Somebody holds gate.lock and is alive.
Reviewing == review.pc \in {"asked", "judged", "reported"}

ThisReport == [run |-> live.run, iter |-> live.iter + 1, turn |-> driver.turn]
Event(kind, iter) == [kind |-> kind, run |-> live.run, iter |-> iter, turn |-> driver.turn]

\* The agent edits: the hook behind the tool is asynchronous and may come late.
EditCode ==
    /\ InTurn /\ ~live.dirty
    /\ live' = [live EXCEPT !.dirty = TRUE]
    /\ UNCHANGED <<driver, review, sink, tape, manifest, altered, harvested, replay, ran, spent>>

\* A new session of the agent resets, whether or not the gate before it left its lock:
\* the cycle, its flag and its report are gone.  As many sessions as turns are a bound.
NewSession ==
    /\ driver.pc = "agent" /\ ~Reviewing /\ live.run < Turns
    /\ live.iter > 0 \/ live.cycle > 0 \/ live.pending # NoReport
    /\ live' = [live EXCEPT !.run = @ + 1, !.cycle = 0, !.iter = 0, !.pending = NoReport,
                            !.dirty = FALSE, !.escalated = FALSE]
    /\ UNCHANGED <<driver, review, sink, tape, manifest, altered, harvested, replay, ran, spent>>

\* absorbPriorDecisions: the answers to the round before, learned first of all.
Absorbed == IF live.iter = 0 THEN live.ledger ELSE live.ledger \cup {<<live.run, live.cycle, live.iter>>}

\* What a stop starts from: work after an escalation is another cycle, without answers.
Ready ==
    IF live.escalated THEN [live EXCEPT !.cycle = @ + 1, !.iter = 0, !.escalated = FALSE]
    ELSE [live EXCEPT !.ledger = Absorbed]

StopHook == driver.pc = "agent" /\ live.dirty /\ ~Reviewing

\* escalateAndDecide: told, and the flag is gone.
Announced(l) == [l EXCEPT !.audit = @ \cup {Event("told", l.iter)}, !.dirty = FALSE, !.escalated = TRUE]

\* The cap, a cost, a standstill: learned, told, and no round.
EscalateRun ==
    /\ StopHook /\ ~live.escalated /\ live.iter > 0
    /\ live' = Announced(Ready)
    /\ review' = NoReview
    /\ UNCHANGED <<driver, sink, tape, manifest, altered, harvested, replay, ran, spent>>

\* An answer is missing, or a reviewer who cools down defers the escalation: learned,
\* and no round.
BlockStop ==
    /\ StopHook /\ ~live.escalated /\ live.iter > 0
    /\ live' \in {Ready, [Ready EXCEPT !.audit = @ \cup {Event("told", live.iter)}]}
    /\ review' = NoReview
    /\ UNCHANGED <<driver, sink, tape, manifest, altered, harvested, replay, ran, spent>>

\* readStableFile, collectStateEntries: nothing is read of a tree that moves meanwhile.
Steady(state) == {state} \cup (IF "unread" \in CaptureFails THEN {NoState} ELSE {})

\* createPolicyStateSnapshot: what the round will be replayed from.
Snapshots(l) ==
    IF ~manifest.captures THEN {NoState}
    ELSE Steady([run |-> l.run, cycle |-> l.cycle, iter |-> l.iter, ledger |-> l.ledger, outcomes |-> l.outcomes])

\* policyReplayCallId: the same call of the same round, the same name.
CallId(l) == <<l.run, l.iter + 1>>

\* appendEntry: one line at the end, or none when the file is not the recorder's.
Appended(call) == {Append(tape, call)} \cup (IF "untaped" \in CaptureFails THEN {tape} ELSE {})

\* RecordingAdapter.review: taped once it is answered, and a failure is only told.
Taped(l) == Appended(CallId(l))

\* A round begins.  A verdict that is cached, skipped or failed by the checks needs no
\* reviewer, a diff that is not whole asks none (an outage); the answers of reviewers
\* are taped when they come.
BeginReview ==
    /\ StopHook /\ Ready.iter < Rounds /\ spent.reviews < Reviews
    /\ live' = Ready
    /\ spent' = [spent EXCEPT !.reviews = @ + 1]
    /\ \E s \in Snapshots(Ready) :
        \/ /\ \E fate \in {"unasked", "outage"} : review' = [pc |-> "judged", state |-> s, fate |-> fate]
           /\ UNCHANGED tape
        \/ /\ review' = [pc |-> "asked", state |-> s, fate |-> "none"]
           /\ tape' \in Taped(Ready)
    /\ UNCHANGED <<driver, sink, manifest, altered, harvested, replay, ran>>

\* Nobody answered: an outage, and no policy.
NobodyAnswers ==
    /\ review.pc = "asked"
    /\ review' = [review EXCEPT !.pc = "judged", !.fate = "outage"]
    /\ UNCHANGED <<driver, live, sink, tape, manifest, altered, harvested, replay, ran, spent>>

Envelope(d) ==
    [kind |-> "trace", run |-> live.run, iter |-> live.iter + 1, state |-> review.state, demotes |-> d]
\* A marker by the name of the round, without what was too large.
Overflow == [Envelope(FALSE) EXCEPT !.kind = "overflow", !.state = NoState]
\* Sanitized: something of it is not the bytes it was.
Lossy(d) == [Envelope(d) EXCEPT !.kind = "lossy"]

Captured_Unmarked(d) ==
    IF review.state = NoState THEN {sink}
    ELSE {sink \cup {Envelope(d)}}
         \cup (IF "overflow" \in CaptureFails THEN {sink} ELSE {})
         \cup (IF "lossy" \in CaptureFails THEN {sink \cup {Lossy(d)}} ELSE {})
\* capturePolicyReplayEnvelope: an envelope too large leaves a marker; without a
\* snapshot there is no envelope, and no trace of that.
Captured(d) ==
    IF review.state = NoState THEN {sink}
    ELSE {sink \cup {Envelope(d)}}
         \cup (IF "overflow" \in CaptureFails THEN {sink \cup {Overflow}} ELSE {})
         \cup (IF "lossy" \in CaptureFails THEN {sink \cup {Lossy(d)}} ELSE {})

\* ImplicitOutcomeStore.append
Outcome(d, run, iter) == IF d THEN {<<run, iter>>} ELSE {}

\* The policy: what it demoted is booked, and the envelope written.
RunPolicy ==
    /\ review.pc = "asked"
    /\ \E d \in Demotes :
        /\ live' = [live EXCEPT !.outcomes = @ \cup Outcome(d, live.run, live.iter + 1)]
        /\ sink' \in Captured(d)
    /\ review' = [review EXCEPT !.pc = "judged", !.fate = "policy"]
    /\ ran' = ran \cup {ThisReport}
    /\ UNCHANGED <<driver, tape, manifest, altered, harvested, replay, spent>>

WriteReport ==
    /\ review.pc = "judged"
    /\ live' = [live EXCEPT !.pending = ThisReport]
    /\ review' = [review EXCEPT !.pc = "reported"]
    /\ UNCHANGED <<driver, sink, tape, manifest, altered, harvested, replay, ran, spent>>

\* run.complete, and the state: a pass starts another cycle, an outage is no round and
\* one too many of them is told.
CompleteReview ==
    /\ review.pc = "reported"
    /\ LET done == [live EXCEPT !.audit = @ \cup {Event("complete", live.iter + 1)}]
       IN  live' \in IF review.fate = "outage" THEN {done, Announced(done)}
                     ELSE {[done EXCEPT !.iter = @ + 1], [done EXCEPT !.cycle = @ + 1, !.iter = 0, !.dirty = FALSE]}
    /\ review' = NoReview
    /\ UNCHANGED <<driver, sink, tape, manifest, altered, harvested, replay, ran, spent>>

\* The time of a run is up before its report is written: none is left, the flag stays,
\* and one time too many is told.
TimeOutReview ==
    /\ review.pc \in {"asked", "judged"}
    /\ LET aborted == [live EXCEPT !.pending = NoReport]
       IN  live' \in {aborted, Announced(aborted)}
    /\ review' = NoReview
    /\ UNCHANGED <<driver, sink, tape, manifest, altered, harvested, replay, ran, spent>>

\* The gate is killed, and its lock stays until another one takes it over.
KillReview ==
    /\ Reviewing /\ spent.kills < Kills
    /\ review' = [NoReview EXCEPT !.pc = "dead"]
    /\ spent' = [spent EXCEPT !.kills = @ + 1]
    /\ UNCHANGED <<driver, live, sink, tape, manifest, altered, harvested, replay, ran>>

(***************************************************************************)
(* The driver.                                                             *)
(***************************************************************************)

Leftover_Ignored == {}
\* The report an earlier turn left is known before the agent starts.
Leftover == {live.pending} \ {NoReport}

StartTurn ==
    /\ driver.pc = "between"
    /\ driver' = [driver EXCEPT !.pc = "agent", !.turn = @ + 1, !.audit = live.audit, !.sink = sink,
                                !.seen = Leftover, !.reports = {}]
    /\ UNCHANGED <<live, review, sink, tape, manifest, altered, harvested, replay, ran, spent>>

\* startReportArchiver: each version of the report it comes to see, once.
Archive(d) ==
    IF live.pending \in d.seen \cup {NoReport} THEN d
    ELSE [d EXCEPT !.seen = @ \cup {live.pending}, !.reports = @ \cup {live.pending}]

Poll ==
    /\ InTurn /\ Archive(driver) # driver
    /\ driver' = Archive(driver)
    /\ UNCHANGED <<live, review, sink, tape, manifest, altered, harvested, replay, ran, spent>>

AgentExits ==
    /\ driver.pc = "agent"
    /\ driver' = [driver EXCEPT !.pc = "settling"]
    /\ UNCHANGED <<live, review, sink, tape, manifest, altered, harvested, replay, ran, spent>>

\* gateReviewedTurn
Reviewed == live.audit # driver.audit \/ ~live.dirty

\* One envelope too large spoils the turn.  (An "error" is known to the driver, and
\* nothing writes one.)
Status(arts) ==
    CASE \E a \in arts : a.kind = "overflow" -> "overflow"
      [] arts # {} /\ \A a \in arts : a.kind # "overflow" -> "complete"
      [] OTHER -> "missing"

\* The gate's lock is free and its files are whole: the turn is written down, with
\* what is new in the sink.  Two turns in a row that no gate reviewed end the run.
RecordTurn ==
    /\ driver.pc = "settling" /\ review.pc = "none"
    /\ LET new == sink \ driver.sink
           status == Status(new)
           idle == IF Reviewed THEN 0 ELSE driver.unreviewed + 1
       IN  /\ manifest' = [turns |-> Append(manifest.turns,
                              [status |-> status,
                               traces |-> IF status = "overflow" THEN {} ELSE new,
                               audit |-> live.audit, reports |-> Archive(driver).reports]),
                           tape |-> tape, captures |-> manifest.captures]
           /\ driver' = [driver EXCEPT !.pc = IF idle = 2 \/ driver.turn = Turns THEN "done" ELSE "between",
                                       !.unreviewed = idle]
    /\ UNCHANGED <<live, review, sink, tape, altered, harvested, replay, ran, spent>>

\* awaitQuiescent runs out of patience, or a copy fails twice: the manifest keeps the
\* turns before.
BreakOff ==
    /\ driver.pc = "settling"
    /\ driver' = [driver EXCEPT !.pc = "done"]
    /\ UNCHANGED <<live, review, sink, tape, manifest, altered, harvested, replay, ran, spent>>

\* Somebody changes a file of a harvested run, once (a bound): the manifest, or what it
\* names by its hash.  Before the harvest that is a harvest refused.
AlterArtifacts ==
    /\ harvested.state = "exact" /\ altered = {}
    /\ \E a \in {"manifest", "tape", "trace", "state"} : altered' = {a}
    /\ UNCHANGED <<driver, live, review, sink, tape, manifest, harvested, replay, ran, spent>>

(***************************************************************************)
(* The harvest.                                                            *)
(***************************************************************************)

Recorded == DOMAIN manifest.turns
AuditBefore(t) == IF t = 1 THEN {} ELSE manifest.turns[t - 1].audit

\* A report belongs to the turn in which its cycle completed a round.
OwnedRuns(t) == {e.run : e \in {x \in manifest.turns[t].audit \ AuditBefore(t) : x.kind = "complete"}}
CountedIn(t) == {r \in manifest.turns[t].reports : r.run \in OwnedRuns(t)}

InOrder(traces) == SortSeq(SetToSeq(traces), LAMBDA a, b : a.iter < b.iter)

\* responseBindingsFromCassette: no call twice.
TapeReads == "tape" \notin altered /\ IsInjective(manifest.tape)

\* verifyPolicyReplayEnvelope: whole, and nothing of it lost.
EnvelopesRead ==
    "trace" \notin altered /\ \A t \in Recorded : \A a \in manifest.turns[t].traces : a.kind = "trace"

\* verifyPolicyStateSnapshot, readPersistedPolicyStateTree
StatesRead == "state" \notin altered

\* Every call of an envelope is on the cassette.
OnTape(a) == <<a.run, a.iter>> \in Range(manifest.tape)

\* A turn is one cycle from its first round on.
OneSequence(traces) ==
    /\ \A a, b \in traces : a.run = b.run
    /\ {a.iter : a \in traces} = 1 .. Cardinality(traces)

\* No round is told twice.
ToldOnce == \A t, u \in Recorded : t # u =>
    \A a \in manifest.turns[t].traces, b \in manifest.turns[u].traces : <<a.run, a.iter>> # <<b.run, b.iter>>

\* validateRigPolicyReplayArtifacts
Valid ==
    /\ TapeReads /\ EnvelopesRead /\ StatesRead
    /\ \A t \in Recorded :
        /\ manifest.turns[t].status = "complete"
        /\ \A a \in manifest.turns[t].traces : OnTape(a)
        /\ OneSequence(manifest.turns[t].traces)
    /\ ToldOnce

\* A run that captured nothing is counted, without authority; one that captured is
\* counted when it is whole, and else refused.
Harvest ==
    /\ driver.pc = "done" /\ harvested.state = "none" /\ manifest.turns # <<>>
    /\ harvested' = IF manifest.captures /\ ~Valid THEN [state |-> "refused", counted |-> <<>>]
                    ELSE [state |-> IF manifest.captures THEN "exact" ELSE "legacy",
                          counted |-> [t \in Recorded |-> CountedIn(t)]]
    /\ UNCHANGED <<driver, live, review, sink, tape, manifest, altered, replay, ran, spent>>

(***************************************************************************)
(* The replay.                                                             *)
(***************************************************************************)

Items == FlattenSeq([t \in Recorded |-> InOrder(manifest.turns[t].traces)])
Sides == {"baseline", "counterfactual"}
NoBranch == [ledger |-> {}, outcomes |-> {}, owned |-> {}, wrote |-> {}]

\* assertRigResultManifestBinding: the manifest is the one that was harvested.  Only
\* `rig ablate` has a result to compare with.
AsHarvested == "manifest" \notin altered

\* prepareBranch: a checkout of its own, and a copy of the first state.
Prepared(e) == [NoBranch EXCEPT !.ledger = e.state.ledger, !.outcomes = e.state.outcomes]

\* createReplayBranches, under `rig ablate`: both from the first state, once all of it
\* is verified again.
StartReplay ==
    /\ harvested.state = "exact" /\ replay.pc = "none"
    /\ replay' = IF AsHarvested /\ Valid
                 THEN [pc |-> "running", at |-> 0, branch |-> [b \in Sides |-> Prepared(Items[1])]]
                 ELSE [replay EXCEPT !.pc = "refused"]
    /\ UNCHANGED <<driver, live, review, sink, tape, manifest, altered, harvested, ran, spent>>

\* advanceReplayBranches: a file the branch has written stays, the rest is as captured.
Advanced(b, e) ==
    [b EXCEPT !.ledger = IF "ledger" \in b.owned THEN @ ELSE e.state.ledger,
              !.outcomes = IF "outcomes" \in b.owned THEN @ ELSE e.state.outcomes]

\* applyCapturedHumanLearning: learned again; `redates` when that changes the file.
Learned(b, e, redates) ==
    LET after == IF e.state.iter = 0 THEN b.ledger ELSE b.ledger \cup {<<e.state.run, e.state.cycle, e.state.iter>>}
    IN  [b EXCEPT !.ledger = after,
                  !.owned = IF e.state.iter > 0 /\ (redates \/ after # b.ledger) THEN @ \cup {"ledger"} ELSE @]

\* persistBranchPolicyOutcomes: the file is the branch's from now on, written or not.
Persisted_WhenWritten(b, e, d) ==
    LET wrote == Outcome(d, e.run, e.iter)
    IN  [b EXCEPT !.outcomes = @ \cup wrote, !.wrote = @ \cup wrote,
                  !.owned = IF d THEN @ \cup {"outcomes"} ELSE @]
Persisted(b, e, d) ==
    LET wrote == Outcome(d, e.run, e.iter)
    IN  [b EXCEPT !.outcomes = @ \cup wrote, !.wrote = @ \cup wrote, !.owned = @ \cup {"outcomes"}]

\* assertBranchHistoryInputs: what the policy reads is what it read live.
SameHistory(b, e) == b.ledger = e.state.ledger

\* replayEnvelopeProductionPath: the policy again, the baseline exactly as it was and
\* the counterfactual as it comes out with a pass switched off.
Decisions(b, e) == IF b = "baseline" THEN {e.demotes} ELSE BOOLEAN

\* replayPolicyEnvelopeInBranches: decided in both, and what was demoted booked in each.
Replayed(ready, e) ==
    {[b \in Sides |-> Persisted(ready[b], e, decided[b])] :
        decided \in {d \in [Sides -> BOOLEAN] : \A b \in Sides : d[b] \in Decisions(b, e)}}

\* replayPolicyProfileSequence: both branches go on to the state of the next round,
\* learn what was answered, and decide it.
ReplayOne ==
    /\ replay.pc = "running" /\ replay.at < Len(Items)
    /\ \E redates \in BOOLEAN :
        LET e == Items[replay.at + 1]
            ready == [b \in Sides |-> IF replay.at = 0 THEN replay.branch[b]
                                      ELSE Learned(Advanced(replay.branch[b], e), e, redates)]
        IN  IF (replay.at > 0 => StatesRead) /\ \A b \in Sides : SameHistory(ready[b], e)
            THEN \E next \in Replayed(ready, e) : replay' = [replay EXCEPT !.at = @ + 1, !.branch = next]
            ELSE replay' = [replay EXCEPT !.pc = "refused"]
    /\ UNCHANGED <<driver, live, review, sink, tape, manifest, altered, harvested, ran, spent>>

RigInit ==
    /\ driver = [pc |-> "between", turn |-> 0, unreviewed |-> 0, audit |-> {}, sink |-> {}, seen |-> {}, reports |-> {}]
    /\ live = [run |-> 1, cycle |-> 0, iter |-> 0, pending |-> NoReport, audit |-> {}, dirty |-> FALSE,
                escalated |-> FALSE, ledger |-> {}, outcomes |-> {}]
    /\ review = NoReview
    /\ sink = {} /\ tape = <<>>
    /\ \E captures \in BOOLEAN : manifest = [turns |-> <<>>, tape |-> <<>>, captures |-> captures]
    /\ altered = {}
    /\ harvested = [state |-> "none", counted |-> <<>>]
    /\ replay = [pc |-> "none", at |-> 0, branch |-> [b \in Sides |-> NoBranch]]
    /\ ran = {}
    /\ spent = [reviews |-> 0, kills |-> 0]

RigRests ==
    /\ driver.pc = "done"
    /\ harvested.state # "none" \/ manifest.turns = <<>>
    /\ UNCHANGED rigVars

RigNext ==
    \/ EditCode \/ NewSession \/ EscalateRun \/ BlockStop \/ BeginReview \/ NobodyAnswers \/ RunPolicy
    \/ WriteReport \/ CompleteReview \/ TimeOutReview \/ KillReview
    \/ StartTurn \/ Poll \/ AgentExits \/ RecordTurn \/ BreakOff \/ AlterArtifacts
    \/ Harvest \/ StartReplay \/ ReplayOne \/ RigRests

RigSpec == RigInit /\ [][RigNext]_rigVars

(***************************************************************************)
(* What a recorded run is good for.                                        *)
(***************************************************************************)

\* What is harvested as exact holds an envelope of every review in whose turn a
\* policy ran, whatever was too large, killed or asked again: a measurement that
\* says it is complete is (runDriver's status, validateRigPolicyReplayArtifacts).
ExactIsComplete ==
    harvested.state = "exact" =>
        \A r \in ran : r.turn \in Recorded =>
            \E a \in manifest.turns[r.turn].traces : a.run = r.run /\ a.iter = r.iter

\* A report is counted in the turn whose gate wrote it and in no other, though it
\* lies in the repository until the next one and a cycle may go on over turns
\* (startReportArchiver's seed, collectTurnFindings).
CountedWhereWritten ==
    \A t \in DOMAIN harvested.counted : \A r \in harvested.counted[t] : r.turn = t

\* A branch holds what was there when the replay began and what it booked itself:
\* nothing the live run or the other branch booked since finds its way in
\* (advanceReplayBranches, recordReplayBranchStateDecision).
BranchesAreTheirOwn ==
    replay.at > 0 => \A b \in Sides : replay.branch[b].outcomes = Items[1].state.outcomes \cup replay.branch[b].wrote
=============================================================================

------------------------------ MODULE Verdict ------------------------------
(***************************************************************************)
(* What becomes of the findings of one review.  Each pass, in the order of *)
(* src/core/orchestrator.ts and src/core/aggregator.ts, may lower some of  *)
(* them: because the evidence is wrong, because a judge, a critic or a     *)
(* track record says so, because they lie outside what is reviewed, or     *)
(* because the agent has decided them before.  Between the two halves they *)
(* are merged into clusters; at the end they make a verdict.               *)
(*                                                                         *)
(* What a pass reads in a text (a retraction, a token that is not there,   *)
(* a low confidence) is a free choice of the findings it matches; whom it  *)
(* protects, and what it does to the rest, is the code's.                  *)
(*                                                                         *)
(* A recorder (src/core/policy/trace.ts) writes down what each pass did.   *)
(* It never changes a decision; if it is told what the catalogue does not  *)
(* know, or cannot tell what became of a finding, there is no trace.       *)
(***************************************************************************)
EXTENDS Integers, Sequences, FiniteSets, SequencesExt, FiniteSetsExt, Catalog

CONSTANTS
    Inputs,      \* what panels may report: sequences of findings, see Finding
    Settings,    \* configurations: reviewers that answered, hatch, switches, file classes,
                 \* and, when a policy is measured, the passes switched off for it
    Memories,    \* what the agent has claimed and contested, whose record is good
    Regions,     \* regions the agent may have rejected
    Similar,     \* pairs of wordings that share most of their words
    Lines,       \* line numbers
    Window,      \* REGION_WINDOW
    Reach,       \* WORDING_MERGE_MAX_LINE_DISTANCE
    None

ASSUME VerdictAssumption == Window \in Nat /\ Reach \in Nat /\ Lines \subseteq Nat

\* A wording is like itself, unless it has no word that counts: then it is like none (jaccard).
ASSUME SimilarAssumption == \A s \in Similar : <<s[1], s[1]>> \in Similar /\ <<s[2], s[2]>> \in Similar

VARIABLES
    setting,  \* the configuration, fixed
    memory,   \* what is remembered of earlier reviews, fixed
    stage,    \* the pass that comes next
    fs,       \* the findings; from "pin" on, one for each cluster
    verdict,
    telemetryError  \* the recorder has failed, and writes no trace

findingVars == <<setting, memory, stage, fs, verdict, telemetryError>>

(***************************************************************************)
(* Findings.                                                               *)
(***************************************************************************)

Rank(sev) == CASE sev = "CRITICAL" -> 3 [] sev = "WARN" -> 2 [] sev = "INFO" -> 1 [] OTHER -> 0
Blocking(f) == f.sev \in {"CRITICAL", "WARN"}
HighStakes(cat) == cat \in {"security", "correctness"}

\* A finding as it is reported; files and wordings (`topic`) are numbers, for their order.
\* `from`: a value judgment has lowered it from CRITICAL;
\* `effects`: the passes that have lowered it.
Finding(sig, by, file, line, topic, sev, cat) ==
    [sig |-> sig, by |-> by, file |-> file, line |-> line, topic |-> topic, sev |-> sev, cat |-> cat, raw |-> sev,
     from |-> FALSE, refuted |-> FALSE, recurred |-> FALSE, effects |-> {}, hit |-> {},
     anchor |-> None, confirmed |-> {}, consensus |-> "none", members |-> {}]

\* Panels report findings that nothing has happened to yet.
ASSUME InputsAssumption ==
    \A in \in Inputs :
        /\ in \in Seq({in[i] : i \in DOMAIN in})
        /\ \A i \in DOMAIN in : LET f == in[i] IN
              f = Finding(f.sig, f.by, f.file, f.line, f.topic, f.sev, f.cat) /\ f.sev \in {"CRITICAL", "WARN", "INFO"}
              /\ f.file \in Nat /\ f.line \in Nat /\ f.topic \in Nat

MemberOf(f) == [sig |-> f.sig, by |-> f.by, cat |-> f.cat, from |-> f.from, raw |-> f.raw, sev |-> f.sev, effects |-> f.effects]

Cats(f) == {f.cat} \cup {m.cat : m \in f.members}
Sigs(f) == {f.sig} \cup {m.sig : m \in f.members}
TouchesHighStakes(f) == \E c \in Cats(f) : HighStakes(c)

Corroborated(f) == f.consensus \in {"unanimous", "majority"}

\* At the floor: lowered from CRITICAL as far as a value judgment may.
AtFloor(f) == f.sev = "WARN" /\ f.from

Lowered(f, sev, pass) == [f EXCEPT !.sev = sev, !.effects = @ \cup {pass}]
ToWarn(f, pass) == [Lowered(f, "WARN", pass) EXCEPT !.from = TRUE]
ToInfo(f, pass) == Lowered(f, "INFO", pass)

\* demoteOneStep: never below WARN what comes from CRITICAL, and never up.
DemoteOneStep(f, pass) ==
    IF Blocking(f) /\ (f.sev = "CRITICAL" \/ f.from) THEN ToWarn(f, pass)
    ELSE Lowered(f, IF f.sev = "WARN" THEN "INFO" ELSE "dropped", pass)

\* transitionFinding: a pass lowers what it matches, unless it has a ground to spare it
\* or is switched off.
Transition(pass, f, matched, ground, lowered) ==
    IF matched /\ ground = "none" /\ pass \notin setting.ablated THEN lowered ELSE f

\* The recorder can say so.
Recordable(pass, f, ground, lowered) ==
    \/ pass \in setting.ablated /\ MayBeSwitchedOff(pass, f.sev)
    \/ pass \notin setting.ablated /\ ground # "none" /\ MaySpare(pass, ground, f.sev)
    \/ pass \notin setting.ablated /\ ground = "none" /\ MayLower(pass, f.sev, lowered.sev)

\* One pass over all findings: which it matches, why it spares one, what it makes of it.
Pass(pass, from, to, Matched(_), Ground(_), Proposed(_)) ==
    /\ stage = from
    /\ stage' = to
    /\ fs' = [i \in DOMAIN fs |-> Transition(pass, fs[i], Matched(i), Ground(i), Proposed(i))]
    /\ telemetryError' = (telemetryError \/ \E i \in DOMAIN fs :
                              Matched(i) /\ ~Recordable(pass, fs[i], Ground(i), Proposed(i)))
    /\ UNCHANGED <<setting, memory, verdict>>

VerdictInit ==
    /\ setting \in Settings
    /\ memory \in Memories
    /\ stage = "facts"
    /\ fs \in {in \in Inputs : Cardinality({in[i].by : i \in DOMAIN in}) <= setting.total}
    /\ verdict = "none"
    /\ telemetryError = FALSE

AllSigs == UNION {Sigs(fs[i]) : i \in DOMAIN fs}
Files == {fs[i].file : i \in DOMAIN fs}

(***************************************************************************)
(* The evidence of single findings.                                        *)
(***************************************************************************)

\* The cited line does not exist; the quoted one may, elsewhere in the file.
FactCheck ==
    \E gone \in SUBSET DOMAIN fs : \E found \in [gone -> Lines \cup {None}] :
        Pass("fact-location", "facts", "refuted", LAMBDA i : i \in gone, LAMBDA i : "none",
             LAMBDA i : IF found[i] # None THEN [fs[i] EXCEPT !.line = found[i]] ELSE ToInfo(fs[i], "fact-location"))

\* A single finding of these categories is not for a pass to judge.
HighStakesGround(f) == IF HighStakes(f.cat) THEN "security-correctness-floor" ELSE "none"

\* The reviewer's own conclusion takes it back.
SelfRefute ==
    \E says \in SUBSET DOMAIN fs :
        Pass("self-refutation", "refuted", "hypothetical", LAMBDA i : Blocking(fs[i]) /\ i \in says,
             LAMBDA i : HighStakesGround(fs[i]), LAMBDA i : [ToInfo(fs[i], "self-refutation") EXCEPT !.refuted = TRUE])

\* No present defect in a CRITICAL's own words.
Hypothetical ==
    \E says \in SUBSET DOMAIN fs :
        Pass("hypothetical", "hypothetical", "tokens", LAMBDA i : fs[i].sev = "CRITICAL" /\ i \in says,
             LAMBDA i : HighStakesGround(fs[i]), LAMBDA i : ToWarn(fs[i], "hypothetical"))

\* It cites a token that is nowhere in the code.
GroundTokens ==
    \E absent \in SUBSET DOMAIN fs :
        Pass("grounding-token", "tokens", "judge", LAMBDA i : fs[i].sev = "CRITICAL" /\ i \in absent,
             LAMBDA i : HighStakesGround(fs[i]), LAMBDA i : ToWarn(fs[i], "grounding"))

\* A model finds the claim unfounded; its answers are kept by signature.
JudgeGrounding ==
    \E unfounded \in SUBSET AllSigs :
        Pass("grounding-llm", "judge", "redaction", LAMBDA i : fs[i].sev = "CRITICAL" /\ fs[i].sig \in unfounded,
             LAMBDA i : HighStakesGround(fs[i]), LAMBDA i : ToWarn(fs[i], "grounding"))

\* It takes a placeholder of the sanitizer for code; what speaks of a secret may be a leak.
DemoteRedaction ==
    \E names \in SUBSET DOMAIN fs : \E leads \in SUBSET names :
        Pass("redaction", "redaction", "cluster", LAMBDA i : Blocking(fs[i]) /\ i \in names,
             LAMBDA i : IF fs[i].cat = "security" THEN "security-correctness-floor"
                        ELSE IF i \in leads THEN "secret-evidence-backstop" ELSE "none",
             LAMBDA i : ToInfo(fs[i], "redaction"))

(***************************************************************************)
(* Clusters.  Findings are taken in an order of their own, and join the    *)
(* first cluster whose seed is near, or near enough and worded alike.      *)
(***************************************************************************)

Near(a, f) == a.file = f.file /\ a.line - f.line \in -Window .. Window
WordedAlike(a, f) == a.file = f.file /\ <<a.topic, f.topic>> \in Similar /\ a.line - f.line \in -Reach .. Reach

\* A co-located concern of the other kind keeps a decision of its own.
Joins(c, f) ==
    \/ WordedAlike(c.anchor, f)
    \/ /\ Near(c.anchor, f)
       /\ \A m \in c.members : HighStakes(m.cat) = HighStakes(f.cat)

Seed(f) == [f EXCEPT !.anchor = [file |-> f.file, line |-> f.line, topic |-> f.topic],
                     !.confirmed = {f.by}, !.members = {MemberOf(f)}]

\* The most severe stands for all; ties keep the first.
Merge(c, f) ==
    [(IF Rank(f.sev) > Rank(c.sev) THEN [f EXCEPT !.anchor = c.anchor] ELSE c)
        EXCEPT !.confirmed = c.confirmed \cup {f.by}, !.members = c.members \cup {MemberOf(f)}]

Before(in, i, j) ==
    LET key(f) == <<f.file, f.line, 3 - Rank(f.sev), f.topic>>
        a == key(in[i])  b == key(in[j])
        d == {k \in 1 .. 4 : a[k] # b[k]}
    IN  IF d = {} THEN i < j ELSE a[Min(d)] < b[Min(d)]

\* The orders in which the findings may be taken; ties keep the reviewers' order.
Sorted_AsReported(in) == {[i \in DOMAIN in |-> i]}
Sorted(in) == {o \in Bijection(DOMAIN in, DOMAIN in) : \A i, j \in DOMAIN in : i < j => Before(in, o[i], o[j])}

Join(cs, f) ==
    LET near == {k \in DOMAIN cs : Joins(cs[k], f)}
    IN  IF near = {} THEN Append(cs, Seed(f)) ELSE [cs EXCEPT ![Min(near)] = Merge(@, f)]

Clusters(in, order) ==
    LET cs[n \in 0 .. Len(in)] == IF n = 0 THEN <<>> ELSE Join(cs[n - 1], in[order[n]])
    IN  cs[Len(in)]

Consensus(flagged, total) ==
    CASE total >= 3 /\ flagged = total -> "unanimous"
      [] flagged >= 2 /\ ~(total >= 3 /\ flagged = total) -> "majority"
      [] flagged < 2 /\ total >= 3 -> "minority"
      [] OTHER -> "singleton"

\* A cluster remembers a CRITICAL any of its members once was.
Representative_OwnMemory(c) ==
    [c EXCEPT !.consensus = Consensus(Cardinality(c.confirmed), setting.total), !.effects = {}]
Representative(c) ==
    [c EXCEPT !.consensus = Consensus(Cardinality(c.confirmed), setting.total),
              !.from = @ \/ \E m \in c.members : m.from, !.effects = {}]

\* A signature in two clusters: what became of it, the recorder cannot say (linkFinal).
Doubled(cs) == \E j, k \in DOMAIN cs : j # k /\ Sigs(cs[j]) \cap Sigs(cs[k]) # {}
LinksTwice(cs) == \E j, k \in DOMAIN cs : cs[j].sig # cs[k].sig /\ Sigs(cs[j]) \cap Sigs(cs[k]) # {}

Cluster ==
    /\ stage = "cluster"
    /\ stage' = "pin"
    /\ \E order \in Sorted(fs) :
          LET cs == Clusters(fs, order) IN fs' = [k \in DOMAIN cs |-> Representative(cs[k])]
    /\ telemetryError' = (telemetryError \/ LinksTwice(fs'))
    /\ UNCHANGED <<setting, memory, verdict>>

(***************************************************************************)
(* Clusters: judgments, scope and history.                                 *)
(***************************************************************************)

\* The agent has claimed to have fixed it, and has not contested any part of it.
PinClaimedFixed ==
    /\ stage = "pin"
    /\ stage' = "critic"
    /\ fs' = [i \in DOMAIN fs |->
                 [fs[i] EXCEPT !.recurred = Sigs(fs[i]) \cap memory.claimed # {} /\ Sigs(fs[i]) \cap memory.rejected = {}]]
    /\ UNCHANGED <<setting, memory, verdict, telemetryError>>

\* Two passes know a pinned finding by its signature.
PinnedByName(f) == f.recurred \/ \E i \in DOMAIN fs : fs[i].sig = f.sig /\ fs[i].recurred

\* Reviewers whose findings have held protect a blocking one.
IsProtected(f) == Blocking(f) /\ {m.by : m \in f.members} \subseteq memory.trusted

CriticGround_Unfloored(f) ==
    IF f.recurred THEN "claimed-fixed-pin"
    ELSE IF f.refuted THEN "self-refutation-visibility"
    ELSE IF f.sev = "CRITICAL" /\ TouchesHighStakes(f) THEN "security-correctness-floor"
    ELSE IF f.consensus = "unanimous" THEN "corroborated-unanimous"
    ELSE IF f.consensus = "majority" THEN "corroborated-majority"
    ELSE IF IsProtected(f) THEN "high-precision-reviewer"
    ELSE "none"
CriticGround(f) ==
    IF f.recurred THEN "claimed-fixed-pin"
    ELSE IF f.refuted THEN "self-refutation-visibility"
    ELSE IF AtFloor(f) THEN "critical-floor"
    ELSE IF f.sev = "CRITICAL" /\ TouchesHighStakes(f) THEN "security-correctness-floor"
    ELSE IF f.consensus = "unanimous" THEN "corroborated-unanimous"
    ELSE IF f.consensus = "majority" THEN "corroborated-majority"
    ELSE IF IsProtected(f) THEN "high-precision-reviewer"
    ELSE "none"

Critic ==
    \E fp \in SUBSET AllSigs :
        Pass("critic", "critic", "scope", LAMBDA i : Sigs(fs[i]) \cap fp # {},
             LAMBDA i : CriticGround(fs[i]), LAMBDA i : DemoteOneStep(fs[i], "critic"))

HatchGround(f) == IF Cats(f) \cap setting.hatch # {} THEN "out-of-diff-blocking-hatch" ELSE "none"

\* Outside the changed lines, or in a file the change does not touch.
ScopeDiff ==
    \E absent \in SUBSET Files : \E outside \in SUBSET DOMAIN fs :
        Pass("scope.diff", "scope", "delta", LAMBDA i : Blocking(fs[i]) /\ (fs[i].file \in absent \/ i \in outside),
             LAMBDA i : IF fs[i].file \in absent /\ setting.class[fs[i].file] = "harness" THEN "none" ELSE HatchGround(fs[i]),
             LAMBDA i : ToInfo(fs[i], "scope.diff"))

DeltaGround(f) ==
    IF f.recurred THEN "claimed-fixed-pin"
    ELSE IF TouchesHighStakes(f) THEN "security-correctness-floor"
    ELSE IF f.from THEN "critical-floor"
    ELSE HatchGround(f)

\* In a file reviewed before and unchanged since.
ScopeDelta ==
    \E changed \in SUBSET Files :
        Pass("scope.delta", "delta", "session", LAMBDA i : Blocking(fs[i]) /\ fs[i].file \notin changed,
             LAMBDA i : DeltaGround(fs[i]), LAMBDA i : ToInfo(fs[i], "scope.delta"))

\* In a file another session works on.
ScopeSession ==
    \E foreign \in SUBSET Files :
        Pass("scope.session", "session", "fp", LAMBDA i : Blocking(fs[i]) /\ fs[i].file \in foreign,
             LAMBDA i : HatchGround(fs[i]), LAMBDA i : ToInfo(fs[i], "scope.session"))

\* A signature the ledger knows as a false positive.
SuppressFp ==
    \E active \in SUBSET AllSigs :
        Pass("fp-signature", "fp", "cycle", LAMBDA i : Blocking(fs[i]) /\ Sigs(fs[i]) \cap active # {}, LAMBDA i : "none",
             LAMBDA i : [ToInfo(fs[i], "fp-signature") EXCEPT !.hit = Sigs(fs[i]) \cap active])

CycleGround(f) ==
    IF f.sev = "CRITICAL" THEN "critical-floor"
    ELSE IF TouchesHighStakes(f) THEN "security-correctness-floor"
    ELSE "none"

\* Rejected before in this cycle.
SuppressRejected ==
    Pass("cycle-rejected", "cycle", "fpcluster", LAMBDA i : Blocking(fs[i]) /\ Sigs(fs[i]) \cap memory.rejected # {},
         LAMBDA i : CycleGround(fs[i]), LAMBDA i : ToInfo(fs[i], "cycle-rejected"))

\* A rule that keeps being wrong in this file.
SuppressFpCluster ==
    \E known \in SUBSET DOMAIN fs :
        Pass("fp-cluster", "fpcluster", "confidence", LAMBDA i : Blocking(fs[i]) /\ i \in known, LAMBDA i : "none",
             LAMBDA i : ToInfo(fs[i], "fp-cluster"))

ConfidenceGround(f) ==
    IF PinnedByName(f) THEN "claimed-fixed-pin"
    ELSE IF f.sev = "CRITICAL" /\ TouchesHighStakes(f) THEN "security-correctness-floor"
    ELSE IF IsProtected(f) THEN "high-precision-reviewer"
    ELSE "none"

\* None of its reviewers is sure.
Confidence ==
    \E unsure \in SUBSET DOMAIN fs :
        Pass("confidence", "confidence", "reputation",
             LAMBDA i : Blocking(fs[i]) /\ ~Corroborated(fs[i]) /\ ~AtFloor(fs[i]) /\ i \in unsure,
             LAMBDA i : ConfidenceGround(fs[i]),
             LAMBDA i : IF fs[i].sev = "CRITICAL" THEN ToWarn(fs[i], "confidence") ELSE ToInfo(fs[i], "confidence"))

\* A CRITICAL of correctness is capped only where others might have confirmed it.
ReputationGround(f) ==
    IF PinnedByName(f) THEN "claimed-fixed-pin"
    ELSE IF "security" \in Cats(f) THEN "security-floor"
    ELSE IF "correctness" \in Cats(f) /\ ~setting.demoteCorrectness THEN "correctness-demote-disabled"
    ELSE IF \/ AtFloor(f)
            \/ f.sev = "CRITICAL" /\ "correctness" \in Cats(f) /\ ~(setting.corroborate /\ setting.total > 1)
         THEN "critical-floor"
    ELSE "none"

\* All its reviewers have a bad record.
Reputation ==
    \E bad \in SUBSET UNION {fs[i].confirmed : i \in DOMAIN fs} :
        Pass("reputation", "reputation", "region",
             LAMBDA i : Blocking(fs[i]) /\ ~Corroborated(fs[i]) /\ fs[i].confirmed \subseteq bad,
             LAMBDA i : ReputationGround(fs[i]), LAMBDA i : DemoteOneStep(fs[i], "reputation"))

RegionGround(r, f) ==
    IF f.recurred THEN "claimed-fixed-pin"
    ELSE IF r.distinct < 2 THEN "insufficient-distinct-rejections"
    ELSE IF ~(Cats(f) \subseteq r.cats) THEN "category-change"
    ELSE IF Rank(f.sev) > Rank(r.sev) THEN "severity-increase"
    ELSE IF f.sev = "CRITICAL" \/ f.from THEN "critical-floor"
    ELSE IF "security" \in Cats(f) THEN "security-correctness-floor"
    ELSE "none"

\* It overlaps a region of which the agent has rejected two findings like it.
SuppressRegion ==
    \E r \in Regions \cup {None} :
        Pass("region-rejected", "region", "tests", LAMBDA i : r # None /\ Blocking(fs[i]) /\ Near(r, fs[i]),
             LAMBDA i : RegionGround(r, fs[i]), LAMBDA i : ToInfo(fs[i], "region-rejected"))

TestSecurity ==
    Pass("test-security", "tests", "docs",
         LAMBDA i : setting.testSecurity /\ Blocking(fs[i]) /\ setting.class[fs[i].file] = "tests" /\ fs[i].cat = "security",
         LAMBDA i : IF \E m \in fs[i].members : m.cat # "security" THEN "mixed-category-cluster" ELSE "none",
         LAMBDA i : ToInfo(fs[i], "test-security"))

CapDocs ==
    Pass("docs-cap", "docs", "verdict",
         LAMBDA i : setting.capDocs /\ fs[i].sev = "CRITICAL" /\ setting.class[fs[i].file] = "docs",
         LAMBDA i : IF TouchesHighStakes(fs[i]) THEN "security-correctness-floor" ELSE "none",
         LAMBDA i : DemoteOneStep(fs[i], "docs-cap"))

(***************************************************************************)
(* The verdict.                                                            *)
(***************************************************************************)

HardCritical(f) == f.sev = "CRITICAL" /\ (TouchesHighStakes(f) \/ Corroborated(f) \/ setting.total <= 1)
CorroboratedWarn(f) == f.sev = "WARN" /\ Corroborated(f)

FailsAlone_CriticalOnly(f) == HardCritical(f) \/ CorroboratedWarn(f) \/ (f.sev = "CRITICAL" /\ f.recurred)
FailsAlone(f) == HardCritical(f) \/ CorroboratedWarn(f) \/ (Blocking(f) /\ f.recurred)

Reason ==
    IF \E i \in DOMAIN fs : HardCritical(fs[i]) THEN "hard-critical"
    ELSE IF \E i \in DOMAIN fs : CorroboratedWarn(fs[i]) THEN "corroborated-warn"
    ELSE IF \E i \in DOMAIN fs : FailsAlone(fs[i]) THEN "claimed-fixed-recurrence"
    ELSE IF \E i \in DOMAIN fs : Blocking(fs[i]) THEN "blocking-present"
    ELSE "no-blocking-findings"

VerdictOf(reason) ==
    CASE reason \in {"hard-critical", "corroborated-warn", "claimed-fixed-recurrence"} -> "FAIL"
      [] reason = "blocking-present" -> "SOFT-PASS"
      [] OTHER -> "PASS"

\* The whole trace: each reported finding is in one cluster, a cluster that is gone was
\* dropped by a pass, and the verdict is the one its reason and the findings call for.
Accepted(v) ==
    /\ ~Doubled(fs)
    /\ \A i \in DOMAIN fs : fs[i].sev = "dropped" => "critic" \in fs[i].effects
    /\ v = VerdictOf(Reason)
    /\ v = "PASS" <=> \A i \in DOMAIN fs : ~Blocking(fs[i])
    /\ Reason = "hard-critical" => \E i \in DOMAIN fs : fs[i].sev = "CRITICAL"
    /\ Reason = "corroborated-warn" => \E i \in DOMAIN fs : fs[i].sev = "WARN"

Compute ==
    /\ stage = "verdict"
    /\ stage' = "done"
    /\ verdict' = CASE \E i \in DOMAIN fs : FailsAlone(fs[i]) -> "FAIL"
                    [] \E i \in DOMAIN fs : Blocking(fs[i]) /\ \A j \in DOMAIN fs : ~FailsAlone(fs[j]) -> "SOFT-PASS"
                    [] OTHER -> "PASS"
    /\ telemetryError' = (telemetryError \/ ~Accepted(verdict'))
    /\ UNCHANGED <<setting, memory, fs>>

VerdictNext ==
    \/ FactCheck \/ SelfRefute \/ Hypothetical \/ GroundTokens \/ JudgeGrounding \/ DemoteRedaction
    \/ Cluster \/ PinClaimedFixed \/ Critic \/ ScopeDiff \/ ScopeDelta \/ ScopeSession
    \/ SuppressFp \/ SuppressRejected \/ SuppressFpCluster \/ Confidence \/ Reputation \/ SuppressRegion
    \/ TestSecurity \/ CapDocs \/ Compute

VerdictSpec == VerdictInit /\ [][VerdictNext]_findingVars

(***************************************************************************)
(* Correctness.                                                            *)
(***************************************************************************)

Severities == {"CRITICAL", "WARN", "INFO", "dropped"}
Stages == {"facts", "refuted", "hypothetical", "tokens", "judge", "redaction", "cluster", "pin", "critic", "scope",
           "delta", "session", "fp", "cycle", "fpcluster", "confidence", "reputation", "region", "tests", "docs",
           "verdict", "done"}

\* The passes that say "not here" or "decided before", not "not so bad".
Scoping == {"scope.diff", "scope.delta", "scope.session", "test-security"}
Recorded == {"fp-signature", "fp-cluster", "cycle-rejected"}
Disproved == {"fact-location", "self-refutation", "redaction"}

\* Every variable has its type, and a finding is blocking or has been lowered.
FindingTypes ==
    /\ setting \in Settings /\ memory \in Memories /\ stage \in Stages
    /\ \A i \in DOMAIN fs : fs[i].sev \in Severities /\ fs[i].raw \in Severities
    /\ verdict \in {"none", "PASS", "SOFT-PASS", "FAIL"}
    /\ verdict = "none" <=> stage # "done"
    /\ telemetryError \in BOOLEAN

\* However many judgments of value agree, a finding reported as CRITICAL stays open
\* for a decision: only evidence, scope or an earlier decision takes it out of the
\* verdict (the G0 floor; "only PASS is served from cache" rests on it).
CriticalStaysOpen ==
    stage = "done" => \A i \in DOMAIN fs : \A m \in fs[i].members :
        m.raw = "CRITICAL" /\ (m.effects \cup fs[i].effects) \cap (Disproved \cup Scoping \cup Recorded) = {}
            => Blocking(fs[i]) /\ verdict # "PASS"

\* A fix that was claimed and did not help fails the review even if one reviewer
\* alone still sees the problem, unless the agent contests any part of the cluster,
\* it is out of scope, or the ledger knows it (claimed_fixed_recurred).
ClaimedFixIsChecked ==
    stage = "done" /\ (\E i \in DOMAIN fs :
                          /\ Sigs(fs[i]) \cap memory.claimed # {} /\ Sigs(fs[i]) \cap memory.rejected = {}
                          /\ \E m \in fs[i].members : m.sev \in {"CRITICAL", "WARN"}
                          /\ fs[i].effects \cap (Scoping \cup {"fp-signature", "fp-cluster"}) = {})
        => verdict = "FAIL"

\* The trace of a review is lost if and only if a signature lies in two clusters:
\* passes and catalogue, kept in two files, agree on whatever the passes meet.  A
\* measurement that switches off the pass for what was rejected, in the cycle or in a
\* region, is excepted: the passes match a CRITICAL there, and the catalogue has no
\* change of one for them.
TraceIsWhole ==
    stage = "done" /\ setting.ablated \cap {"cycle-rejected", "region-rejected"} = {}
        => (telemetryError <=> Doubled(fs))

\* Which findings share a cluster, and how bad it is, does not depend on the order in
\* which the reviewers' findings come ("must not depend on that order").
Shape(cs) == {[members |-> cs[k].members, sev |-> cs[k].sev] : k \in DOMAIN cs}
Outcomes(in) == {Shape(Clusters(in, order)) : order \in Sorted(in)}
OrderDoesNotMatter ==
    stage = "cluster" => \A p \in Bijection(DOMAIN fs, DOMAIN fs) : Outcomes([i \in DOMAIN fs |-> fs[p[i]]]) = Outcomes(fs)

=============================================================================

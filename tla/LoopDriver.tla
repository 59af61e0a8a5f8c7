----------------------------- MODULE LoopDriver -----------------------------
(***************************************************************************)
(* src/core/loop-driver.ts: the review loop of one agent session, with the *)
(* part of src/cli/commands/gate.ts that decides whether a stop reaches it *)
(* (stopProbe, and gatherReviewContext's synthesis of a dirty flag).       *)
(*                                                                         *)
(* Each time the agent ends its turn the Stop hook runs the gate once.     *)
(* The gate answers at once (the agent is let go, told to go on, or handed *)
(* to a human), or it runs the reviewer panel and answers when the panel   *)
(* returns.  While the panel runs other processes can edit and commit.     *)
(*                                                                         *)
(* A finding is named by its signature, with a fixed severity, code region *)
(* and owner.  The git history and the working tree are counters: every    *)
(* edit makes a tree no one has seen, and a commit leaves a clean one.     *)
(* The work in commit n, or about to be in it, is called n.                *)
(***************************************************************************)
EXTENDS Integers, Sequences, FiniteSets

CONSTANTS
  Findings,          \* the findings reviewers can report, by signature
  Severity,          \* "CRITICAL", "WARN" or "INFO"
  Region,            \* the location key (file, and line to the nearest ten)
  Owner,             \* whose code it is on: "own", "foreign" (a file this
                     \* session did not write), "disownable" (commits of
                     \* another agent), "check" (a failed build or test)
  None,              \* no value (null)
  MaxIterations,     \* loop.maxIterations
  Overrides,         \* max_iterations_override of a review: numbers or None
  StuckThreshold,    \* loop.stuckThreshold
  MaxSigRecurrence,  \* loop.maxSignatureRecurrence, 0 = off
  MaxLocRecurrence,  \* loop.maxLocationRecurrence, 0 = off
  RejectPercent,     \* loop.rejectRateEscalation, 0 = off
  MinDecisions,      \* MIN_DECISIONS_FOR_REJECT_RATE
  FpThreshold,       \* loop.fpStreakThreshold, 0 = off
  FpChurnGuard,      \* loop.fpChurnGuard
  QuotaCap,          \* loop.quotaDeferMaxConsecutive
  InfraCap,          \* loop.infraDeferMaxConsecutive
  MaxIncomplete,     \* MAX_CONSECUTIVE_INCOMPLETE_RUNS
  CostCap,           \* loop.costCapUsd, 0 = off
  Costs,             \* what a review can cost
  AcknowledgePass,   \* loop.acknowledgePass
  UnseenCommits,     \* when work may be committed that no gate has captured
                     \* and no dirty flag covers: values of pc
  MaxEdits,          \* bound: edits
  MaxCommits         \* bound: commits

Latch == "quota-exhausted-persistent"

(* The reasons of an escalation; the last one is the quota latch. *)
Reasons == {"cost-cap", "max-iterations", "stuck-signatures", "signature-recurrence",
            "location-recurrence", "findings-out-of-scope", "session-disowned",
            "decisions-unaddressed", "reject-rate-high", "reviewer-fp-streak",
            "infra-unavailable", "review-timeout", Latch}

(* The lines evaluateDecisions accepts for a finding. *)
Decisions == {"fixed", "wrong", "rejected", "out-of-scope", "out-of-session"}
Rejections == {"wrong", "rejected"}

ASSUME ConfigAssumption ==
  /\ None \notin Nat \cup Reasons \cup Decisions
  /\ MaxIterations \in Nat \ {0}
  /\ Overrides \subseteq (Nat \ {0}) \cup {None}
  /\ \A n \in {StuckThreshold, MaxSigRecurrence, MaxLocRecurrence, RejectPercent,
               MinDecisions, FpThreshold, QuotaCap, InfraCap, CostCap,
               MaxEdits, MaxCommits} : n \in Nat
  /\ MaxIncomplete \in Nat \ {0}
  /\ Costs \subseteq Nat
  /\ FpChurnGuard \in BOOLEAN
  /\ AcknowledgePass \in BOOLEAN

ASSUME FindingsAssumption ==
  /\ IsFiniteSet(Findings)
  /\ Severity \in [Findings -> {"CRITICAL", "WARN", "INFO"}]
  /\ Owner \in [Findings -> {"own", "foreign", "disownable", "check"}]

VARIABLES
  st,          \* .reviewgate/state.json
  flag,        \* dirty.flag: the commit the review starts from, or None
  pending,     \* the findings in pending.json
  dec,         \* the line for each finding in decisions/<iteration>.jsonl
  head,        \* HEAD
  tree,        \* the working tree: the last edit in it, 0 if it is clean
  edits,       \* edits so far
  pc,          \* "agent" between two stops, "gathered" once the gate has
               \* collected the diff, "reviewing" while the panel runs
  run,         \* what the gate captured: head, tree and the review base with
               \* the diff, and whether the dirty flag was rewritten since the
               \* driver read it
  chain,       \* stop_hook_active: the turn is one the gate forced
  answer,      \* what the gate said last, "none" once the agent acts again
  owed,        \* history: the work there was when the last gate ran that no
               \* review has passed and no human was told of
  late,        \* history: the work there has been since
  open,        \* history: blocking findings not decided nor handed to a human
  waived       \* history: stops let go in a row without any review

world == <<head, tree, edits>>
vars == <<st, flag, pending, dec, world, pc, run, chain, answer,
          owed, late, open, waived>>

-----------------------------------------------------------------------------
(* Findings and decisions. *)

LowerOf(a, b) == IF a <= b THEN a ELSE b
HigherOf(a, b) == IF a >= b THEN a ELSE b
Largest(S) == CHOOSE k \in S : \A j \in S : j <= k

Blocking(fs) == {f \in fs : Severity[f] # "INFO"}
Regions(fs) == {Region[f] : f \in fs}
OfSeverity(fs, s) == Cardinality({f \in fs : Severity[f] = s})

Admissible(f) ==
  {"fixed"} \cup (IF Owner[f] = "check" THEN {} ELSE Rejections)
            \cup (IF Owner[f] = "foreign" THEN {"out-of-scope"} ELSE {})
            \cup (IF Owner[f] = "disownable" THEN {"out-of-session"} ELSE {})

Required == Blocking(pending)
Decided(f) == dec[f] \in Decisions
Undecided == {f \in Required : ~Decided(f)}
Invalid == {f \in Required : dec[f] = "invalid"}

(* computeRejectRate, over the real findings of the last round only. *)
WrongRejects == Cardinality({f \in Required : dec[f] = "wrong"})
Contested == Cardinality({f \in Required : dec[f] \in Rejections})
Answered == Cardinality({f \in Required : Decided(f)})

-----------------------------------------------------------------------------
(* state.json: what Init writes, and what ends a cycle. *)

Latched(s) == s.reason = Latch

NewCycle(s) ==
  [s EXCEPT !.iteration = 0, !.cost = 0, !.rows = <<>>, !.fps = <<>>,
            !.incomplete = 0, !.cumFp = 0, !.fpThrough = 0]

CloseEscalation(s) ==
  [s EXCEPT !.escalated = FALSE, !.reason = None, !.announced = FALSE,
            !.escHead = None, !.escTree = None]

Rearm(s) == CloseEscalation(NewCycle(s))

(* Path A: HEAD has moved since the last review.  A commit made after the   *)
(* announcement closes an escalation; one the announcement already knew     *)
(* does not, and neither does any commit while the quota latch holds.       *)
StandsDown(s) == s.escalated /\ (Latched(s) \/ s.escHead = run.head)

(* Mutant: any commit re-arms the gate, escalated or not. *)
ClosedByCommit_Any(s) == ~Latched(s) /\ s.escHead # run.head

ClosedByCommit(s) == s.escalated /\ ~Latched(s) /\ s.escHead # run.head

PathA(s) ==
  IF s.lastHead = run.head \/ StandsDown(s) THEN s
  ELSE [(IF ClosedByCommit(s) THEN Rearm(s) ELSE s)
          EXCEPT !.lastHead = run.head, !.lastTree = run.tree]

(* Path B: there is new work although the last escalation was announced.    *)
PathB(s) ==
  IF s.escalated /\ s.announced /\ ~Latched(s) THEN Rearm(s) ELSE s

Rearmed == PathB(PathA(st))

-----------------------------------------------------------------------------
(* Is the loop converging?  The two last rounds that found anything are     *)
(* compared; the findings of a round are discounted by those the agent      *)
(* showed to be wrong.                                                       *)

Rounds(s) == DOMAIN s.rows
Reviewed(s) == {k \in Rounds(s) : s.rows[k] # {}}
LastRound(s) == Largest(Reviewed(s))
PrevRound(s) == Largest(Reviewed(s) \ {LastRound(s)})

FpAt(s, k) == IF k \in DOMAIN s.fps THEN s.fps[k] ELSE 0
IsNewest(s, k) == k = Len(s.rows)
Real(s, k, wrong) == HigherOf(0, Cardinality(s.rows[k]) - wrong)
LastReal(s) ==
  LET k == LastRound(s)
  IN  Real(s, k, IF IsNewest(s, k) THEN WrongRejects ELSE FpAt(s, k))
PrevReal(s) == Real(s, PrevRound(s), FpAt(s, PrevRound(s)))

SeverityImproving(s) ==
  LET now == s.rows[LastRound(s)]
      before == s.rows[PrevRound(s)]
  IN  \/ OfSeverity(now, "CRITICAL") < OfSeverity(before, "CRITICAL")
      \/ /\ OfSeverity(now, "CRITICAL") = OfSeverity(before, "CRITICAL")
         /\ OfSeverity(now, "WARN") < OfSeverity(before, "WARN")

NewRegion(s) ==
  LET prior == UNION {Regions(s.rows[k]) : k \in 1..(LastRound(s) - 1)}
  IN  ~ (Regions(s.rows[LastRound(s)]) \subseteq prior)

FpDominated(s) ==
  LET k == LastRound(s)
      wrong == IF IsNewest(s, k) THEN HigherOf(WrongRejects, FpAt(s, k))
               ELSE FpAt(s, k)
      blocking == Cardinality(Blocking(s.rows[k]))
  IN  FpChurnGuard /\ blocking > 0 /\ 2 * wrong >= blocking

Churning(s) ==
  /\ PrevReal(s) > 0
  /\ Cardinality(s.rows[LastRound(s)] \cap s.rows[PrevRound(s)]) < PrevReal(s)
  /\ NewRegion(s)
  /\ ~FpDominated(s)

Progressing(s) ==
  /\ Cardinality(Reviewed(s)) >= 2
  /\ \/ LastReal(s) < PrevReal(s)
     \/ LastReal(s) = 0 /\ FpThreshold > 0
     \/ SeverityImproving(s)
     \/ Churning(s)

-----------------------------------------------------------------------------
(* The ladder of conditions a stop climbs before it may start a review.     *)

MaxIter(s) == IF s.override = None THEN MaxIterations
              ELSE LowerOf(MaxIterations, s.override)
HardCap(m) == LowerOf(2 * m, m + 2)

LastRows(s, n) == {s.rows[k] : k \in (Len(s.rows) - n + 1)..Len(s.rows)}
StuckWindow == HigherOf(2, StuckThreshold)
Window(n) == HigherOf(n, StuckWindow + 1)

CostReached(s) == CostCap > 0 /\ s.cost >= CostCap

HardCapReached(s) == s.iteration >= HardCap(MaxIter(s))
Stalled(s) == s.iteration >= MaxIter(s) /\ ~Progressing(s)
Stuck(s) ==
  /\ Len(s.rows) >= StuckWindow
  /\ s.rows[Len(s.rows)] # {}
  /\ LastRows(s, StuckWindow) = {s.rows[Len(s.rows)]}
SignatureRecurs(s) ==
  LET n == Window(MaxSigRecurrence)
  IN  /\ MaxSigRecurrence > 0
      /\ Len(s.rows) >= n
      /\ \E f \in Required : dec[f] # "wrong" /\ \A r \in LastRows(s, n) : f \in r
LocationRecurs(s) ==
  LET n == Window(MaxLocRecurrence)
  IN  /\ MaxLocRecurrence > 0
      /\ Len(s.rows) >= n
      /\ \E g \in Regions(Required) : \A r \in LastRows(s, n) : g \in Regions(r)

(* The rungs below hold only once there has been a round. *)
Unaddressed(s) == s.iteration > 0 /\ Undecided # {}

(* Mutant: the agent is told again and again. *)
Asked_Always(s) == Unaddressed(s)

Asked(s) == Unaddressed(s) /\ ~chain
LeftTo(owner) == Invalid = {} /\ \A f \in Undecided : Owner[f] = owner
Disowned(s) == s.iteration > 0 /\ \E f \in pending : dec[f] = "out-of-session"
RejectRateHigh(s) ==
  /\ s.iteration > 0 /\ RejectPercent > 0 /\ Answered >= MinDecisions
  /\ 100 * Contested >= RejectPercent * Answered

(* The false positives of a round are counted once, however many stops and  *)
(* aborted reviews follow it.                                               *)
Uncounted(s) == s.iteration > s.fpThrough
Counted(s) ==
  [s EXCEPT !.cumFp = @ + WrongRejects, !.fpThrough = s.iteration,
            !.fps = [k \in Rounds(s) |-> IF IsNewest(s, k) THEN WrongRejects
                                         ELSE FpAt(s, k)]]

CountFps(s) == IF Uncounted(s) THEN Counted(s) ELSE s
FpStreak(s) ==
  Uncounted(s) /\ FpThreshold > 0 /\ s.cumFp + WrongRejects >= FpThreshold

Rung(s) ==
  IF CostReached(s) THEN "cost-cap"
  ELSE IF HardCapReached(s) THEN "hard-cap"
  ELSE IF Stalled(s) THEN "max-iterations"
  ELSE IF Stuck(s) THEN "stuck-signatures"
  ELSE IF SignatureRecurs(s) THEN "signature-recurrence"
  ELSE IF LocationRecurs(s) THEN "location-recurrence"
  ELSE IF Asked(s) THEN "re-prompt"
  ELSE IF Unaddressed(s) /\ LeftTo("foreign") THEN "findings-out-of-scope"
  ELSE IF Unaddressed(s) /\ LeftTo("disownable") THEN "session-disowned"
  ELSE IF Unaddressed(s) THEN "decisions-unaddressed"
  ELSE IF Disowned(s) THEN "session-disowned"
  ELSE IF RejectRateHigh(s) THEN "reject-rate-high"
  ELSE IF FpStreak(s) THEN "reviewer-fp-streak"
  ELSE "review"

(* What the climb itself has written to state.json. *)
Climbed(s) == IF Rung(s) \in {"review", "reviewer-fp-streak"} THEN CountFps(s) ELSE s

-----------------------------------------------------------------------------
(* escalateAndDecide.  An escalation that a reviewer in cooldown may explain *)
(* is put off a bounded number of times; otherwise the human is told, once.  *)

Deferable == {"max-iterations", "stuck-signatures", "signature-recurrence",
              "location-recurrence"}
LetsGo == {"reviewer-fp-streak", "infra-unavailable", "findings-out-of-scope",
           "session-disowned", Latch}
ReasonOf(code) == IF code = "hard-cap" THEN "max-iterations" ELSE code

(* Mutant: the tree is hashed when the human is told, not with the diff. *)
Announce_FreshTree(s, code) ==
  IF s.announced THEN s
  ELSE [s EXCEPT !.escalated = TRUE, !.reason = ReasonOf(code), !.announced = TRUE,
                 !.quota = 0, !.escHead = head, !.escTree = tree]

Announce(s, code) ==
  IF s.announced THEN s
  ELSE [s EXCEPT !.escalated = TRUE, !.reason = ReasonOf(code), !.announced = TRUE,
                 !.quota = 0, !.escHead = head, !.escTree = run.tree]

Idle == [head |-> 0, tree |-> 0, base |-> 0, rewritten |-> FALSE]

(* The work in the diff of the running gate. *)
Captured == {n \in owed : n > run.base}

(* The gate answers the stop; stop_hook_active is set on the next one if it *)
(* has been told to go on.  Letting a stop go unreviewed is counted.        *)
Answer(a) == /\ pc' = "agent" /\ run' = Idle
             /\ answer' = a /\ chain' = (a = "block")
LetGo == Answer("deferred") /\ waived' = LowerOf(waived + 1, QuotaCap + InfraCap + 1)

(* unlinkDirtyFlagIfUnchanged: a flag rewritten since it was read is kept.  *)
Reaped == IF run.rewritten THEN flag ELSE None

(* What the human has been told of is no longer owed.  Under the quota      *)
(* latch it is: the work stays flagged, to be reviewed when quota is back.  *)
Escalate(s, code) ==
  /\ st' = Announce(s, code)
  /\ flag' = IF code = Latch THEN flag ELSE Reaped
  /\ Answer(IF s.announced \/ ReasonOf(code) \in LetsGo THEN "escalated" ELSE "block")
  /\ owed' = IF s.announced \/ code = Latch THEN owed ELSE owed \ Captured
  /\ open' = IF s.announced THEN open ELSE {}
  /\ waived' = 0

-----------------------------------------------------------------------------
(* The agent and the other processes in the checkout. *)

Blank == [f \in Findings |-> None]

Init ==
  /\ st = [iteration |-> 0, cost |-> 0, rows |-> <<>>, fps |-> <<>>,
           incomplete |-> 0, infra |-> 0, quota |-> 0, cumFp |-> 0, fpThrough |-> 0,
           override |-> None, escalated |-> FALSE, reason |-> None,
           announced |-> FALSE, escHead |-> None, escTree |-> None,
           lastHead |-> 0, lastTree |-> 0]
  /\ flag = None /\ pending = {} /\ dec = Blank
  /\ head = 0 /\ tree = 0 /\ edits = 0
  /\ pc = "agent" /\ run = Idle
  /\ chain = FALSE /\ answer = "none"
  /\ owed = {} /\ late = {} /\ open = {} /\ waived = 0

(* Work lands.  An edit made with an editing tool rewrites the dirty flag   *)
(* (handleTrigger) and takes HEAD for its base if there was none; one made  *)
(* from a shell, or by another process, leaves no trace.                     *)
Edit(traced) ==
  /\ edits < MaxEdits
  /\ edits' = edits + 1 /\ tree' = edits'
  /\ flag' = IF traced /\ flag = None THEN head ELSE flag
  /\ run' = [run EXCEPT !.rewritten = @ \/ (traced /\ pc = "reviewing")]
  /\ late' = late \cup {head + 1} /\ answer' = "none"
  /\ UNCHANGED <<st, pending, dec, head, pc, chain, owed, open, waived>>

Commit ==
  /\ tree # 0 /\ head < MaxCommits
  /\ pc \in UnseenCommits \/ head + 1 \notin late \/ (pc = "agent" /\ flag # None)
  /\ head' = head + 1 /\ tree' = 0
  /\ answer' = "none"
  /\ UNCHANGED <<st, flag, pending, dec, edits, pc, run, chain, owed, late, open, waived>>

(* The agent records a decision; it rewrites a line the gate rejected.      *)
Decide(f, d) ==
  /\ pc = "agent" /\ f \in Undecided
  /\ d = "invalid" => dec[f] = None
  /\ dec' = [dec EXCEPT ![f] = d]
  /\ open' = IF d = "invalid" THEN open ELSE open \ {f}
  /\ answer' = "none"
  /\ UNCHANGED <<st, flag, pending, world, pc, run, chain, owed, late, waived>>

-----------------------------------------------------------------------------
(* A stop, up to the diff. *)

(* stopProbe: is the gate skipped? *)
HandedOff == /\ flag = None /\ st.escalated /\ st.announced /\ ~Latched(st)
             /\ st.escHead = head /\ st.escTree = tree
Unchanged == /\ flag = None /\ ~(st.escalated /\ st.announced)
             /\ st.lastHead = head /\ st.lastTree = tree

Capture == owed' = owed \cup late /\ late' = {}

Skip ==
  /\ pc = "agent"
  /\ \/ HandedOff /\ answer' = "stood down"
     \/ Unchanged /\ answer' = "green"
  /\ chain' = FALSE
  /\ Capture
  /\ UNCHANGED <<st, flag, pending, dec, world, pc, run, open, waived>>

(* gatherReviewContext and runStopGate: the diff starts from the flag's     *)
(* base.  Without a flag it starts from the last reviewed HEAD, and a flag  *)
(* is written unless the diff is empty.                                      *)
Base == IF flag # None THEN flag ELSE st.lastHead

Gather ==
  /\ pc = "agent" /\ ~HandedOff /\ ~Unchanged
  /\ pc' = "gathered"
  /\ flag' = IF tree # 0 \/ Base # head THEN Base ELSE flag
  /\ run' = [head |-> head, tree |-> tree, base |-> Base, rewritten |-> FALSE]
  /\ answer' = "none"
  /\ Capture
  /\ UNCHANGED <<st, pending, dec, world, chain, open, waived>>

-----------------------------------------------------------------------------
(* The driver, up to the review. *)

NothingToReview ==
  /\ pc = "gathered" /\ flag = None
  /\ Answer("green")
  /\ UNCHANGED <<st, flag, pending, dec, world, owed, late, open, waived>>

Climb == pc = "gathered" /\ flag # None
DecRearmed == IF st.escalated /\ ~Rearmed.escalated THEN Blank ELSE dec

(* The agent left findings undecided: it is told once. *)
Reprompt ==
  /\ Climb /\ Rung(Rearmed) = "re-prompt"
  /\ st' = Rearmed /\ dec' = DecRearmed
  /\ Answer("block")
  /\ UNCHANGED <<flag, pending, world, owed, late, open, waived>>

(* The ladder ends the loop, unless a reviewer is in cooldown: then a later *)
(* stop may end it.                                                          *)
EndLoop ==
  /\ Climb
  /\ LET code == Rung(Rearmed)
     IN  code \notin {"re-prompt", "review"} /\ Escalate(Climbed(Rearmed), code)
  /\ dec' = DecRearmed
  /\ UNCHANGED <<pending, world, late>>

PutOffEnd ==
  /\ Climb
  /\ Rearmed.quota < QuotaCap /\ Rung(Rearmed) \in Deferable
  /\ st' = [Rearmed EXCEPT !.quota = @ + 1] /\ dec' = DecRearmed
  /\ LetGo
  /\ UNCHANGED <<flag, pending, world, owed, late, open>>

StartReview ==
  /\ Climb /\ Rung(Rearmed) = "review"
  /\ st' = Climbed(Rearmed) /\ dec' = DecRearmed
  /\ pc' = "reviewing" /\ run' = [run EXCEPT !.rewritten = FALSE]
  /\ UNCHANGED <<flag, pending, world, chain, answer, owed, late, open, waived>>

-----------------------------------------------------------------------------
(* The panel returns. *)

(* Mutant: what is there when the panel returns counts as reviewed. *)
Completed_Fresh(s) ==
  [s EXCEPT !.incomplete = 0, !.infra = 0, !.quota = 0,
            !.lastHead = head, !.lastTree = tree]

(* What every completed review writes, whatever its verdict. *)
Completed(s) ==
  [s EXCEPT !.incomplete = 0, !.infra = 0, !.quota = 0,
            !.lastHead = run.head, !.lastTree = run.tree]

(* A verdict ends the quota latch; an ERROR does not. *)
Unlatched(s) == IF Latched(s) THEN CloseEscalation(s) ELSE s

Pass ==
  /\ pc = "reviewing"
  /\ st' = [NewCycle(Completed(Unlatched(st))) EXCEPT !.override = None,
              !.escalated = FALSE, !.reason = None, !.announced = FALSE]
  /\ flag' = Reaped
  /\ pending' = {} /\ dec' = Blank
  /\ Answer(IF AcknowledgePass /\ ~chain THEN "block" ELSE "green")
  /\ owed' = owed \ Captured /\ open' = {} /\ waived' = 0
  /\ UNCHANGED <<world, late>>

Round(s, fs, cost, override) ==
  [Completed(s) EXCEPT !.iteration = @ + 1, !.cost = @ + cost,
                       !.rows = Append(@, fs), !.override = override]

Fail(fs, cost, override) ==
  /\ pc = "reviewing" /\ Blocking(fs) # {}
  /\ st' = Round(Unlatched(st), fs, cost, override)
  /\ pending' = fs /\ dec' = Blank
  /\ Answer("block")
  /\ open' = Blocking(fs) /\ waived' = 0
  /\ UNCHANGED <<flag, world, owed, late>>

(* Some reviewer answered, none with a review. *)
Error(cost, override) ==
  /\ pc = "reviewing"
  /\ st' = Round(st, {}, cost, override)
  /\ pending' = {} /\ dec' = Blank
  /\ Answer("block") /\ waived' = 0
  /\ UNCHANGED <<flag, world, owed, late, open>>

(* Mutant: one deferral too many. *)
QuotaSpent_OffByOne(n) == n > QuotaCap + 1

QuotaSpent(n) == n > QuotaCap
InfraSpent(n) == n > InfraCap

(* handleAllQuotaLocked: every reviewer is out of quota. *)
QuotaLocked ==
  /\ pc = "reviewing"
  /\ pending' = {}
  /\ LET next == LowerOf(st.quota + 1, QuotaCap + 1)
         counted == [st EXCEPT !.incomplete = 0, !.quota = next]
     IN  \/ /\ st.escalated /\ Latched(st)
            /\ st' = counted
            /\ LetGo
            /\ UNCHANGED <<flag, owed, open>>
         \/ /\ ~(st.escalated /\ Latched(st)) /\ QuotaCap = 0
            /\ Answer("block")
            /\ UNCHANGED <<st, flag, owed, open, waived>>
         \/ /\ ~(st.escalated /\ Latched(st)) /\ QuotaCap > 0 /\ QuotaSpent(next)
            /\ Escalate(counted, Latch)
         \/ /\ ~(st.escalated /\ Latched(st)) /\ QuotaCap > 0 /\ ~QuotaSpent(next)
            /\ st' = counted
            /\ LetGo
            /\ UNCHANGED <<flag, owed, open>>
  /\ UNCHANGED <<dec, world, late>>

(* handleInfraUnavailable: no reviewer could run at all. *)
InfraFailed ==
  /\ pc = "reviewing"
  /\ pending' = {}
  /\ \/ /\ InfraCap = 0
        /\ Answer("block")
        /\ UNCHANGED <<st, flag, owed, open, waived>>
     \/ /\ InfraCap > 0 /\ InfraSpent(st.infra + 1)
        /\ Escalate([st EXCEPT !.infra = 0], "infra-unavailable")
     \/ /\ InfraCap > 0 /\ ~InfraSpent(st.infra + 1)
        /\ st' = [st EXCEPT !.infra = @ + 1, !.incomplete = 0]
        /\ LetGo
        /\ UNCHANGED <<flag, owed, open>>
  /\ UNCHANGED <<dec, world, late>>

(* handleIncompleteRun: the run timed out and did not settle. *)
TimedOut ==
  /\ pc = "reviewing"
  /\ pending' = {}
  /\ LET counted == [st EXCEPT !.incomplete = LowerOf(@ + 1, MaxIncomplete)]
     IN  \/ /\ counted.incomplete < MaxIncomplete
            /\ st' = counted
            /\ Answer("block")
            /\ UNCHANGED <<flag, owed, open, waived>>
         \/ /\ counted.incomplete = MaxIncomplete
            /\ Escalate(counted, "review-timeout")
  /\ UNCHANGED <<dec, world, late>>

-----------------------------------------------------------------------------

Stop == \/ Skip \/ Gather \/ NothingToReview \/ Reprompt \/ EndLoop \/ PutOffEnd
        \/ StartReview

Return == \/ Pass \/ QuotaLocked \/ InfraFailed \/ TimedOut
          \/ \E c \in Costs, o \in Overrides :
               Error(c, o) \/ \E fs \in SUBSET Findings : Fail(fs, c, o)

Agent == \/ \E f \in Findings : \E d \in Admissible(f) \cup {"invalid"} : Decide(f, d)
         \/ \E traced \in BOOLEAN : Edit(traced)
         \/ Commit

Next == Stop \/ Return \/ Agent

Spec == Init /\ [][Next]_vars

(* Every turn ends, and the gate always answers: its setup and its review   *)
(* run under deadlines.                                                      *)
FairSpec == Spec /\ WF_vars(Stop) /\ WF_vars(Return)

-----------------------------------------------------------------------------
(* Properties. *)

Maybe(S) == S \cup {None}
States == [iteration : Nat, cost : Nat, rows : Seq(SUBSET Findings), fps : Seq(Nat),
           incomplete : 0..MaxIncomplete, infra : 0..InfraCap, quota : 0..(QuotaCap + 1),
           cumFp : Nat, fpThrough : Nat, override : Overrides \cup {None},
           escalated : BOOLEAN, reason : Maybe(Reasons), announced : BOOLEAN,
           escHead : Maybe(Nat), escTree : Maybe(Nat), lastHead : Nat, lastTree : Nat]

(* The state has its types; no counter passes its limit. *)
TypeOK ==
  /\ st \in States
  /\ flag \in Maybe(Nat) /\ chain \in BOOLEAN
  /\ owed \subseteq Nat /\ late \subseteq Nat
  /\ pending \subseteq Findings /\ open \subseteq Findings
  /\ dec \in [Findings -> Decisions \cup {"invalid", None}]
  /\ head \in Nat /\ tree \in Nat /\ edits \in Nat
  /\ run \in [head : Nat, tree : Nat, base : Nat, rewritten : BOOLEAN]
  /\ pc \in {"agent", "gathered", "reviewing"}
  /\ answer \in {"none", "green", "block", "deferred", "escalated", "stood down"}
  /\ waived \in Nat

(* The loop ends: no cycle has more rounds than the hard cap of the         *)
(* configured maximum, however the per-diff cap moves between rounds, and   *)
(* whatever rounds ended in errors, timeouts, deferrals or new commits.     *)
RoundsBounded == st.iteration <= HardCap(MaxIterations)

(* Every counter of a cycle speaks of the same rounds: the histories are    *)
(* read by absolute index, so a row more or less would compare the wrong    *)
(* rounds.                                                                   *)
HistoriesAligned ==
  /\ Len(st.rows) = st.iteration
  /\ Len(st.fps) <= st.iteration
  /\ st.fpThrough <= st.iteration

(* "No code changes" or a pass is only said when all the work there was     *)
(* when the gate looked has been passed by a review whose diff it was in,   *)
(* or handed to a human, and no blocking finding is left undecided.          *)
GreenIsEarned == answer = "green" => owed = {} /\ open = {}

(* The gate stands down only over work the human was told of. *)
StandDownIsTold == answer = "stood down" => owed = {}

(* A round never starts over undecided findings: no commit, timeout, outage *)
(* or re-armed cycle loses them.                                             *)
NoFindingDropped == pc = "reviewing" => open = {}

(* An outage lets only so many stops go unreviewed in a row before a human  *)
(* is told, however the kinds of outage alternate.                           *)
DefersBounded == ~Latched(st) => waived <= QuotaCap + InfraCap

(* While the quota latch holds there is a dirty flag, so that every stop    *)
(* reaches the panel.                                                        *)
LatchKeepsFlag == Latched(st) /\ pc = "agent" => flag # None

(* The chain of turns the gate forces ends: sooner or later the agent is    *)
(* let go.                                                                   *)
LetsAgentGo == []<>(answer \in {"green", "deferred", "escalated", "stood down"})

=============================================================================

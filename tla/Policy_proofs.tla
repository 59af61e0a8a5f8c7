---------------------------- MODULE Policy_proofs ----------------------------
(***************************************************************************)
(* What holds of a policy measurement: of a recorded run, its harvest and  *)
(* its replay, for any number of turns, reviews, rounds and kills; of the  *)
(* classes that are given, for any studies; of the publication, for any    *)
(* callers and any amount of trouble; of a benchmark and its replays, for  *)
(* any reviewers, cases, attempts and answers.                             *)
(***************************************************************************)
EXTENDS Bench, Publication, Rig, Classify, FiniteSetTheorems, SequenceTheorems, WellFoundedInduction, TLAPS

(***************************************************************************)
(* The recording of a run and its replay (Rig).                            *)
(***************************************************************************)

Calls == Nat \X Nat
Reports == [run : Nat, iter : Nat, turn : Nat]
Answers == Nat \X Nat \X Nat
States == [run : Nat, cycle : Nat, iter : Nat, ledger : SUBSET Answers, outcomes : SUBSET Calls]
Envelopes == [kind : {"trace", "lossy", "overflow"}, run : Nat, iter : Nat, state : States, demotes : BOOLEAN]
AuditEvents == [kind : {"told", "complete"}, run : Nat, iter : Nat, turn : Nat]
TurnRecords ==
    [status : {"complete", "overflow", "missing"}, traces : SUBSET Envelopes, audit : SUBSET AuditEvents,
     reports : SUBSET Reports]
Drivers ==
    [pc : {"between", "agent", "settling", "done"}, turn : Nat, unreviewed : Nat, audit : SUBSET AuditEvents,
     sink : SUBSET Envelopes, seen : SUBSET Reports, reports : SUBSET Reports]
Lives ==
    [run : Nat \ {0}, cycle : Nat, iter : Nat, pending : Reports, audit : SUBSET AuditEvents, dirty : BOOLEAN,
     escalated : BOOLEAN, ledger : SUBSET Answers, outcomes : SUBSET Calls]
ReviewSet ==
    [pc : {"none", "asked", "judged", "reported", "dead"}, state : States, fate : {"none", "unasked", "outage", "policy"}]

RigTypeOK ==
    /\ driver \in Drivers
    /\ live \in Lives
    /\ review \in ReviewSet
    /\ sink \subseteq Envelopes
    /\ tape \in Seq(Calls)
    /\ manifest.turns \in Seq(TurnRecords) /\ manifest.tape \in Seq(Calls) /\ manifest.captures \in BOOLEAN
    /\ ran \subseteq Reports

(***************************************************************************)
(* Types.                                                                  *)
(***************************************************************************)

LEMMA NothingTyped ==
  NoReport \in Reports /\ NoState \in States /\ NoReview \in ReviewSet /\ NoReview.pc = "none" /\ NoReview.fate = "none"
  BY DEF NoReport, NoState, NoReview, Reports, States, ReviewSet

LEMMA ThisReportTyped ==
  ASSUME RigTypeOK
  PROVE  ThisReport \in Reports /\ ThisReport.turn = driver.turn /\ ThisReport.run = live.run /\ ThisReport.iter = live.iter + 1
  BY DEF RigTypeOK, ThisReport, Reports, Drivers, Lives

LEMMA EventTyped ==
  ASSUME RigTypeOK, NEW kind \in {"told", "complete"}, NEW iter \in Nat
  PROVE  Event(kind, iter) \in AuditEvents
  BY DEF RigTypeOK, Event, AuditEvents, Drivers, Lives

LEMMA ReadyTyped ==
  ASSUME RigTypeOK
  PROVE  /\ Ready \in Lives /\ Ready.run = live.run /\ Ready.pending = live.pending
         /\ ~live.escalated => Ready.iter = live.iter
  <1>1. Absorbed \in SUBSET Answers
    BY DEF RigTypeOK, Absorbed, Lives, Answers
  <1>2. CASE live.escalated
    <2>1. PICK cycle : cycle = live.cycle + 1
      OBVIOUS
    <2>2. cycle \in Nat
      BY <2>1 DEF RigTypeOK, Lives
    <2>3. Ready = [live EXCEPT !.cycle = cycle, !.iter = 0, !.escalated = FALSE]
      BY <1>2, <2>1 DEF Ready
    <2>. QED
      BY <1>2, <2>2, <2>3 DEF RigTypeOK, Lives
  <1>3. CASE ~live.escalated
    <2>1. Ready = [live EXCEPT !.ledger = Absorbed]
      BY <1>3 DEF Ready
    <2>. QED
      BY <1>1, <2>1 DEF RigTypeOK, Lives
  <1>. QED
    BY <1>2, <1>3

LEMMA AnnouncedTyped ==
  ASSUME RigTypeOK, NEW l \in Lives
  PROVE  Announced(l) \in Lives /\ Announced(l).pending = l.pending
  <1>1. PICK event : event = Event("told", l.iter)
    OBVIOUS
  <1>2. event \in AuditEvents
    BY <1>1, EventTyped DEF Lives
  <1>3. PICK audit, heard : audit = l.audit \cup {event} /\ heard = TRUE
    OBVIOUS
  <1>4. audit \in SUBSET AuditEvents /\ heard \in BOOLEAN
    BY <1>2, <1>3 DEF Lives
  <1>5. Announced(l) = [l EXCEPT !.audit = audit, !.dirty = FALSE, !.escalated = heard]
    BY <1>1, <1>3 DEF Announced
  <1>. QED
    BY <1>4, <1>5 DEF Lives

LEMMA SnapshotsTyped ==
  ASSUME RigTypeOK, NEW l \in Lives
  PROVE  Snapshots(l) \subseteq States
  BY NothingTyped DEF Snapshots, Steady, States, Lives

LEMMA TapedTyped ==
  ASSUME RigTypeOK, NEW l \in Lives
  PROVE  Taped(l) \subseteq Seq(Calls) /\ CallId(l) \in Calls
  <1>1. CallId(l) \in Calls
    BY DEF CallId, Calls, Lives
  <1>2. Append(tape, CallId(l)) \in Seq(Calls)
    BY <1>1 DEF RigTypeOK
  <1>. QED
    BY <1>1, <1>2 DEF RigTypeOK, Taped, Appended

\* What a review may leave in the sink.
Left(d) == {Envelope(d), Lossy(d), Overflow}

LEMMA EnvelopesTyped ==
  ASSUME RigTypeOK, NEW d \in BOOLEAN
  PROVE  Left(d) \subseteq Envelopes /\ \A e \in Left(d) : e.run = live.run /\ e.iter = live.iter + 1
  <1>1. /\ Envelope(d) \in Envelopes /\ Envelope(FALSE) \in Envelopes
        /\ \A e \in {Envelope(d), Envelope(FALSE)} : e.run = live.run /\ e.iter = live.iter + 1
    BY DEF RigTypeOK, Envelope, Envelopes, Lives, ReviewSet
  <1>2. Lossy(d) \in Envelopes /\ Lossy(d).run = live.run /\ Lossy(d).iter = live.iter + 1
    BY <1>1 DEF Lossy, Envelopes
  <1>3. Overflow \in Envelopes /\ Overflow.run = live.run /\ Overflow.iter = live.iter + 1
    BY <1>1, NothingTyped DEF Overflow, Envelopes
  <1>. QED
    BY <1>1, <1>2, <1>3 DEF Left

LEMMA CapturedTyped ==
  ASSUME RigTypeOK, NEW d \in BOOLEAN, NEW s \in Captured(d)
  PROVE  /\ s \subseteq Envelopes /\ s \subseteq sink \cup Left(d) /\ sink \subseteq s
         /\ review.state # NoState => \E e \in Left(d) : e \in s
  BY EnvelopesTyped DEF RigTypeOK, Captured, Left

LEMMA OutcomeTyped ==
  ASSUME RigTypeOK, NEW d \in BOOLEAN
  PROVE  Outcome(d, live.run, live.iter + 1) \in SUBSET Calls
  BY DEF RigTypeOK, Outcome, Calls, Lives

LEMMA ArchiveTyped ==
  ASSUME RigTypeOK
  PROVE  /\ Archive(driver) \in Drivers
         /\ Archive(driver).pc = driver.pc /\ Archive(driver).turn = driver.turn /\ Archive(driver).sink = driver.sink
         /\ Archive(driver).reports \subseteq Reports
         /\ \A r \in Archive(driver).reports :
              r \in driver.reports \/ (r = live.pending /\ r \notin driver.seen \cup {NoReport})
         /\ live.pending \in Archive(driver).seen \cup {NoReport}
  BY DEF RigTypeOK, Archive, Drivers, Lives

LEMMA StatusTyped ==
  ASSUME NEW arts
  PROVE  Status(arts) \in {"complete", "overflow", "missing"}
  BY DEF Status

\* The steps that change only the live repository.
LEMMA LiveTypes ==
  ASSUME RigTypeOK,
         EditCode \/ NewSession \/ EscalateRun \/ BlockStop \/ CompleteReview \/ TimeOutReview \/ WriteReport
  PROVE  RigTypeOK' /\ live'.pending \in {live.pending, NoReport, ThisReport}
  <1>1. UNCHANGED <<driver, sink, tape, manifest, ran>>
    BY DEF EditCode, NewSession, EscalateRun, BlockStop, CompleteReview, TimeOutReview, WriteReport
  <1>2. live' \in Lives /\ live'.pending \in {live.pending, NoReport, ThisReport}
    <2>1. CASE EditCode
      BY <2>1 DEF RigTypeOK, EditCode, Lives
    <2>2. CASE NewSession
      <3>1. PICK run : run = live.run + 1
        OBVIOUS
      <3>2. run \in Nat \ {0} /\ live \in Lives
        BY <3>1 DEF RigTypeOK, Lives
      <3>3. live' = [live EXCEPT !.run = run, !.cycle = 0, !.iter = 0, !.pending = NoReport,
                                 !.dirty = FALSE, !.escalated = FALSE]
        BY <2>2, <3>1 DEF NewSession
      <3>. QED
        BY <3>2, <3>3, NothingTyped DEF Lives
    <2>3. CASE EscalateRun
      BY <2>3, ReadyTyped, AnnouncedTyped DEF EscalateRun
    <2>4. CASE BlockStop
      <3>1. PICK event : event = Event("told", live.iter)
        OBVIOUS
      <3>2. event \in AuditEvents
        BY <3>1, EventTyped DEF RigTypeOK, Lives
      <3>3. live' \in {Ready, [Ready EXCEPT !.audit = @ \cup {event}]}
        BY <2>4, <3>1 DEF BlockStop
      <3>4. \A l \in Lives :
              [l EXCEPT !.audit = @ \cup {event}] \in Lives /\ [l EXCEPT !.audit = @ \cup {event}].pending = l.pending
        BY <3>2 DEF Lives
      <3>. QED
        BY <3>3, <3>4, ReadyTyped
    <2>5. CASE CompleteReview
      <3>1. PICK event : event = Event("complete", live.iter + 1)
        OBVIOUS
      <3>2. event \in AuditEvents
        BY <3>1, EventTyped DEF RigTypeOK, Lives
      <3>3. PICK done : done = [live EXCEPT !.audit = @ \cup {event}]
        OBVIOUS
      <3>4. done \in Lives /\ done.pending = live.pending
        BY <3>2, <3>3 DEF RigTypeOK, Lives
      <3>5. live' \in {done, Announced(done), [done EXCEPT !.iter = @ + 1],
                       [done EXCEPT !.cycle = @ + 1, !.iter = 0, !.dirty = FALSE]}
        BY <2>5, <3>1, <3>3 DEF CompleteReview
      <3>6. PICK cycle, iter : cycle = done.cycle + 1 /\ iter = done.iter + 1
        OBVIOUS
      <3>7. cycle \in Nat /\ iter \in Nat
        BY <3>4, <3>6 DEF Lives
      <3>8. live' \in {done, Announced(done), [done EXCEPT !.iter = iter],
                       [done EXCEPT !.cycle = cycle, !.iter = 0, !.dirty = FALSE]}
        BY <3>5, <3>6
      <3>9. [done EXCEPT !.iter = iter] \in Lives /\ [done EXCEPT !.iter = iter].pending = done.pending
        BY <3>4, <3>7 DEF Lives
      <3>10. /\ [done EXCEPT !.cycle = cycle, !.iter = 0, !.dirty = FALSE] \in Lives
             /\ [done EXCEPT !.cycle = cycle, !.iter = 0, !.dirty = FALSE].pending = done.pending
        BY <3>4, <3>7 DEF Lives
      <3>. QED
        BY <3>4, <3>8, <3>9, <3>10, AnnouncedTyped
    <2>6. CASE WriteReport
      BY <2>6, ThisReportTyped DEF RigTypeOK, WriteReport, Lives
    <2>7. CASE TimeOutReview
      <3>1. PICK aborted : aborted = [live EXCEPT !.pending = NoReport]
        OBVIOUS
      <3>2. aborted \in Lives /\ aborted.pending = NoReport
        BY <3>1, NothingTyped DEF RigTypeOK, Lives
      <3>3. live' \in {aborted, Announced(aborted)}
        BY <2>7, <3>1 DEF TimeOutReview
      <3>. QED
        BY <3>2, <3>3, AnnouncedTyped
    <2>. QED
      BY <2>1, <2>2, <2>3, <2>4, <2>5, <2>6, <2>7
  <1>3. review' \in ReviewSet
    <2>1. CASE EditCode \/ NewSession
      BY <2>1 DEF RigTypeOK, EditCode, NewSession
    <2>2. CASE EscalateRun \/ BlockStop \/ CompleteReview \/ TimeOutReview
      BY <2>2, NothingTyped DEF RigTypeOK, EscalateRun, BlockStop, CompleteReview, TimeOutReview
    <2>3. CASE WriteReport
      BY <2>3 DEF RigTypeOK, WriteReport, ReviewSet
    <2>. QED
      BY <2>1, <2>2, <2>3
  <1>. QED
    BY <1>1, <1>2, <1>3 DEF RigTypeOK

LEMMA ReviewTypes ==
  ASSUME RigTypeOK, BeginReview \/ NobodyAnswers \/ RunPolicy \/ KillReview
  PROVE  RigTypeOK' /\ live'.pending = live.pending
  <1>1. CASE BeginReview
    <2>1. PICK s \in Snapshots(Ready) :
            \/ /\ \E fate \in {"unasked", "outage"} : review' = [pc |-> "judged", state |-> s, fate |-> fate]
               /\ UNCHANGED tape
            \/ review' = [pc |-> "asked", state |-> s, fate |-> "none"] /\ tape' \in Taped(Ready)
      BY <1>1 DEF BeginReview
    <2>2. Ready \in Lives
      BY ReadyTyped
    <2>3. review' \in ReviewSet /\ tape' \in Seq(Calls)
      BY <2>1, <2>2, SnapshotsTyped, TapedTyped DEF RigTypeOK, ReviewSet
    <2>4. live' \in Lives /\ live'.pending = live.pending
      BY <1>1, ReadyTyped DEF BeginReview
    <2>. QED
      BY <1>1, <2>3, <2>4 DEF RigTypeOK, BeginReview
  <1>2. CASE NobodyAnswers
    BY <1>2 DEF RigTypeOK, NobodyAnswers, ReviewSet, Lives
  <1>3. CASE RunPolicy
    <2>1. PICK d \in Demotes :
            /\ live' = [live EXCEPT !.outcomes = @ \cup Outcome(d, live.run, live.iter + 1)]
            /\ sink' \in Captured(d)
      BY <1>3 DEF RunPolicy
    <2>2. d \in BOOLEAN
      BY RigAssumption
    <2>3. live' \in Lives /\ live'.pending = live.pending /\ sink' \subseteq Envelopes
      BY <2>1, <2>2, OutcomeTyped, CapturedTyped DEF RigTypeOK, Lives
    <2>4. review' \in ReviewSet /\ ran' \subseteq Reports
      BY <1>3, ThisReportTyped DEF RigTypeOK, RunPolicy, ReviewSet
    <2>. QED
      BY <1>3, <2>3, <2>4 DEF RigTypeOK, RunPolicy
  <1>4. CASE KillReview
    BY <1>4, NothingTyped DEF RigTypeOK, KillReview, ReviewSet, Lives
  <1>. QED
    BY <1>1, <1>2, <1>3, <1>4

LEMMA LeftoverTyped ==
  ASSUME RigTypeOK
  PROVE  Leftover \in SUBSET Reports /\ live.pending \in Leftover \cup {NoReport}
  BY DEF RigTypeOK, Leftover, Lives

\* What RecordTurn writes down.
TurnRecord ==
    LET new == sink \ driver.sink
        status == Status(new)
    IN  [status |-> status, traces |-> IF status = "overflow" THEN {} ELSE new,
         audit |-> live.audit, reports |-> Archive(driver).reports]

LEMMA RecordTyped ==
  ASSUME RigTypeOK
  PROVE  TurnRecord \in TurnRecords
  <1>. DEFINE new == sink \ driver.sink
  <1>1. Status(new) \in {"complete", "overflow", "missing"}
    BY StatusTyped
  <1>2. new \subseteq Envelopes /\ live.audit \in SUBSET AuditEvents /\ Archive(driver).reports \subseteq Reports
    BY ArchiveTyped DEF RigTypeOK, Lives
  <1>. QED
    BY <1>1, <1>2 DEF TurnRecord, TurnRecords

LEMMA DriverTypes ==
  ASSUME RigTypeOK, StartTurn \/ Poll \/ AgentExits \/ RecordTurn \/ BreakOff
  PROVE  RigTypeOK'
  <1>1. UNCHANGED <<live, review, sink, tape, ran>>
    BY DEF StartTurn, Poll, AgentExits, RecordTurn, BreakOff
  <1>2. driver' \in Drivers
    <2>1. CASE StartTurn
      <3>1. PICK next, left : next = driver.turn + 1 /\ left = Leftover
        OBVIOUS
      <3>2. /\ next \in Nat /\ left \in SUBSET Reports /\ {} \in SUBSET Reports
            /\ live.audit \in SUBSET AuditEvents /\ sink \in SUBSET Envelopes
        BY <3>1, LeftoverTyped DEF RigTypeOK, Drivers, Lives
      <3>3. driver' = [driver EXCEPT !.pc = "agent", !.turn = next, !.audit = live.audit, !.sink = sink,
                                     !.seen = left, !.reports = {}]
        BY <2>1, <3>1 DEF StartTurn
      <3>. QED
        BY <3>2, <3>3 DEF RigTypeOK, Drivers
    <2>2. CASE Poll
      BY <2>2, ArchiveTyped DEF Poll
    <2>3. CASE AgentExits \/ BreakOff
      BY <2>3 DEF RigTypeOK, AgentExits, BreakOff, Drivers
    <2>4. CASE RecordTurn
      <3>1. PICK idle : idle = IF Reviewed THEN 0 ELSE driver.unreviewed + 1
        OBVIOUS
      <3>2. PICK pc : pc = IF idle = 2 \/ driver.turn = Turns THEN "done" ELSE "between"
        OBVIOUS
      <3>3. pc \in {"done", "between"} /\ idle \in Nat
        BY <3>1, <3>2 DEF RigTypeOK, Drivers
      <3>4. driver' = [driver EXCEPT !.pc = pc, !.unreviewed = idle]
        BY <2>4, <3>1, <3>2 DEF RecordTurn
      <3>. QED
        BY <3>3, <3>4 DEF RigTypeOK, Drivers
    <2>. QED
      BY <2>1, <2>2, <2>3, <2>4
  <1>3. CASE RecordTurn
    <2>1. manifest' = [turns |-> Append(manifest.turns, TurnRecord), tape |-> tape,
                       captures |-> manifest.captures]
      BY <1>3 DEF RecordTurn, TurnRecord
    <2>2. manifest'.turns \in Seq(TurnRecords) /\ manifest'.tape \in Seq(Calls) /\ manifest'.captures \in BOOLEAN
      BY <2>1, RecordTyped DEF RigTypeOK
    <2>. QED
      BY <1>1, <1>2, <2>2 DEF RigTypeOK
  <1>4. CASE UNCHANGED manifest
    BY <1>1, <1>2, <1>4 DEF RigTypeOK
  <1>. QED
    BY <1>3, <1>4 DEF StartTurn, Poll, AgentExits, BreakOff

\* The steps after the run.
LEMMA OfflineFrame ==
  ASSUME AlterArtifacts \/ Harvest \/ StartReplay \/ ReplayOne \/ RigRests
  PROVE  UNCHANGED <<driver, live, review, sink, tape, manifest, ran>>
  BY DEF AlterArtifacts, Harvest, StartReplay, ReplayOne, RigRests, rigVars

LEMMA TypeStep ==
  ASSUME RigTypeOK, [RigNext]_rigVars
  PROVE  RigTypeOK'
  <1>1. CASE UNCHANGED <<driver, live, review, sink, tape, manifest, ran>>
    BY <1>1 DEF RigTypeOK
  <1>2. CASE UNCHANGED rigVars
    BY <1>1, <1>2 DEF rigVars
  <1>. QED
    BY <1>1, <1>2, LiveTypes, ReviewTypes, DriverTypes, OfflineFrame DEF RigNext

(***************************************************************************)
(* What the steps do to the driver.                                        *)
(***************************************************************************)

LEMMA StartTurnFields ==
  ASSUME RigTypeOK, StartTurn
  PROVE  /\ driver.pc = "between" /\ driver'.pc = "agent" /\ driver'.turn = driver.turn + 1
         /\ driver'.sink = sink /\ driver'.seen = Leftover /\ driver'.reports = {}
  <1>1. driver' = [driver EXCEPT !.pc = "agent", !.turn = @ + 1, !.audit = live.audit, !.sink = sink,
                                 !.seen = Leftover, !.reports = {}]
    BY DEF StartTurn
  <1>2. driver \in Drivers
    BY DEF RigTypeOK
  <1>3. driver'.pc = "agent" /\ driver'.turn = driver.turn + 1
    BY <1>1, <1>2 DEF Drivers
  <1>4. driver'.sink = sink
    BY <1>1, <1>2 DEF Drivers
  <1>5. driver'.seen = Leftover
    BY <1>1, <1>2 DEF Drivers
  <1>6. driver'.reports = {}
    BY <1>1, <1>2 DEF Drivers
  <1>. QED
    BY <1>3, <1>4, <1>5, <1>6 DEF StartTurn

LEMMA RecordTurnFields ==
  ASSUME RigTypeOK, RecordTurn
  PROVE  /\ driver.pc = "settling" /\ review.pc = "none"
         /\ driver'.pc \in {"done", "between"} /\ driver'.turn = driver.turn
         /\ manifest'.turns = Append(manifest.turns, TurnRecord) /\ manifest'.tape = tape
         /\ manifest'.captures = manifest.captures
         /\ Len(manifest'.turns) = Len(manifest.turns) + 1
         /\ manifest'.turns[Len(manifest.turns) + 1] = TurnRecord
         /\ \A t \in 1 .. Len(manifest.turns) : manifest'.turns[t] = manifest.turns[t]
         /\ UNCHANGED <<live, review, sink, tape, altered, harvested, replay, ran>>
  <1>1. driver.pc = "settling" /\ review.pc = "none" /\ UNCHANGED <<live, review, sink, tape, altered, harvested, replay, ran>>
    BY DEF RecordTurn
  <1>2. manifest' = [turns |-> Append(manifest.turns, TurnRecord), tape |-> tape,
                       captures |-> manifest.captures]
    BY DEF RecordTurn, TurnRecord
  <1>3. driver'.pc \in {"done", "between"} /\ driver'.turn = driver.turn
    BY DEF RigTypeOK, Drivers, RecordTurn
  <1>4. manifest.turns \in Seq(TurnRecords) /\ TurnRecord \in TurnRecords
    BY RecordTyped DEF RigTypeOK
  <1>5. manifest'.turns = Append(manifest.turns, TurnRecord) /\ manifest'.tape = tape /\ manifest'.captures = manifest.captures
    BY <1>2
  <1>. HIDE DEF TurnRecord
  <1>. QED
    BY <1>1, <1>3, <1>4, <1>5

\* The steps of the gate.
GateSteps ==
    \/ EditCode \/ NewSession \/ EscalateRun \/ BlockStop \/ BeginReview \/ NobodyAnswers \/ RunPolicy
    \/ WriteReport \/ CompleteReview \/ TimeOutReview \/ KillReview
OfflineSteps == AlterArtifacts \/ Harvest \/ StartReplay \/ ReplayOne \/ RigRests
DriverSteps == StartTurn \/ Poll \/ AgentExits \/ RecordTurn \/ BreakOff

LEMMA NextSplits == RigNext <=> GateSteps \/ DriverSteps \/ OfflineSteps
  BY DEF RigNext, GateSteps, DriverSteps, OfflineSteps

LEMMA GateFrame ==
  ASSUME RigTypeOK, GateSteps
  PROVE  /\ UNCHANGED <<driver, manifest, altered, harvested, replay>>
         /\ review'.pc # "none" => review.pc # "none" \/ driver.pc = "agent"
  BY DEF GateSteps, EditCode, NewSession, EscalateRun, BlockStop, BeginReview, NobodyAnswers, RunPolicy, WriteReport,
         CompleteReview, TimeOutReview, KillReview, NoReview, StopHook, Reviewing

LEMMA DriverFields ==
  ASSUME RigTypeOK, Poll \/ AgentExits \/ BreakOff
  PROVE  /\ driver'.turn = driver.turn /\ driver'.sink = driver.sink
         /\ driver.pc \in {"agent", "settling"} /\ driver'.pc \in {"agent", "settling", "done"}
         /\ UNCHANGED <<live, review, sink, tape, manifest, altered, harvested, replay, ran>>
  <1>1. CASE Poll
    BY <1>1, ArchiveTyped DEF Poll, InTurn
  <1>2. CASE AgentExits
    BY <1>2 DEF AgentExits, RigTypeOK, Drivers
  <1>3. CASE BreakOff
    BY <1>3 DEF BreakOff, RigTypeOK, Drivers
  <1>. QED
    BY <1>1, <1>2, <1>3

(***************************************************************************)
(* The turns that are written down.                                        *)
(***************************************************************************)

\* A turn is written down at its end, when no gate runs, and what is done is done.
TurnsMatch ==
    /\ InTurn => Len(manifest.turns) + 1 = driver.turn
    /\ driver.pc = "between" => Len(manifest.turns) = driver.turn /\ review.pc = "none"
    /\ driver.pc = "done" /\ review.pc # "none" => Len(manifest.turns) < driver.turn
    /\ harvested.state # "none" => driver.pc = "done"

LEMMA TurnsStep ==
  ASSUME RigTypeOK, TurnsMatch, RigNext
  PROVE  TurnsMatch'
  <1>0. driver.turn \in Nat /\ Len(manifest.turns) \in Nat
    BY DEF RigTypeOK, Drivers
  <1>1. CASE GateSteps
    BY <1>1, GateFrame DEF TurnsMatch, InTurn
  <1>2. CASE StartTurn
    <2>1. /\ driver.pc = "between" /\ driver'.pc = "agent" /\ driver'.turn = driver.turn + 1
          /\ manifest' = manifest /\ harvested' = harvested
      BY <1>2, StartTurnFields DEF StartTurn
    <2>. QED
      BY <1>0, <2>1 DEF TurnsMatch, InTurn
  <1>3. CASE Poll \/ AgentExits \/ BreakOff
    BY <1>0, <1>3, DriverFields DEF TurnsMatch, InTurn
  <1>4. CASE RecordTurn
    BY <1>0, <1>4, RecordTurnFields DEF TurnsMatch, InTurn
  <1>5. CASE OfflineSteps
    <2>1. UNCHANGED <<driver, manifest, review>>
      BY <1>5, OfflineFrame DEF OfflineSteps
    <2>2. harvested' = harvested \/ driver.pc = "done"
      BY <1>5 DEF OfflineSteps, AlterArtifacts, Harvest, StartReplay, ReplayOne, RigRests, rigVars
    <2>. QED
      BY <2>1, <2>2 DEF TurnsMatch, InTurn
  <1>. QED
    BY <1>1, <1>2, <1>3, <1>4, <1>5, NextSplits DEF DriverSteps

(***************************************************************************)
(* The reports.                                                            *)
(***************************************************************************)

ReportsMatch ==
    /\ InTurn => \A r \in driver.reports : r.turn = driver.turn
    /\ InTurn => live.pending \in driver.seen \cup {NoReport} \/ live.pending.turn = driver.turn
    /\ \A t \in 1 .. Len(manifest.turns) : \A r \in manifest.turns[t].reports : r.turn = t
    /\ CountedWhereWritten

LEMMA ReportsStep ==
  ASSUME RigTypeOK, TurnsMatch, ReportsMatch, RigNext
  PROVE  ReportsMatch'
  <1>1. CASE GateSteps
    <2>1. UNCHANGED <<driver, manifest, harvested>>
      BY <1>1, GateFrame
    <2>2. live'.pending \in {live.pending, NoReport, ThisReport}
      BY <1>1, LiveTypes, ReviewTypes DEF GateSteps
    <2>3. ThisReport.turn = driver.turn
      BY ThisReportTyped
    <2>. QED
      BY <2>1, <2>2, <2>3 DEF ReportsMatch, InTurn, CountedWhereWritten
  <1>2. CASE StartTurn
    BY <1>2, StartTurnFields, LeftoverTyped DEF StartTurn, ReportsMatch, InTurn, CountedWhereWritten
  <1>3. CASE Poll
    <2>1. driver' = Archive(driver) /\ UNCHANGED <<live, manifest, harvested>> /\ InTurn
      BY <1>3 DEF Poll
    <2>. QED
      BY <2>1, ArchiveTyped DEF ReportsMatch, InTurn, CountedWhereWritten
  <1>4. CASE AgentExits \/ BreakOff
    <2>1. /\ driver'.turn = driver.turn /\ driver'.reports = driver.reports /\ driver'.seen = driver.seen
          /\ UNCHANGED <<live, manifest, harvested>> /\ InTurn
      BY <1>4 DEF AgentExits, BreakOff, RigTypeOK, Drivers, InTurn
    <2>. QED
      BY <2>1 DEF ReportsMatch, InTurn, CountedWhereWritten
  <1>5. CASE RecordTurn
    <2>1. InTurn /\ Len(manifest.turns) + 1 = driver.turn /\ Len(manifest.turns) \in Nat
      BY <1>5, RecordTurnFields DEF RigTypeOK, TurnsMatch, InTurn
    <2>2. \A r \in TurnRecord.reports : r.turn = driver.turn
      BY <2>1, ArchiveTyped DEF ReportsMatch, TurnRecord
    <2>3. \A t \in 1 .. Len(manifest'.turns) : \A r \in manifest'.turns[t].reports : r.turn = t
      BY <1>5, <2>1, <2>2, RecordTurnFields DEF ReportsMatch
    <2>. QED
      BY <1>5, <2>3, RecordTurnFields DEF ReportsMatch, InTurn, CountedWhereWritten
  <1>6. CASE OfflineSteps
    <2>1. UNCHANGED <<driver, live, manifest>>
      BY <1>6, OfflineFrame DEF OfflineSteps
    <2>2. CASE harvested' = harvested
      BY <2>1, <2>2 DEF ReportsMatch, InTurn, CountedWhereWritten
    <2>3. CASE Harvest
      <3>1. harvested'.counted \in {<<>>, [t \in Recorded |-> CountedIn(t)]}
        BY <2>3 DEF Harvest
      <3>2. \A t \in Recorded : CountedIn(t) \subseteq manifest.turns[t].reports
        BY DEF CountedIn
      <3>3. Recorded = 1 .. Len(manifest.turns)
        BY DEF RigTypeOK, Recorded
      <3>4. CountedWhereWritten'
        BY <3>1, <3>2, <3>3 DEF ReportsMatch, CountedWhereWritten
      <3>. QED
        BY <2>1, <3>4 DEF ReportsMatch, InTurn
    <2>. QED
      BY <1>6, <2>2, <2>3 DEF OfflineSteps, AlterArtifacts, StartReplay, ReplayOne, RigRests, rigVars
  <1>. QED
    BY <1>1, <1>2, <1>3, <1>4, <1>5, <1>6, NextSplits DEF DriverSteps

(***************************************************************************)
(* The calls on the cassette.                                              *)
(***************************************************************************)

IsTaped(call) == \E i \in 1 .. Len(tape) : tape[i] = call
SameRound(a, run, iter) == a.run = run /\ a.iter = iter

\* What is in the sink was asked on the cassette, and a call that is asked only once has
\* no envelope until it is answered.
CallsMatch ==
    /\ Len(manifest.tape) <= Len(tape)
    /\ \A i \in 1 .. Len(manifest.tape) : manifest.tape[i] = tape[i]
    /\ \A a \in sink : IsTaped(<<a.run, a.iter>>)
    /\ review.pc = "asked" =>
         /\ IsTaped(CallId(live)) /\ (manifest.captures => review.state # NoState)
         /\ IsInjective(tape) => \A a \in sink : ~SameRound(a, live.run, live.iter + 1)

LEMMA TapeGrows ==
  ASSUME RigTypeOK, NEW call \in Calls, tape' = Append(tape, call)
  PROVE  /\ Len(tape') = Len(tape) + 1 /\ tape'[Len(tape) + 1] = call
         /\ \A i \in 1 .. Len(tape) : tape'[i] = tape[i]
         /\ \A c : IsTaped(c) => IsTaped(c)'
         /\ IsTaped(call)'
         /\ IsInjective(tape') => IsInjective(tape) /\ ~IsTaped(call)
  <1>1. tape \in Seq(Calls) /\ Len(tape) \in Nat /\ DOMAIN tape = 1 .. Len(tape)
    BY DEF RigTypeOK
  <1>2. /\ Len(tape') = Len(tape) + 1 /\ tape'[Len(tape) + 1] = call
        /\ \A i \in 1 .. Len(tape) : tape'[i] = tape[i]
        /\ DOMAIN tape' = 1 .. Len(tape) + 1
    BY <1>1
  <1>3. /\ \A c : IsTaped(c) => IsTaped(c)'
        /\ IsTaped(call)'
    BY <1>1, <1>2 DEF IsTaped
  <1>4. IsInjective(tape') => IsInjective(tape) /\ ~IsTaped(call)
    BY <1>1, <1>2 DEF IsInjective, IsTaped
  <1>. QED
    BY <1>2, <1>3, <1>4

LEMMA PrefixInjective ==
  ASSUME RigTypeOK, CallsMatch, IsInjective(tape)
  PROVE  IsInjective(manifest.tape)
  <1>1. /\ DOMAIN tape = 1 .. Len(tape) /\ DOMAIN manifest.tape = 1 .. Len(manifest.tape)
        /\ Len(tape) \in Nat /\ Len(manifest.tape) \in Nat
    BY DEF RigTypeOK
  <1>. QED
    BY <1>1 DEF CallsMatch, IsInjective

\* Envelopes get lost only when they are too large or not whole: no tree moves while it
\* is read, and the cassette is the recorder's.
OnlyTold == CaptureFails \subseteq {"overflow", "lossy"}

LEMMA SnapshotTaken ==
  ASSUME OnlyTold, NEW l \in Lives
  PROVE  /\ manifest.captures => \A s \in Snapshots(l) : s # NoState
         /\ Taped(l) = {Append(tape, CallId(l))}
  BY DEF OnlyTold, Snapshots, Steady, Taped, Appended, NoState, Lives

\* The steps of the gate that begin no review and end no policy.
LEMMA OtherGateSteps ==
  ASSUME RigTypeOK, GateSteps, ~BeginReview, ~RunPolicy
  PROVE  /\ UNCHANGED <<sink, tape, ran>>
         /\ review'.pc = "asked" =>
              /\ review'.state = review.state /\ review.pc = "asked"
              /\ live'.run = live.run /\ live'.iter = live.iter
  <1>1. CASE EditCode
    BY <1>1 DEF EditCode, RigTypeOK, Lives
  <1>2. CASE NewSession
    BY <1>2 DEF NewSession, Reviewing
  <1>3. CASE EscalateRun \/ BlockStop \/ CompleteReview \/ TimeOutReview \/ KillReview
    BY <1>3 DEF EscalateRun, BlockStop, CompleteReview, TimeOutReview, KillReview, NoReview
  <1>4. CASE NobodyAnswers \/ WriteReport
    BY <1>4 DEF NobodyAnswers, WriteReport, RigTypeOK, ReviewSet
  <1>. QED
    BY <1>1, <1>2, <1>3, <1>4 DEF GateSteps

LEMMA BeginFields ==
  ASSUME RigTypeOK, OnlyTold, BeginReview
  PROVE  /\ UNCHANGED <<sink, ran>> /\ live' \in Lives
         /\ tape' = tape \/ tape' = Append(tape, CallId(live'))
         /\ review'.pc = "asked" =>
              /\ manifest.captures => review'.state # NoState
              /\ tape' = Append(tape, CallId(live'))
  <1>1. PICK s \in Snapshots(Ready) :
          \/ /\ \E fate \in {"unasked", "outage"} : review' = [pc |-> "judged", state |-> s, fate |-> fate]
             /\ UNCHANGED tape
          \/ review' = [pc |-> "asked", state |-> s, fate |-> "none"] /\ tape' \in Taped(Ready)
    BY DEF BeginReview
  <1>2. live' = Ready /\ Ready \in Lives /\ UNCHANGED <<sink, ran>>
    BY ReadyTyped DEF BeginReview
  <1>. QED
    BY <1>1, <1>2, SnapshotTaken

LEMMA PolicyFields ==
  ASSUME RigTypeOK, RunPolicy
  PROVE  /\ review.pc = "asked" /\ review'.pc = "judged" /\ UNCHANGED tape
         /\ live'.run = live.run /\ live'.iter = live.iter
         /\ ran' = ran \cup {ThisReport}
         /\ \E d \in BOOLEAN : sink' \in Captured(d)
  BY RigAssumption DEF RunPolicy, RigTypeOK, Lives, ReviewSet

LEMMA CallsStep ==
  ASSUME OnlyTold, RigTypeOK, CallsMatch, RigNext
  PROVE  CallsMatch'
  <1>0. Len(tape) \in Nat /\ Len(manifest.tape) \in Nat
    BY DEF RigTypeOK
  <1>1. CASE BeginReview
    <2>1. manifest' = manifest
      BY <1>1, GateFrame DEF GateSteps
    <2>2. CASE tape' = tape /\ review'.pc # "asked"
      BY <1>1, <2>1, <2>2, BeginFields DEF CallsMatch, IsTaped
    <2>3. CASE tape' = Append(tape, CallId(live'))
      <3>1. CallId(live') \in Calls /\ CallId(live') = <<live'.run, live'.iter + 1>>
        BY <1>1, TapedTyped, BeginFields DEF CallId
      <3>2. PICK call \in Calls : call = CallId(live')
        BY <3>1
      <3>3. /\ Len(manifest'.tape) <= Len(tape')
            /\ \A i \in 1 .. Len(manifest'.tape) : manifest'.tape[i] = tape'[i]
        BY <1>0, <2>1, <2>3, <3>2, TapeGrows DEF CallsMatch
      <3>4. \A a \in sink' : IsTaped(<<a.run, a.iter>>)'
        BY <1>1, <2>3, <3>2, BeginFields, TapeGrows DEF CallsMatch
      <3>5. ASSUME review'.pc = "asked"
            PROVE  /\ IsTaped(CallId(live))' /\ (manifest'.captures => review'.state # NoState)
                   /\ IsInjective(tape') => \A a \in sink' : ~SameRound(a, live'.run, live'.iter + 1)
        <4>1. IsTaped(call)' /\ (IsInjective(tape') => ~IsTaped(call))
          BY <2>3, <3>2, TapeGrows
        <4>2. IsTaped(CallId(live))'
          BY <3>2, <4>1 DEF IsTaped
        <4>3. IsInjective(tape') => \A a \in sink : ~SameRound(a, live'.run, live'.iter + 1)
          BY <3>1, <3>2, <4>1 DEF CallsMatch, SameRound
        <4>. QED
          BY <1>1, <2>1, <3>5, <4>2, <4>3, BeginFields
      <3>. QED
        BY <3>3, <3>4, <3>5 DEF CallsMatch
    <2>. QED
      BY <1>1, <2>2, <2>3, BeginFields
  <1>2. CASE RunPolicy
    <2>1. PICK d \in BOOLEAN : sink' \in Captured(d)
      BY <1>2, PolicyFields
    <2>2. \A a \in sink' : a \in sink \/ SameRound(a, live.run, live.iter + 1)
      BY <2>1, CapturedTyped, EnvelopesTyped DEF SameRound, Left
    <2>3. \A a \in sink' : IsTaped(<<a.run, a.iter>>)
      BY <1>2, <2>2, PolicyFields DEF CallsMatch, CallId, SameRound
    <2>4. manifest' = manifest
      BY <1>2, GateFrame DEF GateSteps
    <2>. QED
      BY <1>2, <2>3, <2>4, PolicyFields DEF CallsMatch, IsTaped
  <1>3. CASE GateSteps /\ ~BeginReview /\ ~RunPolicy
    <2>1. manifest' = manifest
      BY <1>3, GateFrame
    <2>. QED
      BY <1>3, <2>1, OtherGateSteps DEF CallsMatch, IsTaped, CallId
  <1>4. CASE RecordTurn
    <2>1. UNCHANGED <<sink, tape>> /\ manifest'.tape = tape /\ review'.pc = "none"
      BY <1>4, RecordTurnFields
    <2>2. \A c : IsTaped(c)' <=> IsTaped(c)
      BY <2>1 DEF IsTaped
    <2>3. \A a \in sink' : IsTaped(<<a.run, a.iter>>)'
      BY <2>1, <2>2 DEF CallsMatch
    <2>. QED
      BY <1>0, <2>1, <2>3 DEF CallsMatch
  <1>5. CASE StartTurn
    BY <1>5 DEF StartTurn, CallsMatch, IsTaped, CallId
  <1>6. CASE Poll \/ AgentExits \/ BreakOff
    BY <1>6, DriverFields DEF CallsMatch, IsTaped, CallId
  <1>7. CASE OfflineSteps
    BY <1>7, OfflineFrame DEF OfflineSteps, CallsMatch, IsTaped, CallId
  <1>. QED
    BY <1>1, <1>2, <1>3, <1>4, <1>5, <1>6, <1>7, NextSplits DEF DriverSteps

(***************************************************************************)
(* The envelopes.                                                          *)
(***************************************************************************)

\* Told: the record of a turn holds the envelope of a review, or says it was too large.
ToldIn(record, r) ==
    record.status = "overflow" \/ \E a \in record.traces : SameRound(a, r.run, r.iter)

\* Every policy that ran left something in the sink, in its turn; then in its record.
EnvelopesMatch ==
    /\ driver.sink \subseteq sink
    /\ \A r \in ran : r.turn <= driver.turn
    /\ manifest.captures /\ InTurn /\ IsInjective(tape) =>
         \A r \in ran : r.turn = driver.turn => \E a \in sink \ driver.sink : SameRound(a, r.run, r.iter)
    /\ manifest.captures /\ IsInjective(manifest.tape) =>
         \A r \in ran : r.turn \in 1 .. Len(manifest.turns) => ToldIn(manifest.turns[r.turn], r)

LEMMA RecordTells ==
  ASSUME NEW r, NEW a \in sink \ driver.sink, SameRound(a, r.run, r.iter)
  PROVE  ToldIn(TurnRecord, r)
  BY DEF ToldIn, TurnRecord

LEMMA EnvelopesStep ==
  ASSUME OnlyTold, RigTypeOK, TurnsMatch, CallsMatch, EnvelopesMatch, RigNext
  PROVE  EnvelopesMatch'
  <1>0. /\ driver.turn \in Nat /\ Len(manifest.turns) \in Nat
        /\ \A r \in ran : r.turn \in Nat
        /\ driver.pc \in {"between", "agent", "settling", "done"}
    BY DEF RigTypeOK, Drivers, Reports
  <1>1. CASE BeginReview
    <2>1. UNCHANGED <<driver, manifest, sink, ran>>
      BY <1>1, GateFrame, BeginFields DEF GateSteps
    <2>2. IsInjective(tape') => IsInjective(tape)
      BY <1>1, BeginFields, TapedTyped, TapeGrows
    <2>. QED
      BY <2>1, <2>2 DEF EnvelopesMatch, InTurn, ToldIn
  <1>2. CASE RunPolicy
    <2>1. PICK d \in BOOLEAN : sink' \in Captured(d)
      BY <1>2, PolicyFields
    <2>2. UNCHANGED <<driver, manifest>> /\ tape' = tape /\ review.pc = "asked" /\ ran' = ran \cup {ThisReport}
      BY <1>2, GateFrame, PolicyFields DEF GateSteps
    <2>3. sink \subseteq sink'
      BY <2>1, CapturedTyped
    <2>4. manifest.captures /\ IsInjective(tape) => \E a \in sink' \ driver.sink : SameRound(a, live.run, live.iter + 1)
      <3>1. (manifest.captures => review.state # NoState) /\ (IsInjective(tape) => \A a \in sink : ~SameRound(a, live.run, live.iter + 1))
        BY <2>2 DEF CallsMatch
      <3>2. \A e \in Left(d) : SameRound(e, live.run, live.iter + 1)
        BY EnvelopesTyped DEF SameRound
      <3>3. manifest.captures => \E e \in Left(d) : e \in sink'
        BY <2>1, <3>1, CapturedTyped
      <3>. QED
        BY <3>1, <3>2, <3>3 DEF EnvelopesMatch
    <2>5. ThisReport.turn = driver.turn /\ ThisReport.run = live.run /\ ThisReport.iter = live.iter + 1
      BY ThisReportTyped
    <2>6. driver.turn \notin 1 .. Len(manifest.turns)
      BY <1>0, <2>2 DEF TurnsMatch, InTurn
    <2>7. (driver.sink \subseteq sink)' /\ \A r \in ran' : r.turn <= driver'.turn
      BY <1>0, <2>2, <2>3, <2>5 DEF EnvelopesMatch
    <2>8. ASSUME manifest.captures, InTurn, IsInjective(tape), NEW r \in ran', r.turn = driver.turn
          PROVE  \E a \in sink' \ driver.sink : SameRound(a, r.run, r.iter)
      BY <2>2, <2>3, <2>4, <2>5, <2>8 DEF EnvelopesMatch
    <2>9. ASSUME manifest.captures, IsInjective(manifest.tape), NEW r \in ran', r.turn \in 1 .. Len(manifest.turns)
          PROVE  ToldIn(manifest.turns[r.turn], r)
      BY <2>2, <2>5, <2>6, <2>9 DEF EnvelopesMatch
    <2>. QED
      BY <2>2, <2>7, <2>8, <2>9 DEF EnvelopesMatch, InTurn
  <1>3. CASE GateSteps /\ ~BeginReview /\ ~RunPolicy
    <2>1. UNCHANGED <<driver, manifest, sink, tape, ran>>
      BY <1>3, GateFrame, OtherGateSteps
    <2>. QED
      BY <2>1 DEF EnvelopesMatch, InTurn
  <1>4. CASE RecordTurn
    <2>1. /\ UNCHANGED <<sink, tape, ran>> /\ manifest'.tape = tape /\ manifest'.captures = manifest.captures
          /\ driver'.pc \in {"done", "between"}
          /\ driver'.turn = driver.turn /\ Len(manifest'.turns) = Len(manifest.turns) + 1
          /\ manifest'.turns[Len(manifest.turns) + 1] = TurnRecord
          /\ \A t \in 1 .. Len(manifest.turns) : manifest'.turns[t] = manifest.turns[t]
      BY <1>4, RecordTurnFields
    <2>2. driver'.sink = driver.sink
      BY <1>4 DEF RecordTurn, RigTypeOK, Drivers
    <2>3. InTurn /\ Len(manifest.turns) + 1 = driver.turn
      BY <1>4, RecordTurnFields DEF TurnsMatch, InTurn
    <2>4. ASSUME manifest.captures, IsInjective(tape), NEW r \in ran, r.turn \in 1 .. Len(manifest.turns) + 1
          PROVE  ToldIn(manifest'.turns[r.turn], r)
      <3>1. CASE r.turn = driver.turn
        <4>1. PICK a \in sink \ driver.sink : SameRound(a, r.run, r.iter)
          BY <2>3, <2>4, <3>1 DEF EnvelopesMatch
        <4>2. ToldIn(TurnRecord, r)
          BY <4>1, RecordTells
        <4>. QED
          BY <2>1, <2>3, <3>1, <4>2
      <3>2. CASE r.turn \in 1 .. Len(manifest.turns)
        BY <2>1, <2>4, <3>2, PrefixInjective DEF EnvelopesMatch
      <3>. QED
        BY <1>0, <2>3, <2>4, <3>1, <3>2
    <2>. QED
      BY <2>1, <2>2, <2>4 DEF EnvelopesMatch, InTurn
  <1>5. CASE StartTurn
    <2>1. driver'.turn = driver.turn + 1 /\ driver'.sink = sink /\ UNCHANGED <<sink, tape, manifest, ran>>
      BY <1>5, StartTurnFields DEF StartTurn
    <2>. QED
      BY <1>0, <2>1 DEF EnvelopesMatch
  <1>6. CASE Poll \/ AgentExits \/ BreakOff
    <2>1. InTurn
      BY <1>6, DriverFields DEF InTurn
    <2>. QED
      BY <1>6, <2>1, DriverFields DEF EnvelopesMatch
  <1>7. CASE OfflineSteps
    BY <1>7, OfflineFrame DEF OfflineSteps, EnvelopesMatch, InTurn
  <1>. QED
    BY <1>1, <1>2, <1>3, <1>4, <1>5, <1>6, <1>7, NextSplits DEF DriverSteps

(***************************************************************************)
(* The harvest.                                                            *)
(***************************************************************************)

\* What is exact was whole: no call twice on the cassette, an envelope of every turn.
HarvestHonest ==
    harvested.state = "exact" =>
        /\ driver.pc = "done" /\ IsInjective(manifest.tape) /\ manifest.captures
        /\ \A t \in 1 .. Len(manifest.turns) : manifest.turns[t].status = "complete"

LEMMA HarvestStep ==
  ASSUME RigTypeOK, HarvestHonest, RigNext
  PROVE  HarvestHonest'
  <1>0. Recorded = 1 .. Len(manifest.turns)
    BY DEF RigTypeOK, Recorded
  <1>1. CASE GateSteps
    BY <1>1, GateFrame DEF HarvestHonest
  <1>2. CASE DriverSteps
    BY <1>2 DEF DriverSteps, StartTurn, Poll, InTurn, AgentExits, RecordTurn, BreakOff, HarvestHonest
  <1>3. CASE OfflineSteps
    <2>1. UNCHANGED <<driver, manifest>>
      BY <1>3, OfflineFrame DEF OfflineSteps
    <2>2. CASE harvested' = harvested
      BY <2>1, <2>2 DEF HarvestHonest
    <2>3. CASE Harvest
      <3>1. harvested'.state = "exact" => Valid /\ manifest.captures /\ driver.pc = "done"
        BY <2>3 DEF Harvest
      <3>. QED
        BY <1>0, <2>1, <3>1 DEF HarvestHonest, Valid, TapeReads
    <2>. QED
      BY <1>3, <2>2, <2>3 DEF OfflineSteps, AlterArtifacts, StartReplay, ReplayOne, RigRests, rigVars
  <1>. QED
    BY <1>1, <1>2, <1>3, NextSplits

(***************************************************************************)
(* The replay.                                                             *)
(***************************************************************************)

IsBranch(b) == DOMAIN b = {"ledger", "outcomes", "owned", "wrote"}

\* A branch reads what was captured until it has written for itself.
BranchesHonest ==
    /\ replay.pc # "none" => harvested.state = "exact"
    /\ DOMAIN replay = {"pc", "at", "branch"} /\ DOMAIN replay.branch = Sides /\ replay.at \in Nat
    /\ replay.pc = "none" => replay.at = 0
    /\ \A b \in Sides : IsBranch(replay.branch[b])
    /\ replay.pc = "running" /\ replay.at = 0 =>
         \A b \in Sides : replay.branch[b].outcomes = Items[1].state.outcomes /\ replay.branch[b].wrote = {}
    /\ replay.at > 0 => \A b \in Sides : "outcomes" \in replay.branch[b].owned
    /\ BranchesAreTheirOwn

LEMMA PreparedKeeps ==
  ASSUME NEW e
  PROVE  IsBranch(Prepared(e)) /\ Prepared(e).outcomes = e.state.outcomes /\ Prepared(e).wrote = {}
  BY DEF IsBranch, Prepared, NoBranch

LEMMA AdvancedKeeps ==
  ASSUME NEW b, NEW e, IsBranch(b), "outcomes" \in b.owned
  PROVE  /\ IsBranch(Advanced(b, e)) /\ Advanced(b, e).outcomes = b.outcomes
         /\ Advanced(b, e).wrote = b.wrote
  BY DEF IsBranch, Advanced

LEMMA LearnedKeeps ==
  ASSUME NEW b, NEW e, NEW redates, IsBranch(b)
  PROVE  /\ IsBranch(Learned(b, e, redates)) /\ Learned(b, e, redates).outcomes = b.outcomes
         /\ Learned(b, e, redates).wrote = b.wrote
  BY DEF IsBranch, Learned

LEMMA PersistedKeeps ==
  ASSUME NEW b, NEW e, NEW d, IsBranch(b)
  PROVE  /\ IsBranch(Persisted(b, e, d)) /\ "outcomes" \in Persisted(b, e, d).owned
         /\ Persisted(b, e, d).outcomes = b.outcomes \cup Outcome(d, e.run, e.iter)
         /\ Persisted(b, e, d).wrote = b.wrote \cup Outcome(d, e.run, e.iter)
  BY DEF IsBranch, Persisted

LEMMA BranchesStep ==
  ASSUME RigTypeOK, HarvestHonest, BranchesHonest, RigNext
  PROVE  BranchesHonest'
  <1>1. CASE UNCHANGED <<manifest, harvested, replay>>
    <2>1. Items' = Items
      BY <1>1 DEF Items, Recorded
    <2>. QED
      BY <1>1, <2>1 DEF BranchesHonest, BranchesAreTheirOwn
  <1>2. CASE GateSteps
    BY <1>1, <1>2, GateFrame
  <1>3. CASE DriverSteps
    <2>1. UNCHANGED <<harvested, replay>>
      BY <1>3 DEF DriverSteps, StartTurn, Poll, AgentExits, RecordTurn, BreakOff
    <2>2. driver.pc # "done"
      BY <1>3 DEF DriverSteps, StartTurn, Poll, InTurn, AgentExits, RecordTurn, BreakOff
    <2>3. replay.pc = "none" /\ replay.at = 0
      BY <2>2 DEF HarvestHonest, BranchesHonest
    <2>. QED
      BY <2>1, <2>3 DEF BranchesHonest, BranchesAreTheirOwn
  <1>4. CASE AlterArtifacts \/ RigRests
    BY <1>1, <1>4 DEF AlterArtifacts, RigRests, rigVars
  <1>5. CASE Harvest
    <2>1. replay.pc = "none" /\ replay' = replay
      BY <1>5 DEF Harvest, BranchesHonest
    <2>. QED
      BY <2>1 DEF BranchesHonest, BranchesAreTheirOwn
  <1>6. CASE StartReplay
    <2>0. Items' = Items /\ harvested' = harvested /\ harvested.state = "exact" /\ replay.pc = "none" /\ replay.at = 0
      BY <1>6 DEF StartReplay, Items, Recorded, BranchesHonest
    <2>1. CASE replay' = [pc |-> "running", at |-> 0, branch |-> [b \in Sides |-> Prepared(Items[1])]]
      <3>1. PICK first : first = Items[1]
        OBVIOUS
      <3>2. \A b \in Sides : replay'.branch[b] = Prepared(first)
        BY <2>1, <3>1
      <3>3. \A b \in Sides :
              IsBranch(replay'.branch[b]) /\ replay'.branch[b].outcomes = first.state.outcomes /\ replay'.branch[b].wrote = {}
        BY <3>2, PreparedKeeps
      <3>4. /\ replay'.pc = "running" /\ replay'.at = 0 /\ DOMAIN replay' = {"pc", "at", "branch"}
            /\ DOMAIN replay'.branch = Sides
        BY <2>1
      <3>. QED
        BY <2>0, <3>1, <3>3, <3>4 DEF BranchesHonest, BranchesAreTheirOwn
    <2>2. CASE replay' = [replay EXCEPT !.pc = "refused"]
      BY <2>0, <2>2 DEF BranchesHonest, BranchesAreTheirOwn
    <2>. QED
      BY <1>6, <2>1, <2>2 DEF StartReplay
  <1>7. CASE ReplayOne
    <2>0. /\ Items' = Items /\ harvested' = harvested /\ harvested.state = "exact"
          /\ replay.pc = "running" /\ replay.at \in Nat
      BY <1>7 DEF ReplayOne, Items, Recorded, BranchesHonest
    <2>1. PICK redates \in BOOLEAN :
            LET e == Items[replay.at + 1]
                ready == [b \in Sides |-> IF replay.at = 0 THEN replay.branch[b]
                                          ELSE Learned(Advanced(replay.branch[b], e), e, redates)]
            IN  IF (replay.at > 0 => StatesRead) /\ \A b \in Sides : SameHistory(ready[b], e)
                THEN \E next \in Replayed(ready, e) : replay' = [replay EXCEPT !.at = @ + 1, !.branch = next]
                ELSE replay' = [replay EXCEPT !.pc = "refused"]
      BY <1>7 DEF ReplayOne
    <2>2. PICK e : e = Items[replay.at + 1]
      OBVIOUS
    <2>3. PICK ready : ready = [b \in Sides |-> IF replay.at = 0 THEN replay.branch[b]
                                                ELSE Learned(Advanced(replay.branch[b], e), e, redates)]
      OBVIOUS
    <2>4. \/ \E next \in Replayed(ready, e) : replay' = [replay EXCEPT !.at = @ + 1, !.branch = next]
          \/ replay' = [replay EXCEPT !.pc = "refused"]
      BY <2>1, <2>2, <2>3
    <2>5. CASE replay' = [replay EXCEPT !.pc = "refused"]
      BY <2>0, <2>5 DEF BranchesHonest, BranchesAreTheirOwn
    <2>6. CASE \E next \in Replayed(ready, e) : replay' = [replay EXCEPT !.at = @ + 1, !.branch = next]
      <3>1. PICK first : first = Items[1].state.outcomes
        OBVIOUS
      <3>2. \A b \in Sides :
              /\ IsBranch(replay.branch[b]) /\ replay.branch[b].outcomes = first \cup replay.branch[b].wrote
              /\ replay.at > 0 => "outcomes" \in replay.branch[b].owned
        BY <2>0, <3>1 DEF BranchesHonest, BranchesAreTheirOwn
      <3>3. \A b \in Sides : IsBranch(ready[b]) /\ ready[b].outcomes = first \cup ready[b].wrote
        <4>1. CASE replay.at = 0
          BY <2>3, <3>2, <4>1
        <4>2. CASE replay.at > 0
          <5>1. SUFFICES ASSUME NEW b \in Sides
                         PROVE  IsBranch(ready[b]) /\ ready[b].outcomes = first \cup ready[b].wrote
            OBVIOUS
          <5>2. ready[b] = Learned(Advanced(replay.branch[b], e), e, redates)
            BY <2>3, <4>2
          <5>3. PICK adv : adv = Advanced(replay.branch[b], e)
            OBVIOUS
          <5>4. IsBranch(adv) /\ adv.outcomes = first \cup adv.wrote
            BY <3>2, <4>2, <5>3, AdvancedKeeps
          <5>. QED
            BY <5>2, <5>3, <5>4, LearnedKeeps
        <4>. QED
          BY <2>0, <4>1, <4>2
      <3>4. PICK next \in Replayed(ready, e) : replay' = [replay EXCEPT !.at = @ + 1, !.branch = next]
        BY <2>6
      <3>5. PICK decided : next = [b \in Sides |-> Persisted(ready[b], e, decided[b])]
        BY <3>4 DEF Replayed
      <3>6. \A b \in Sides :
              /\ IsBranch(next[b]) /\ "outcomes" \in next[b].owned
              /\ next[b].outcomes = first \cup next[b].wrote
        <4>1. SUFFICES ASSUME NEW b \in Sides
                       PROVE  /\ IsBranch(next[b]) /\ "outcomes" \in next[b].owned
                              /\ next[b].outcomes = first \cup next[b].wrote
          OBVIOUS
        <4>2. PICK from, d : from = ready[b] /\ d = decided[b]
          OBVIOUS
        <4>3. next[b] = Persisted(from, e, d) /\ IsBranch(from) /\ from.outcomes = first \cup from.wrote
          BY <3>3, <3>5, <4>2
        <4>. QED
          BY <4>3, PersistedKeeps
      <3>7. DOMAIN next = Sides
        BY <3>5
      <3>8. /\ replay'.branch = next /\ replay'.at = replay.at + 1 /\ replay'.pc = "running"
            /\ DOMAIN replay' = {"pc", "at", "branch"}
        BY <2>0, <3>4 DEF BranchesHonest
      <3>. QED
        BY <2>0, <3>1, <3>6, <3>7, <3>8 DEF BranchesHonest, BranchesAreTheirOwn
    <2>. QED
      BY <2>4, <2>5, <2>6
  <1>. QED
    BY <1>2, <1>3, <1>4, <1>5, <1>6, <1>7, NextSplits DEF OfflineSteps

(***************************************************************************)
(* The theorems.                                                           *)
(***************************************************************************)

RigInv == RigTypeOK /\ TurnsMatch /\ ReportsMatch /\ HarvestHonest /\ BranchesHonest
WholeInv == CallsMatch /\ EnvelopesMatch

LEMMA RigStart ==
  ASSUME RigInit
  PROVE  RigInv /\ WholeInv
  <1>0. /\ driver.pc = "between" /\ driver.turn = 0 /\ review = NoReview /\ sink = {} /\ tape = <<>> /\ ran = {}
        /\ manifest.turns = <<>> /\ manifest.tape = <<>> /\ manifest.captures \in BOOLEAN
        /\ harvested.state = "none" /\ harvested.counted = <<>>
        /\ driver.sink = {} /\ driver.seen = {} /\ driver.reports = {}
    BY DEF RigInit
  <1>1. RigTypeOK
    <2>1. driver \in Drivers
      BY DEF RigInit, Drivers
    <2>2. live \in Lives
      BY NothingTyped DEF RigInit, Lives
    <2>. QED
      BY <1>0, <2>1, <2>2, NothingTyped DEF RigTypeOK
  <1>2. TurnsMatch
    BY <1>0, NothingTyped DEF TurnsMatch, InTurn
  <1>3. ReportsMatch
    BY <1>0 DEF ReportsMatch, InTurn, CountedWhereWritten
  <1>4. HarvestHonest
    BY <1>0 DEF HarvestHonest
  <1>5. BranchesHonest
    <2>1. replay = [pc |-> "none", at |-> 0, branch |-> [b \in Sides |-> NoBranch]]
      BY DEF RigInit
    <2>2. \A b \in Sides : IsBranch(replay.branch[b])
      BY <2>1 DEF IsBranch, NoBranch
    <2>3. /\ replay.pc = "none" /\ replay.at = 0 /\ DOMAIN replay = {"pc", "at", "branch"} /\ DOMAIN replay.branch = Sides
      BY <2>1
    <2>. QED
      BY <2>2, <2>3 DEF BranchesHonest, BranchesAreTheirOwn
  <1>6. WholeInv
    BY <1>0, NothingTyped DEF WholeInv, CallsMatch, EnvelopesMatch, InTurn
  <1>. QED
    BY <1>1, <1>2, <1>3, <1>4, <1>5, <1>6 DEF RigInv

LEMMA RigStep ==
  ASSUME RigInv, [RigNext]_rigVars
  PROVE  RigInv'
  <1>1. CASE RigNext
    BY <1>1, TypeStep, TurnsStep, ReportsStep, HarvestStep, BranchesStep DEF RigInv
  <1>2. CASE UNCHANGED rigVars
    <2>1. Items' = Items
      BY <1>2 DEF rigVars, Items, Recorded
    <2>. QED
      BY <1>2, <2>1 DEF rigVars, RigInv, RigTypeOK, TurnsMatch, InTurn, ReportsMatch, CountedWhereWritten, HarvestHonest,
                        BranchesHonest, BranchesAreTheirOwn
  <1>. QED
    BY <1>1, <1>2

LEMMA WholeStep ==
  ASSUME OnlyTold, RigInv, WholeInv, [RigNext]_rigVars
  PROVE  WholeInv'
  <1>1. CASE RigNext
    BY <1>1, CallsStep, EnvelopesStep DEF RigInv, WholeInv
  <1>2. CASE UNCHANGED rigVars
    BY <1>2 DEF rigVars, WholeInv, CallsMatch, IsTaped, CallId, EnvelopesMatch, InTurn
  <1>. QED
    BY <1>1, <1>2

\* The state of the driver, the repository, the gate, the sink, the cassette and the
\* manifest keeps its shape (src/rig/driver.ts, the record of a turn).
THEOREM RigTypes == RigSpec => []RigTypeOK
  <1>1. RigInit => RigInv
    BY RigStart
  <1>2. RigInv /\ [RigNext]_rigVars => RigInv'
    BY RigStep
  <1>3. RigInv => RigTypeOK
    BY DEF RigInv
  <1>. QED
    BY <1>1, <1>2, <1>3, PTL DEF RigSpec

\* A report is counted in the turn whose gate wrote it: what lies in the repository when
\* a turn begins is known before the agent starts (startReportArchiver's seed).
THEOREM CountedInItsTurn == RigSpec => []CountedWhereWritten
  <1>1. RigInit => RigInv
    BY RigStart
  <1>2. RigInv /\ [RigNext]_rigVars => RigInv'
    BY RigStep
  <1>3. RigInv => CountedWhereWritten
    BY DEF RigInv, ReportsMatch
  <1>. QED
    BY <1>1, <1>2, <1>3, PTL DEF RigSpec

\* A branch of the replay holds the state the replay began with and what it booked
\* itself (advanceReplayBranches, persistBranchPolicyOutcomes).
THEOREM BranchesKeepApart == RigSpec => []BranchesAreTheirOwn
  <1>1. RigInit => RigInv
    BY RigStart
  <1>2. RigInv /\ [RigNext]_rigVars => RigInv'
    BY RigStep
  <1>3. RigInv => BranchesAreTheirOwn
    BY DEF RigInv, BranchesHonest
  <1>. QED
    BY <1>1, <1>2, <1>3, PTL DEF RigSpec

\* When envelopes get lost only because they are too large or not whole, a result that says
\* it is exact holds one of every review whose policy ran in a recorded turn: the cassette
\* names every call that was asked, so a review asked again after a kill is seen there
\* (harvestRun).
THEOREM ExactMeansComplete ==
  ASSUME OnlyTold
  PROVE  RigSpec => []ExactIsComplete
  <1>1. RigInit => RigInv /\ WholeInv
    BY RigStart
  <1>2. RigInv /\ WholeInv /\ [RigNext]_rigVars => (RigInv /\ WholeInv)'
    BY RigStep, WholeStep
  <1>3. RigInv /\ WholeInv => ExactIsComplete
    <2>1. SUFFICES ASSUME RigInv, WholeInv, harvested.state = "exact", NEW r \in ran, r.turn \in Recorded
                   PROVE  \E a \in manifest.turns[r.turn].traces : a.run = r.run /\ a.iter = r.iter
      BY DEF ExactIsComplete
    <2>2. Recorded = 1 .. Len(manifest.turns)
      BY <2>1 DEF RigInv, RigTypeOK, Recorded
    <2>3. ToldIn(manifest.turns[r.turn], r) /\ manifest.turns[r.turn].status = "complete"
      BY <2>1, <2>2 DEF RigInv, HarvestHonest, WholeInv, EnvelopesMatch
    <2>. QED
      BY <2>3 DEF ToldIn, SameRound
  <1>. QED
    BY <1>1, <1>2, <1>3, PTL DEF RigSpec

(***************************************************************************)
(* The classes of passes (Classify).                                       *)
(***************************************************************************)

\* On the Bench the members of a group were compared in the same runs.
OneComparison ==
    study.group.lane = Stateless =>
        \A p, q \in study.passes, i \in study.identities : observed.joint[p][i] = observed.joint[q][i]

ClassifyInv ==
    /\ study \in Studies
    /\ OneComparison
    /\ DOMAIN assembly = {"pc", "class"}
    /\ NothingIsLost

LEMMA ClassifyStarts == ClassifyInit => ClassifyInv
<1> SUFFICES ASSUME ClassifyInit PROVE ClassifyInv
  OBVIOUS
<1>1. study \in Studies /\ DOMAIN assembly = {"pc", "class"} /\ assembly.pc = "measured" BY DEF ClassifyInit
<1>2. PICK base \in PerPass(study.bases), together \in PerPass(study.changes) :
        observed.joint = [p \in study.passes |-> [i \in study.identities |->
                             Pair(i, study.group.lane, base[p][i], together[p][i])]]
  <2> HIDE DEF PerPass, Pair
  <2> QED BY DEF ClassifyInit
<1>3. ASSUME study.group.lane = Stateless, NEW p \in study.passes, NEW q \in study.passes, NEW i \in study.identities
      PROVE  observed.joint[p][i] = observed.joint[q][i]
  <2>1. base[p] = base[q] /\ together[p] = together[q] BY <1>3 DEF PerPass
  <2> HIDE DEF Pair
  <2>2. observed.joint[p][i] = Pair(i, study.group.lane, base[p][i], together[p][i])
        /\ observed.joint[q][i] = Pair(i, study.group.lane, base[q][i], together[q][i])
    BY <1>2
  <2> QED BY <2>1, <2>2
<1> QED BY <1>1, <1>3 DEF ClassifyInv, OneComparison, NothingIsLost

\* A pass that may be deleted loses with its group nothing that no other pass keeps.
LEMMA SomebodyKeeps ==
    ASSUME study \in Studies, OneComparison, NEW p \in study.group.passes, NEW m \in study.group.passes, NEW i \in study.identities,
           Class(p) = "delete-candidate", Together(m, i).worsened > 0
    PROVE  \E c \in study.passes : Class(c) = "retain" /\ AloneWorse(c, i)
<1> HIDE DEF AloneWorse
<1>1. study.group.passes \subseteq study.passes BY ClassifyAssumption
<1>2. Members(p) = study.group.passes /\ Members(p) # {} BY DEF Members
<1>3. ~InteractionHarm(p)
  BY DEF Class
<1>4. i \in HarmfulOutcomes
  <2>1. CASE study.group.lane = Stateless
    <3>1. PICK q \in study.group.passes : Compared = {q} BY <2>1 DEF Compared
    <3>2. observed.joint[q][i] = observed.joint[m][i] BY <2>1, <1>1 DEF OneComparison
    <3>3. Together(q, i) = Together(m, i) BY <3>2 DEF Together
    <3> QED BY <3>1, <3>3 DEF HarmfulOutcomes
  <2>2. CASE study.group.lane # Stateless BY <2>2 DEF HarmfulOutcomes, Compared
  <2> QED BY <2>1, <2>2
<1>5. CausallyClosed(p) BY <1>2, <1>3, <1>4 DEF InteractionHarm
<1>6. PICK c \in Covers(p, i) : c # p BY <1>4, <1>5 DEF CausallyClosed
<1>7. c \in Retained /\ AloneWorse(c, i) BY <1>6 DEF Covers
<1>8. c \in study.passes BY <1>7 DEF Retained
<1> QED BY <1>7, <1>8 DEF Class

LEMMA ClassifySteps == ClassifyInv /\ [ClassifyNext]_classifyVars => ClassifyInv'
<1> SUFFICES ASSUME ClassifyInv, [ClassifyNext]_classifyVars PROVE ClassifyInv'
  OBVIOUS
<1>1. UNCHANGED <<study, observed>> BY DEF ClassifyNext, Assemble, Told, classifyVars
<1>2. study' \in Studies /\ OneComparison' BY <1>1 DEF ClassifyInv, OneComparison
<1>3. \A c, i : Together(c, i)' = Together(c, i) /\ (AloneWorse(c, i)' <=> AloneWorse(c, i))
  BY <1>1 DEF Together, AloneWorse, Alone
<1>4. CASE UNCHANGED assembly
  BY <1>1, <1>2, <1>3, <1>4 DEF ClassifyInv, NothingIsLost
<1>5. CASE assembly' = [assembly EXCEPT !.pc = "refused"]
  <2>1. assembly'.pc # "assembled" /\ DOMAIN assembly' = {"pc", "class"} BY <1>5 DEF ClassifyInv
  <2> QED BY <1>2, <2>1 DEF ClassifyInv, NothingIsLost
<1>6. CASE assembly' = [pc |-> "assembled", class |-> [p \in study.passes |-> Class(p)]]
  <2> HIDE DEF Class
  <2>1. DOMAIN assembly' = {"pc", "class"} /\ \A p \in study.passes : assembly'.class[p] = Class(p) BY <1>6
  <2>2. ASSUME NEW p \in study.group.passes, NEW i \in study.identities, NEW m \in study.group.passes,
               assembly'.class[p] = "delete-candidate", Together(m, i).worsened > 0
        PROVE  \E c \in study.passes : assembly'.class[c] = "retain" /\ AloneWorse(c, i)
    <3>1. p \in study.passes BY ClassifyAssumption DEF ClassifyInv
    <3>2. Class(p) = "delete-candidate" BY <2>1, <2>2, <3>1
    <3>3. PICK c \in study.passes : Class(c) = "retain" /\ AloneWorse(c, i)
      BY <2>2, <3>2, SomebodyKeeps DEF ClassifyInv
    <3> QED BY <2>1, <3>3
  <2>3. NothingIsLost' BY <1>1, <1>3, <2>2 DEF NothingIsLost
  <2> QED BY <1>2, <2>1, <2>3 DEF ClassifyInv
<1> QED BY <1>4, <1>5, <1>6 DEF ClassifyNext, Assemble, Told, classifyVars

\* Nothing that the group of a candidate was seen to lose goes with it, for any
\* measurement.
THEOREM DeletionLosesNothing == ClassifySpec => []NothingIsLost
<1>1. ClassifyInv => NothingIsLost BY DEF ClassifyInv
<1> QED BY <1>1, ClassifyStarts, ClassifySteps, PTL DEF ClassifySpec

(***************************************************************************)
(* The publication of a measurement (Publication).                         *)
(***************************************************************************)
PubPcs ==
    {"start", "rig", "dogfood", "open", "lock", "check", "stage", "recheck", "install", "link", "linked", "verify",
     "mark", "link mark", "marked", "unlock", "cleanup", "done", "killed"}
PubRecs ==
    [pc : PubPcs, exit : Nat, view : Views, staged : Views, root : Nat, next : {1, 2}, owned : SUBSET Files]

PubTypes ==
    /\ root \in Nat /\ made \in Nat /\ root <= made
    /\ files \in [Files -> Written \cup {None}]
    /\ \A f \in Files : files[f] # None => (files[f].by \in Benchers <=> f = "bundle")
    /\ lock \in Publishers \cup {None}
    /\ world \in [Sources -> {1, 2}]
    /\ publisher \in [Publishers -> PubRecs]

\* Where the sources have been read, the root is known, the copies agree, and where a
\* publisher has nothing of its own yet.
RigRead == {"dogfood", "open", "lock", "check", "stage", "recheck", "install", "link", "linked", "verify", "mark",
            "link mark", "marked", "unlock"}
AllRead == RigRead \ {"dogfood"}
Rooted == AllRead \ {"open"}
Agreed == Rooted \ {"lock", "check", "stage"}
Fresh == {"start", "rig", "dogfood", "open", "lock", "check", "stage", "recheck"}
Unlocking == {"start", "rig", "dogfood", "open", "lock", "done"}

Succeeded(r) == r.pc = "done" /\ r.exit = 0
Is(fs, f, p) == fs[f] # None /\ fs[f].by = p

\* What is known of a publisher, its record being r, the files fs and the lock lk.
\* Whatever carries its name is its own or just being linked; ...
Traced(p, r, fs) ==
    \A f \in Files : Is(fs, f, p) => \/ f \in r.owned
                                     \/ r.pc = "linked" /\ f = Outputs[r.next]
                                     \/ r.pc = "marked" /\ f = "complete"
                                     \/ r.pc = "killed"
\* ... it has what it has come to own; ...
Progress(r) ==
    /\ r.pc \in Fresh => r.owned = {} /\ r.next = 1
    /\ r.pc = "done" /\ r.exit # 0 => r.owned = {}
    /\ r.pc \in {"install", "link", "linked"} /\ r.next = 2 => "sources" \in r.owned
    /\ r.pc \in {"verify", "mark", "link mark", "marked", "unlock"} \/ Succeeded(r) => {"sources", "result"} \subseteq r.owned
    /\ r.pc = "unlock" \/ Succeeded(r) => "complete" \in r.owned
\* ... it knows its root, and what it read was as registered; ...
Knows(r) ==
    /\ r.pc \in Rooted \/ Succeeded(r) => 1 <= r.root /\ r.root <= made
    /\ r.pc \in RigRead \/ Succeeded(r) => r.view.rig = Registered
    /\ r.pc \in AllRead \/ Succeeded(r) => r.view.dogfood = Registered
    /\ r.pc \in Agreed \/ Succeeded(r) => r.staged = r.view
\* ... and as long as its root is there, so is what it derived the result from, and
\* all that it installed.
Holds(p, r, fs) ==
    root = r.root =>
        /\ r.pc \in Agreed \/ Succeeded(r) =>
              /\ r.view.bench \in artifacts
              /\ \A f \in r.owned : Is(fs, f, p) /\ fs[f].what = r.view /\ fs[f].links = 1
        /\ r.pc = "linked" => Is(fs, Outputs[r.next], p) /\ fs[Outputs[r.next]].what = r.view
        /\ r.pc = "marked" => Is(fs, "complete", p) /\ fs["complete"].what = r.view
        /\ r.pc = "unlock" \/ Succeeded(r) => Is(fs, "bundle", r.view.bench) /\ fs["bundle"].links = 1
Fine(p, r, fs, lk) ==
    /\ lk = p => r.pc \notin Unlocking
    /\ Traced(p, r, fs) /\ Progress(r) /\ Knows(r) /\ Holds(p, r, fs)

PubInv == PubTypes /\ \A p \in Publishers : Fine(p, publisher[p], files, lock)

(***************************************************************************)
(* Others come and go.                                                     *)
(***************************************************************************)

\* What a step that is not its own leaves a publisher.
Stays(f) ==
    /\ files'[f] # None /\ files'[f].by = files[f].by /\ files'[f].what = files[f].what
    /\ files[f].links = 1 => files'[f].links = 1
Undisturbed(p) ==
    /\ publisher'[p] = publisher[p]
    /\ lock' = p => lock = p
    /\ made' \in Nat /\ made' >= made
    /\ root' = root \/ root' = 0 \/ root' > made
    /\ \A f \in Files : Is(files', f, p) => Is(files, f, p)
    /\ root' = root =>
          /\ artifacts \subseteq artifacts'
          /\ publisher[p].pc # "killed" =>
                \A f \in Files : files[f] # None /\ (files[f].by = p \/ f = "bundle") => Stays(f)

FilesAre == Files = {"bundle", "complete", "sources", "result"}
LEMMA FilesKnown == FilesAre /\ Outputs[1] = "sources" /\ Outputs[2] = "result" /\ Range(Outputs) = {"sources", "result"}
<1>1. Outputs[1] = "sources" /\ Outputs[2] = "result" /\ DOMAIN Outputs = {1, 2} BY DEF Outputs
<1>2. Range(Outputs) = {"sources", "result"} BY <1>1 DEF Range
<1> QED BY <1>1, <1>2 DEF FilesAre, Files

LEMMA StillFine ==
    ASSUME PubInv, PublicationAssumption, NEW p \in Publishers, Undisturbed(p)
    PROVE  Fine(p, publisher[p], files, lock)'
<1> DEFINE r == publisher[p]
<1>1. Fine(p, r, files, lock) /\ r \in PubRecs /\ publisher'[p] = r BY DEF PubInv, PubTypes, Undisturbed
<1>2. r.root \in Nat /\ made \in Nat /\ root \in Nat /\ made' \in Nat /\ made' >= made
  BY <1>1 DEF PubRecs, PubInv, PubTypes, Undisturbed
<1>3. r.owned \subseteq Files /\ (r.next = 1 \/ r.next = 2) BY <1>1 DEF PubRecs
<1> HIDE DEF r
<1>4. lock' = p => r.pc \notin Unlocking BY <1>1 DEF Fine, Undisturbed
<1>5. Traced(p, r, files') BY <1>1 DEF Fine, Traced, Undisturbed
<1>6. Progress(r) BY <1>1 DEF Fine
<1>7. Knows(r)' BY <1>1, <1>2 DEF Fine, Knows, Succeeded, r
<1>8. ASSUME root' = r.root, r.pc \in Agreed \/ Succeeded(r)
      PROVE  /\ root' = root /\ root = r.root
             /\ artifacts \subseteq artifacts'
             /\ \A f \in Files : files[f] # None /\ (files[f].by = p \/ f = "bundle") => Stays(f)
  <2>1. 1 <= r.root /\ r.root <= made BY <1>1, <1>8 DEF Fine, Knows, Agreed
  <2>2. root' = root BY <2>1, <1>2, <1>8 DEF Undisturbed
  <2>3. r.pc # "killed" BY <1>8 DEF Agreed, Rooted, AllRead, RigRead, Succeeded
  <2> QED BY <1>8, <2>2, <2>3 DEF Undisturbed, r
<1>9. ASSUME root' = r.root, r.pc \in Agreed \/ Succeeded(r)
      PROVE  /\ r.view.bench \in artifacts'
             /\ \A f \in r.owned : Is(files', f, p) /\ files'[f].what = r.view /\ files'[f].links = 1
             /\ r.pc = "linked" => Is(files', Outputs[r.next], p) /\ files'[Outputs[r.next]].what = r.view
             /\ r.pc = "marked" => Is(files', "complete", p) /\ files'["complete"].what = r.view
             /\ r.pc = "unlock" \/ Succeeded(r) => Is(files', "bundle", r.view.bench) /\ files'["bundle"].links = 1
  <2>1. /\ r.view.bench \in artifacts
        /\ \A f \in r.owned : Is(files, f, p) /\ files[f].what = r.view /\ files[f].links = 1
        /\ r.pc = "linked" => Is(files, Outputs[r.next], p) /\ files[Outputs[r.next]].what = r.view
        /\ r.pc = "marked" => Is(files, "complete", p) /\ files["complete"].what = r.view
        /\ r.pc = "unlock" \/ Succeeded(r) => Is(files, "bundle", r.view.bench) /\ files["bundle"].links = 1
    BY <1>1, <1>8, <1>9 DEF Fine, Holds
  <2>2. \A f \in Files : files[f] # None /\ (files[f].by = p \/ f = "bundle") => Stays(f) BY <1>8, <1>9
  <2>3. Outputs[r.next] \in Files /\ "complete" \in Files /\ "bundle" \in Files BY <1>3, FilesKnown DEF FilesAre
  <2>4. r.view.bench \in artifacts' BY <2>1, <1>8, <1>9
  <2>5. \A f \in r.owned : Is(files', f, p) /\ files'[f].what = r.view /\ files'[f].links = 1
    BY <2>1, <2>2, <1>3 DEF Is, Stays
  <2>6. r.pc = "linked" => Is(files', Outputs[r.next], p) /\ files'[Outputs[r.next]].what = r.view
    BY <2>1, <2>2, <2>3 DEF Is, Stays
  <2>7. r.pc = "marked" => Is(files', "complete", p) /\ files'["complete"].what = r.view
    BY <2>1, <2>2, <2>3 DEF Is, Stays
  <2>8. r.pc = "unlock" \/ Succeeded(r) => Is(files', "bundle", r.view.bench) /\ files'["bundle"].links = 1
    BY <2>1, <2>2, <2>3 DEF Is, Stays
  <2> QED BY <2>4, <2>5, <2>6, <2>7, <2>8
<1>10. r.pc \in {"linked", "marked", "unlock"} => r.pc \in Agreed BY DEF Agreed, Rooted, AllRead, RigRead
<1>11. Holds(p, publisher[p], files)' BY <1>1, <1>9, <1>10 DEF Holds, Succeeded
<1>12. Knows(publisher[p])' BY <1>7, <1>1 DEF Knows, Succeeded, r
<1>13. Traced(p, publisher[p], files)' BY <1>5, <1>1 DEF Traced, Is
<1>14. Progress(publisher[p])' BY <1>6, <1>1 DEF Progress, Succeeded
<1> QED BY <1>1, <1>4, <1>11, <1>12, <1>13, <1>14 DEF Fine

LEMMA PutDoes ==
    ASSUME PubTypes, PublicationAssumption, NEW f \in Files, NEW by \in Benchers \cup Publishers, NEW what \in Views,
           Put(f, by, what)
    PROVE  /\ files' \in [Files -> Written \cup {None}]
           /\ files'[f] # None /\ files'[f].by = by /\ files'[f].what = what
           /\ \A g \in Files : g # f => files'[g] = files[g]
<1> DEFINE new == [by |-> by, what |-> what, links |-> 2]
<1>1. new \in Written /\ new.by = by /\ new.what = what BY DEF Written
<1>2. files' = [files EXCEPT ![f] = new] BY DEF Put
<1>3. new # None BY <1>1 DEF PublicationAssumption
<1> HIDE DEF new
<1> QED BY <1>1, <1>2, <1>3 DEF PubTypes

LEMMA UnlinkedDoes ==
    ASSUME PubTypes, PublicationAssumption, NEW f \in Files, NEW fs, fs = Unlinked(f)
    PROVE  /\ fs \in [Files -> Written \cup {None}]
           /\ \A g \in Files : /\ fs[g] # None <=> files[g] # None
                               /\ fs[g] # None => fs[g].by = files[g].by /\ fs[g].what = files[g].what
                               /\ files[g] # None /\ files[g].links = 1 => fs[g].links = 1
                               /\ g # f => fs[g] = files[g]
           /\ files[f] # None => fs[f].links = 1
<1>1. ASSUME NEW e \in Written
      PROVE  /\ [e EXCEPT !.links = 1] \in Written
             /\ [e EXCEPT !.links = 1].by = e.by /\ [e EXCEPT !.links = 1].what = e.what /\ [e EXCEPT !.links = 1].links = 1
  BY DEF Written
<1>2. \A e \in Written : e # None BY DEF PublicationAssumption
<1> DEFINE changed == [files[f] EXCEPT !.links = 1]
<1>3. fs = [g \in Files |-> IF g = f /\ files[f] # None THEN changed ELSE files[g]] BY DEF Unlinked
<1>4. \A g \in Files : files[g] \in Written \cup {None} BY DEF PubTypes
<1>5. files[f] # None => /\ changed \in Written /\ changed # None
                         /\ changed.by = files[f].by /\ changed.what = files[f].what /\ changed.links = 1
  BY <1>1, <1>2, <1>4
<1> HIDE DEF changed
<1>6. fs \in [Files -> Written \cup {None}] BY <1>3, <1>4, <1>5
<1>7. files[f] # None => fs[f] = changed BY <1>3
<1>8. \A g \in Files : g # f => fs[g] = files[g] BY <1>3
<1>9. files[f] = None => fs[f] = None BY <1>3
<1> QED BY <1>5, <1>6, <1>7, <1>8, <1>9

\* What happens to the root.
RootMoves ==
    /\ root' \in Nat /\ made' \in Nat /\ made' >= made /\ root' <= made'
    /\ root' = root \/ root' = 0 \/ root' > made

LEMMA RootSteps ==
    ASSUME PubTypes, \/ UNCHANGED <<root, made>>
                     \/ UNCHANGED made /\ root' = 0
                     \/ MakeRoot
    PROVE  RootMoves
  BY DEF PubTypes, MakeRoot, RootMoves

\* The steps of a bencher, and what happens besides, disturb no publisher.
BencherSteps ==
    \/ \E b \in Benchers : \/ BReserve(b) \/ BCaptured(b) \/ BArtifacts(b) \/ BVerify(b) \/ BBundle(b) \/ BBundled(b)
                           \/ KillBencher(b)
    \/ \E s \in Sources : Edit(s)
    \/ RemoveRoot
    \/ BreakLock
    \/ UNCHANGED pubVars

LEMMA BenchersDisturbNobody ==
    ASSUME PubInv, PublicationAssumption, BencherSteps
    PROVE  PubTypes' /\ \A p \in Publishers : Undisturbed(p)
<1>1. PubTypes BY DEF PubInv
<1>2. ASSUME RootMoves, UNCHANGED <<publisher, files, lock>>, world' \in [Sources -> {1, 2}],
             root' = root => artifacts \subseteq artifacts'
      PROVE  PubTypes' /\ \A p \in Publishers : Undisturbed(p)
  BY <1>1, <1>2 DEF PubTypes, Undisturbed, RootMoves, Stays, Is
<1>3. world \in [Sources -> {1, 2}] BY <1>1 DEF PubTypes
<1>4. ASSUME NEW b \in Benchers, BReserve(b)
      PROVE  PubTypes' /\ \A p \in Publishers : Undisturbed(p)
  <2>1. UNCHANGED <<root, made>> \/ MakeRoot BY <1>4 DEF BReserve, Unregistered
  <2>2. RootMoves BY <1>1, <2>1, RootSteps
  <2> QED BY <1>2, <1>3, <1>4, <2>2 DEF BReserve
<1>5. ASSUME NEW b \in Benchers, BCaptured(b)
      PROVE  PubTypes' /\ \A p \in Publishers : Undisturbed(p)
  <2>1. UNCHANGED <<root, made>> \/ (UNCHANGED made /\ root' = 0) BY <1>5 DEF BCaptured, GivesUp
  <2>2. RootMoves BY <1>1, <2>1, RootSteps
  <2> QED BY <1>2, <1>3, <1>5, <2>2 DEF BCaptured
<1>6. ASSUME NEW b \in Benchers, BArtifacts(b)
      PROVE  PubTypes' /\ \A p \in Publishers : Undisturbed(p)
  <2>1. UNCHANGED <<root, made>> \/ MakeRoot BY <1>6 DEF BArtifacts, WithRoot
  <2>2. RootMoves BY <1>1, <2>1, RootSteps
  <2>3. artifacts \subseteq artifacts' BY <1>6 DEF BArtifacts
  <2> QED BY <1>2, <1>3, <1>6, <2>2, <2>3 DEF BArtifacts
<1>7. ASSUME NEW b \in Benchers, BVerify(b) \/ KillBencher(b)
      PROVE  PubTypes' /\ \A p \in Publishers : Undisturbed(p)
  <2>1. UNCHANGED <<place, publisher, world>> BY <1>7 DEF BVerify, KillBencher
  <2>2. RootMoves BY <1>1, <2>1, RootSteps DEF place
  <2> QED BY <1>2, <1>3, <2>1, <2>2 DEF place
<1>8. ASSUME NEW b \in Benchers, BBundle(b)
      PROVE  PubTypes' /\ \A p \in Publishers : Undisturbed(p)
  <2>1. UNCHANGED <<root, made>> \/ MakeRoot BY <1>8 DEF BBundle, WithRoot
  <2>2. RootMoves BY <1>1, <2>1, RootSteps
  <2>3. CASE files["bundle"] # None BY <1>2, <1>3, <1>8, <2>2, <2>3 DEF BBundle
  <2>4. CASE files["bundle"] = None
    <3> DEFINE view == [NoView EXCEPT !.bench = b]
    <3>1. view \in Views BY DEF Views, NoView
    <3>2. Put("bundle", b, view) BY <1>8, <2>4 DEF BBundle
    <3> HIDE DEF view
    <3>3. "bundle" \in Files BY FilesKnown DEF FilesAre
    <3>4. /\ files' \in [Files -> Written \cup {None}]
          /\ files'["bundle"].by = b
          /\ \A g \in Files : g # "bundle" => files'[g] = files[g]
      BY <1>1, <3>1, <3>2, <3>3, PutDoes
    <3>5. \A p \in Publishers : b # p BY DEF PublicationAssumption
    <3>6. UNCHANGED <<artifacts, lock, world, publisher>> BY <1>8 DEF BBundle
    <3>7. PubTypes' BY <1>1, <2>2, <3>4, <3>6 DEF PubTypes, RootMoves
    <3>8. \A p \in Publishers : Undisturbed(p)
      BY <2>2, <2>4, <3>4, <3>5, <3>6 DEF Undisturbed, RootMoves, Stays, Is
    <3> QED BY <3>7, <3>8
  <2> QED BY <2>3, <2>4
<1>9. ASSUME NEW b \in Benchers, BBundled(b)
      PROVE  PubTypes' /\ \A p \in Publishers : Undisturbed(p)
  <2>1. UNCHANGED <<root, made, artifacts, lock, world, publisher>> BY <1>9 DEF BBundled
  <2>2. RootMoves BY <1>1, <2>1, RootSteps
  <2>3. CASE files' = files BY <1>2, <1>3, <2>1, <2>2, <2>3
  <2>4. CASE files' = Unlinked("bundle")
    <3>1. "bundle" \in Files BY FilesKnown DEF FilesAre
    <3>2. PICK fs : fs = files' OBVIOUS
    <3>3. /\ fs \in [Files -> Written \cup {None}]
          /\ \A g \in Files : /\ fs[g] # None <=> files[g] # None
                              /\ fs[g] # None => fs[g].by = files[g].by /\ fs[g].what = files[g].what
                              /\ files[g] # None /\ files[g].links = 1 => fs[g].links = 1
      <4>1. fs = Unlinked("bundle") BY <2>4, <3>2
      <4> QED BY <1>1, <3>1, <4>1, UnlinkedDoes
    <3>4. PubTypes' BY <1>1, <2>1, <2>2, <3>2, <3>3 DEF PubTypes, RootMoves
    <3>5. \A p \in Publishers : Undisturbed(p)
      BY <2>1, <2>2, <3>2, <3>3 DEF Undisturbed, RootMoves, Stays, Is
    <3> QED BY <3>4, <3>5
  <2> QED BY <1>9, <2>3, <2>4 DEF BBundled
<1>10. ASSUME NEW s \in Sources, Edit(s)
      PROVE  PubTypes' /\ \A p \in Publishers : Undisturbed(p)
  <2>1. UNCHANGED <<place, publisher>> /\ world' = [world EXCEPT ![s] = 3 - world[s]] BY <1>10 DEF Edit
  <2>2. RootMoves BY <1>1, <2>1, RootSteps DEF place
  <2>3. world' \in [Sources -> {1, 2}]
    <3>1. world[s] \in {1, 2} BY <1>3
    <3>2. 3 - world[s] \in {1, 2} BY <3>1
    <3> QED BY <2>1, <3>2, <1>3
  <2> QED BY <1>2, <2>1, <2>2, <2>3 DEF place
<1>11. CASE RemoveRoot
  <2>1. /\ root' = 0 /\ root # 0 /\ lock' = None /\ files' = [f \in Files |-> None]
        /\ UNCHANGED <<made, world, publisher>>
    BY <1>11 DEF RemoveRoot
  <2>2. RootMoves BY <1>1, <2>1, RootSteps
  <2>3. \A f \in Files : files'[f] = None BY <2>1
  <2>4. PubTypes' BY <1>1, <2>1, <2>2, <2>3 DEF PubTypes, RootMoves
  <2>5. \A p \in Publishers : None # p BY DEF PublicationAssumption
  <2>6. \A p \in Publishers : Undisturbed(p)
    BY <2>1, <2>2, <2>3, <2>5 DEF Undisturbed, RootMoves, Is
  <2> QED BY <2>4, <2>6
<1>12. CASE BreakLock
  <2>1. /\ lock \in Publishers /\ publisher[lock].pc = "killed" /\ lock' = None
        /\ UNCHANGED <<root, made, artifacts, world, publisher>>
    BY <1>1, <1>12 DEF BreakLock, PubTypes
  <2>2. /\ files' \in [Files -> Written \cup {None}]
        /\ \A f \in Files : files'[f] = files[f] \/ (files'[f] = None /\ files[f] # None /\ files[f].by = lock)
    <3>1. CASE files' = files BY <3>1, <1>1 DEF PubTypes
    <3>2. CASE files' = [f \in Files |-> IF files[f] # None /\ files[f].by = lock THEN None ELSE files[f]]
      BY <3>2, <1>1 DEF PubTypes
    <3> QED BY <1>12, <3>1, <3>2 DEF BreakLock
  <2>3. RootMoves BY <1>1, <2>1, RootSteps
  <2>4. PubTypes' BY <1>1, <2>1, <2>2, <2>3 DEF PubTypes, RootMoves
  <2>5. \A p \in Publishers : None # p BY DEF PublicationAssumption
  <2>6. lock \notin Benchers /\ (files["bundle"] # None => files["bundle"].by \in Benchers)
    <3>1. "bundle" \in Files BY FilesKnown DEF FilesAre
    <3> QED BY <1>1, <2>1, <3>1 DEF PubTypes, PublicationAssumption
  <2>7. ASSUME NEW p \in Publishers PROVE Undisturbed(p)
    <3>1. \A f \in Files : Is(files', f, p) => Is(files, f, p) BY <2>2 DEF Is
    <3>2. publisher[p].pc # "killed" => p # lock BY <2>1
    <3>3. publisher[p].pc # "killed" =>
             \A f \in Files : files[f] # None /\ (files[f].by = p \/ f = "bundle") => Stays(f)
      BY <2>2, <2>6, <3>2 DEF Stays
    <3> QED BY <2>1, <2>3, <2>5, <3>1, <3>3 DEF Undisturbed, RootMoves
  <2> QED BY <2>4, <2>7
<1>13. CASE UNCHANGED pubVars
  <2>1. RootMoves BY <1>1, <1>13, RootSteps DEF pubVars
  <2> QED BY <1>2, <1>3, <1>13, <2>1 DEF pubVars
<1> QED BY <1>4, <1>5, <1>6, <1>7, <1>8, <1>9, <1>10, <1>11, <1>12, <1>13 DEF BencherSteps

\* A step of one publisher, told by what becomes of its record, the files and the lock.
Wrote(p, f) ==
    \/ files'[f] = files[f]
    \/ f # "bundle" /\ files[f] = None /\ files'[f] # None /\ files'[f].by = p
    \/ files[f] # None /\ Stays(f)
    \/ files[f] # None /\ files[f].by = p /\ files'[f] = None

LEMMA OwnStep ==
    ASSUME PubInv, PublicationAssumption, NEW p \in Publishers, NEW r \in PubRecs, NEW fs, NEW lk,
           UNCHANGED <<root, made, artifacts, world>>,
           publisher' = [publisher EXCEPT ![p] = r], files' = fs, lock' = lk,
           lk \in {lock, p, None},
           fs \in [Files -> Written \cup {None}],
           \A f \in Files : Wrote(p, f),
           Fine(p, r, fs, lk)
    PROVE  PubInv'
<1>1. PubTypes BY DEF PubInv
<1>2. publisher' \in [Publishers -> PubRecs] /\ publisher'[p] = r
      /\ \A q \in Publishers : q # p => publisher'[q] = publisher[q]
  BY <1>1 DEF PubTypes
<1>3. p \notin Benchers /\ \A q \in Publishers : q \notin Benchers /\ q # None BY DEF PublicationAssumption
<1>4. \A f \in Files : files'[f] # None => (files'[f].by \in Benchers <=> f = "bundle")
  <2>1. \A f \in Files : files[f] # None => (files[f].by \in Benchers <=> f = "bundle") BY <1>1 DEF PubTypes
  <2> QED BY <2>1, <1>3 DEF Wrote, Stays
<1>5. PubTypes' BY <1>1, <1>2, <1>4 DEF PubTypes
<1>6. ASSUME NEW q \in Publishers, q # p PROVE Undisturbed(q)
  <2>1. \A f \in Files : Is(files', f, q) => Is(files, f, q) BY <1>6 DEF Wrote, Stays, Is
  <2>2. \A f \in Files : files[f] # None /\ (files[f].by = q \/ f = "bundle") => Stays(f)
    <3>1. \A f \in Files : files[f] # None => (files[f].by \in Benchers <=> f = "bundle") BY <1>1 DEF PubTypes
    <3> QED BY <1>6, <1>3, <3>1 DEF Wrote, Stays
  <2>3. lock' = q => lock = q BY <1>3, <1>6
  <2> QED BY <2>1, <2>2, <2>3, <1>1, <1>2, <1>6 DEF Undisturbed, PubTypes
<1>7. ASSUME NEW q \in Publishers, q # p PROVE Fine(q, publisher[q], files, lock)'
  BY <1>6, <1>7, StillFine
<1>8. Fine(p, publisher[p], files, lock)'
  <2>1. Holds(p, r, fs) /\ Knows(r) /\ Traced(p, r, fs) /\ Progress(r) /\ (lk = p => r.pc \notin Unlocking)
    BY DEF Fine
  <2>2. Holds(p, publisher[p], files)' BY <2>1, <1>2 DEF Holds, Is, Succeeded
  <2>3. Knows(publisher[p])' BY <2>1, <1>2 DEF Knows, Succeeded
  <2>4. Traced(p, publisher[p], files)' BY <2>1, <1>2 DEF Traced, Is
  <2>5. Progress(publisher[p])' BY <2>1, <1>2 DEF Progress, Succeeded
  <2>6. (lock = p => publisher[p].pc \notin Unlocking)' BY <2>1, <1>2
  <2> QED BY <2>2, <2>3, <2>4, <2>5, <2>6 DEF Fine
<1> QED BY <1>5, <1>7, <1>8 DEF PubInv

\* The record of a publisher after a step.
SameWork(r, s) ==
    r.view = s.view /\ r.staged = s.staged /\ r.root = s.root /\ r.next = s.next /\ r.owned = s.owned

LEMMA GoesDoes ==
    ASSUME PubTypes, NEW p \in Publishers, NEW x \in PubPcs, Goes(p, x)
    PROVE  \E r \in PubRecs : /\ publisher' = [publisher EXCEPT ![p] = r]
                              /\ r.pc = x /\ r.exit = publisher[p].exit /\ SameWork(r, publisher[p])
<1> DEFINE r == [publisher[p] EXCEPT !.pc = x]
<1>1. publisher[p] \in PubRecs BY DEF PubTypes
<1>2. r \in PubRecs BY <1>1 DEF PubRecs
<1>3. r.pc = x /\ r.exit = publisher[p].exit /\ SameWork(r, publisher[p]) BY <1>1 DEF PubRecs, SameWork
<1>4. publisher' = [publisher EXCEPT ![p] = r] BY DEF Goes
<1> HIDE DEF r
<1> QED BY <1>2, <1>3, <1>4

LEMMA EndsDoes ==
    ASSUME PubTypes, NEW p \in Publishers, NEW e \in Nat, Ends(p, e)
    PROVE  \E r \in PubRecs : /\ publisher' = [publisher EXCEPT ![p] = r]
                              /\ r.pc = "done" /\ r.exit = e /\ SameWork(r, publisher[p])
<1> DEFINE r == [publisher[p] EXCEPT !.pc = "done", !.exit = e]
<1>1. publisher[p] \in PubRecs BY DEF PubTypes
<1>2. r \in PubRecs BY <1>1 DEF PubRecs, PubPcs
<1>3. r.pc = "done" /\ r.exit = e /\ SameWork(r, publisher[p]) BY <1>1 DEF PubRecs, SameWork
<1>4. publisher' = [publisher EXCEPT ![p] = r] BY <1>1 DEF Ends, PubTypes
<1> HIDE DEF r
<1> QED BY <1>2, <1>3, <1>4

\* To back out or to be killed asks for nothing, but where a file is just linked.
LEMMA BacksFine ==
    ASSUME NEW p, NEW s, NEW r, NEW fs, NEW lk, Fine(p, s, fs, lk), s.pc \notin {"linked", "marked", "killed"},
           r.pc = "cleanup", SameWork(r, s)
    PROVE  Fine(p, r, fs, lk)
  BY DEF Fine, Unlocking, Traced, Progress, Knows, Holds, Succeeded, SameWork, Rooted, RigRead, AllRead, Agreed, Fresh

LEMMA KilledFine ==
    ASSUME NEW p, NEW s, NEW r, NEW fs, NEW lk, r.pc = "killed", SameWork(r, s)
    PROVE  Fine(p, r, fs, lk)
  BY DEF Fine, Unlocking, Traced, Progress, Knows, Holds, Succeeded, SameWork, Rooted, RigRead, AllRead, Agreed, Fresh

LEMMA BackOut ==
    ASSUME PubInv, PublicationAssumption, NEW p \in Publishers, Backs(p), UNCHANGED <<place, world>>,
           publisher[p].pc \notin {"linked", "marked", "killed"}
    PROVE  PubInv'
<1>1. PubTypes /\ Fine(p, publisher[p], files, lock) BY DEF PubInv
<1>2. "cleanup" \in PubPcs BY DEF PubPcs
<1>3. PICK r \in PubRecs : /\ publisher' = [publisher EXCEPT ![p] = r]
                           /\ r.pc = "cleanup" /\ SameWork(r, publisher[p])
  BY <1>1, <1>2, GoesDoes DEF Backs
<1>4. Fine(p, r, files, lock) BY <1>1, <1>3, BacksFine
<1>5. \A f \in Files : Wrote(p, f) BY DEF Wrote, place
<1>6. files \in [Files -> Written \cup {None}] BY <1>1 DEF PubTypes
<1> QED BY <1>3, <1>4, <1>5, <1>6, OwnStep DEF place

LEMMA QuietStep ==
    ASSUME PubInv, PublicationAssumption, NEW p \in Publishers, NEW r \in PubRecs,
           UNCHANGED <<place, world>>, publisher' = [publisher EXCEPT ![p] = r], Fine(p, r, files, lock)
    PROVE  PubInv'
<1>1. \A f \in Files : Wrote(p, f) BY DEF Wrote, place
<1>2. files \in [Files -> Written \cup {None}] BY DEF PubInv, PubTypes
<1> QED BY <1>1, <1>2, OwnStep DEF place

LEMMA ReadBenchStep ==
    ASSUME PubInv, PublicationAssumption, NEW p \in Publishers, ReadBench(p)
    PROVE  PubInv'
<1>1. PubTypes /\ Fine(p, publisher[p], files, lock) /\ publisher[p] \in PubRecs BY DEF PubInv, PubTypes
<1>2. publisher[p].pc = "start" /\ UNCHANGED <<place, world>> BY DEF ReadBench, Others
<1>3. CASE ~BundleHolds BY <1>2, <1>3, BackOut DEF ReadBench
<1>4. CASE BundleHolds
  <2> DEFINE by == files["bundle"].by
             view == [publisher[p].view EXCEPT !.bench = by]
             r == [publisher[p] EXCEPT !.pc = "rig", !.view = view]
  <2>1. by \in Benchers
    <3>1. "bundle" \in Files BY FilesKnown DEF FilesAre
    <3> QED BY <1>1, <1>4, <3>1 DEF PubTypes, BundleHolds, Readable
  <2>2. view \in Views
    <3>1. publisher[p].view \in Views BY <1>1 DEF PubRecs
    <3> QED BY <2>1, <3>1 DEF Views
  <2>3. publisher' = [publisher EXCEPT ![p] = r] BY <1>1, <1>4 DEF ReadBench, Reads, PubTypes
  <2> HIDE DEF view
  <2>4. r \in PubRecs BY <1>1, <2>2 DEF PubRecs, PubPcs
  <2>5. /\ r.pc = "rig" /\ r.root = publisher[p].root /\ r.next = publisher[p].next /\ r.owned = publisher[p].owned
    BY <1>1 DEF PubRecs
  <2> HIDE DEF r
  <2>6. Fine(p, r, files, lock)
    BY <1>1, <1>2, <2>5 DEF Fine, Unlocking, Traced, Progress, Knows, Holds, Succeeded, Rooted, RigRead, AllRead, Agreed, Fresh
  <2> QED BY <1>2, <2>3, <2>4, <2>6, QuietStep
<1> QED BY <1>3, <1>4

LEMMA ReadRigStep ==
    ASSUME PubInv, PublicationAssumption, NEW p \in Publishers, ReadRig(p)
    PROVE  PubInv'
<1>1. PubTypes /\ Fine(p, publisher[p], files, lock) /\ publisher[p] \in PubRecs BY DEF PubInv, PubTypes
<1>2. publisher[p].pc = "rig" /\ UNCHANGED <<place, world>> BY DEF ReadRig, Others
<1>3. CASE world.rig # Registered BY <1>2, <1>3, BackOut DEF ReadRig
<1>4. CASE world.rig = Registered
  <2> DEFINE view == [publisher[p].view EXCEPT !.rig = world.rig]
             r == [publisher[p] EXCEPT !.pc = "dogfood", !.view = view]
  <2>1. publisher[p].view \in Views BY <1>1 DEF PubRecs
  <2>2. view \in Views /\ view.rig = Registered BY <1>4, <2>1 DEF Views, Registered
  <2>3. publisher' = [publisher EXCEPT ![p] = r] BY <1>1, <1>4 DEF ReadRig, Reads, PubTypes
  <2> HIDE DEF view
  <2>4. r \in PubRecs BY <1>1, <2>2 DEF PubRecs, PubPcs
  <2>5. /\ r.pc = "dogfood" /\ r.root = publisher[p].root /\ r.next = publisher[p].next /\ r.owned = publisher[p].owned
        /\ r.view = view
    BY <1>1 DEF PubRecs
  <2> HIDE DEF r
  <2>6. Fine(p, r, files, lock)
    BY <1>1, <1>2, <2>2, <2>5 DEF Fine, Unlocking, Traced, Progress, Knows, Holds, Succeeded, Rooted, RigRead, AllRead, Agreed, Fresh
  <2> QED BY <1>2, <2>3, <2>4, <2>6, QuietStep
<1> QED BY <1>3, <1>4

LEMMA ReadDogfoodStep ==
    ASSUME PubInv, PublicationAssumption, NEW p \in Publishers, ReadDogfood(p)
    PROVE  PubInv'
<1>1. PubTypes /\ Fine(p, publisher[p], files, lock) /\ publisher[p] \in PubRecs BY DEF PubInv, PubTypes
<1>2. publisher[p].pc = "dogfood" /\ UNCHANGED <<place, world>> BY DEF ReadDogfood, Others
<1>3. CASE world.dogfood # Registered BY <1>2, <1>3, BackOut DEF ReadDogfood
<1>4. CASE world.dogfood = Registered
  <2> DEFINE view == [publisher[p].view EXCEPT !.dogfood = world.dogfood]
             r == [publisher[p] EXCEPT !.pc = "open", !.view = view]
  <2>1. publisher[p].view \in Views /\ publisher[p].view.rig = Registered
    BY <1>1, <1>2 DEF PubRecs, Fine, Knows, RigRead
  <2>2. view \in Views /\ view.dogfood = Registered /\ view.rig = Registered BY <1>4, <2>1 DEF Views, Registered
  <2>3. publisher' = [publisher EXCEPT ![p] = r] BY <1>1, <1>4 DEF ReadDogfood, Reads, PubTypes
  <2> HIDE DEF view
  <2>4. r \in PubRecs BY <1>1, <2>2 DEF PubRecs, PubPcs
  <2>5. /\ r.pc = "open" /\ r.root = publisher[p].root /\ r.next = publisher[p].next /\ r.owned = publisher[p].owned
        /\ r.view = view
    BY <1>1 DEF PubRecs
  <2> HIDE DEF r
  <2>6. Fine(p, r, files, lock)
    BY <1>1, <1>2, <2>2, <2>5 DEF Fine, Unlocking, Traced, Progress, Knows, Holds, Succeeded, Rooted, RigRead, AllRead, Agreed, Fresh
  <2> QED BY <1>2, <2>3, <2>4, <2>6, QuietStep
<1> QED BY <1>3, <1>4

LEMMA OpenStep ==
    ASSUME PubInv, PublicationAssumption, NEW p \in Publishers, Open(p)
    PROVE  PubInv'
<1>1. PubTypes /\ Fine(p, publisher[p], files, lock) /\ publisher[p] \in PubRecs BY DEF PubInv, PubTypes
<1>2. publisher[p].pc = "open" /\ UNCHANGED <<place, world>> BY DEF Open, Others
<1>3. CASE root = 0 BY <1>2, <1>3, BackOut DEF Open
<1>4. CASE root # 0
  <2> DEFINE r == [publisher[p] EXCEPT !.pc = "lock", !.root = root]
  <2>1. publisher' = [publisher EXCEPT ![p] = r] BY <1>1, <1>4 DEF Open, PubTypes
  <2>2. r \in PubRecs BY <1>1 DEF PubRecs, PubPcs, PubTypes
  <2>3. /\ r.pc = "lock" /\ r.root = root /\ r.next = publisher[p].next /\ r.owned = publisher[p].owned
        /\ r.view = publisher[p].view
    BY <1>1 DEF PubRecs
  <2>4. 1 <= root /\ root <= made BY <1>1, <1>4 DEF PubTypes
  <2> HIDE DEF r
  <2>5. Fine(p, r, files, lock)
    BY <1>1, <1>2, <2>3, <2>4 DEF Fine, Unlocking, Traced, Progress, Knows, Holds, Succeeded, Rooted, RigRead, AllRead, Agreed, Fresh
  <2> QED BY <1>2, <2>1, <2>2, <2>5, QuietStep
<1> QED BY <1>3, <1>4

LEMMA LockStep ==
    ASSUME PubInv, PublicationAssumption, NEW p \in Publishers, Lock(p)
    PROVE  PubInv'
<1>1. PubTypes /\ Fine(p, publisher[p], files, lock) /\ publisher[p] \in PubRecs BY DEF PubInv, PubTypes
<1>2. publisher[p].pc = "lock" /\ UNCHANGED <<root, made, artifacts, files, world>> BY DEF Lock
<1>3. CASE root = 0 BY <1>2, <1>3, BackOut DEF Lock, place
<1>4. CASE root # 0 /\ lock # None
  <2>1. Ends(p, 2) /\ UNCHANGED lock BY <1>4 DEF Lock
  <2>2. PICK r \in PubRecs : /\ publisher' = [publisher EXCEPT ![p] = r]
                             /\ r.pc = "done" /\ r.exit = 2 /\ SameWork(r, publisher[p])
    BY <1>1, <2>1, EndsDoes
  <2>3. Fine(p, r, files, lock)
    BY <1>1, <1>2, <2>2 DEF SameWork, Fine, Unlocking, Traced, Progress, Knows, Holds, Succeeded, Rooted, RigRead,
       AllRead, Agreed, Fresh
  <2> QED BY <1>2, <2>1, <2>2, <2>3, QuietStep DEF place
<1>5. CASE root # 0 /\ lock = None
  <2>1. lock' = p /\ Goes(p, "check") BY <1>5 DEF Lock
  <2>2. "check" \in PubPcs BY DEF PubPcs
  <2>3. PICK r \in PubRecs : /\ publisher' = [publisher EXCEPT ![p] = r]
                             /\ r.pc = "check" /\ SameWork(r, publisher[p])
    BY <1>1, <2>1, <2>2, GoesDoes
  <2>4. Fine(p, r, files, p)
    BY <1>1, <1>2, <2>3 DEF SameWork, Fine, Unlocking, Traced, Progress, Knows, Holds, Succeeded, Rooted, RigRead,
       AllRead, Agreed, Fresh
  <2>5. \A f \in Files : Wrote(p, f) BY <1>2 DEF Wrote
  <2> QED BY <1>1, <1>2, <2>1, <2>3, <2>4, <2>5, OwnStep DEF PubTypes
<1> QED BY <1>3, <1>4, <1>5

LEMMA CheckStep ==
    ASSUME PubInv, PublicationAssumption, NEW p \in Publishers, Check(p)
    PROVE  PubInv'
<1>1. PubTypes /\ Fine(p, publisher[p], files, lock) /\ publisher[p] \in PubRecs BY DEF PubInv, PubTypes
<1>2. publisher[p].pc = "check" /\ UNCHANGED <<root, made, artifacts, files, world>> BY DEF Check
<1>3. CASE Taken
  <2>1. Ends(p, 2) /\ lock' = Unlocked(p) BY <1>3 DEF Check
  <2>2. PICK r \in PubRecs : /\ publisher' = [publisher EXCEPT ![p] = r]
                             /\ r.pc = "done" /\ r.exit = 2 /\ SameWork(r, publisher[p])
    BY <1>1, <2>1, EndsDoes
  <2>3. Unlocked(p) # p /\ Unlocked(p) \in {lock, p, None} BY DEF Unlocked, PublicationAssumption
  <2>4. Fine(p, r, files, Unlocked(p))
    BY <1>1, <1>2, <2>2, <2>3 DEF SameWork, Fine, Unlocking, Traced, Progress, Knows, Holds, Succeeded, Rooted, RigRead,
       AllRead, Agreed, Fresh
  <2>5. \A f \in Files : Wrote(p, f) BY <1>2 DEF Wrote
  <2> QED BY <1>1, <1>2, <2>1, <2>2, <2>3, <2>4, <2>5, OwnStep DEF PubTypes
<1>4. CASE ~Taken
  <2>1. Goes(p, "stage") /\ UNCHANGED lock BY <1>4 DEF Check
  <2>2. "stage" \in PubPcs BY DEF PubPcs
  <2>3. PICK r \in PubRecs : /\ publisher' = [publisher EXCEPT ![p] = r]
                             /\ r.pc = "stage" /\ SameWork(r, publisher[p])
    BY <1>1, <2>1, <2>2, GoesDoes
  <2>4. Fine(p, r, files, lock)
    BY <1>1, <1>2, <2>3 DEF SameWork, Fine, Unlocking, Traced, Progress, Knows, Holds, Succeeded, Rooted, RigRead,
       AllRead, Agreed, Fresh
  <2> QED BY <1>2, <2>1, <2>3, <2>4, QuietStep DEF place
<1> QED BY <1>3, <1>4

LEMMA StageStep ==
    ASSUME PubInv, PublicationAssumption, NEW p \in Publishers, Stage(p)
    PROVE  PubInv'
<1>1. PubTypes /\ Fine(p, publisher[p], files, lock) /\ publisher[p] \in PubRecs BY DEF PubInv, PubTypes
<1>2. publisher[p].pc = "stage" /\ UNCHANGED <<place, world>> BY DEF Stage, Others
<1>3. CASE ~Unchanged(p) BY <1>2, <1>3, BackOut DEF Stage
<1>4. CASE Unchanged(p)
  <2>1. publisher[p].view \in Views BY <1>1 DEF PubRecs
  <2>2. NowThere = publisher[p].view /\ NowThere.bench \in artifacts
    BY <1>4 DEF Unchanged, BundleHolds, NowThere
  <2> DEFINE r == [publisher[p] EXCEPT !.pc = "recheck", !.staged = NowThere]
  <2> HIDE DEF NowThere
  <2>3. publisher' = [publisher EXCEPT ![p] = r] BY <1>1, <1>4 DEF Stage, PubTypes
  <2>4. r \in PubRecs BY <1>1, <2>1, <2>2 DEF PubRecs, PubPcs
  <2>5. /\ r.pc = "recheck" /\ r.root = publisher[p].root /\ r.next = publisher[p].next /\ r.owned = publisher[p].owned
        /\ r.view = publisher[p].view /\ r.staged = publisher[p].view
    BY <1>1, <2>2 DEF PubRecs
  <2> HIDE DEF r
  <2>6. Fine(p, r, files, lock)
    BY <1>1, <1>2, <2>2, <2>5 DEF Fine, Unlocking, Traced, Progress, Knows, Holds, Succeeded, Rooted, RigRead, AllRead, Agreed, Fresh
  <2> QED BY <1>2, <2>3, <2>4, <2>6, QuietStep
<1> QED BY <1>3, <1>4

\* A step that only moves a publisher on.
LEMMA MoveOn ==
    ASSUME PubInv, PublicationAssumption, NEW p \in Publishers, NEW x \in PubPcs, Goes(p, x), UNCHANGED <<place, world>>,
           \A r \in PubRecs : r.pc = x /\ SameWork(r, publisher[p]) => Fine(p, r, files, lock)
    PROVE  PubInv'
<1>1. PubTypes BY DEF PubInv
<1>2. PICK r \in PubRecs : /\ publisher' = [publisher EXCEPT ![p] = r]
                           /\ r.pc = x /\ SameWork(r, publisher[p])
  BY <1>1, GoesDoes
<1>3. Fine(p, r, files, lock) BY <1>2
<1> QED BY <1>2, <1>3, QuietStep

LEMMA RecheckStep ==
    ASSUME PubInv, PublicationAssumption, NEW p \in Publishers, Recheck(p)
    PROVE  PubInv'
<1>1. Fine(p, publisher[p], files, lock) BY DEF PubInv
<1>2. publisher[p].pc = "recheck" /\ UNCHANGED <<place, world>> BY DEF Recheck, Others
<1>3. CASE Backs(p) BY <1>2, <1>3, BackOut
<1>4. CASE Goes(p, "install")
  <2>1. "install" \in PubPcs BY DEF PubPcs
  <2>2. ASSUME NEW r \in PubRecs, r.pc = "install", SameWork(r, publisher[p]) PROVE Fine(p, r, files, lock)
    BY <1>1, <1>2, <2>2 DEF SameWork, Fine, Unlocking, Traced, Progress, Knows, Holds, Succeeded, Rooted, RigRead,
       AllRead, Agreed, Fresh
  <2> QED BY <1>2, <1>4, <2>1, <2>2, MoveOn
<1> QED BY <1>3, <1>4 DEF Recheck

LEMMA InstallStep ==
    ASSUME PubInv, PublicationAssumption, NEW p \in Publishers, Install(p)
    PROVE  PubInv'
<1>1. Fine(p, publisher[p], files, lock) BY DEF PubInv
<1>2. publisher[p].pc = "install" /\ UNCHANGED <<place, world>> BY DEF Install, Others
<1>3. CASE Backs(p) BY <1>2, <1>3, BackOut
<1>4. CASE Goes(p, "link")
  <2>1. "link" \in PubPcs BY DEF PubPcs
  <2>2. ASSUME NEW r \in PubRecs, r.pc = "link", SameWork(r, publisher[p]) PROVE Fine(p, r, files, lock)
    BY <1>1, <1>2, <2>2 DEF SameWork, Fine, Unlocking, Traced, Progress, Knows, Holds, Succeeded, Rooted, RigRead,
       AllRead, Agreed, Fresh
  <2> QED BY <1>2, <1>4, <2>1, <2>2, MoveOn
<1> QED BY <1>3, <1>4 DEF Install

LEMMA VerifyStep ==
    ASSUME PubInv, PublicationAssumption, NEW p \in Publishers, Verify(p)
    PROVE  PubInv'
<1>1. Fine(p, publisher[p], files, lock) BY DEF PubInv
<1>2. publisher[p].pc = "verify" /\ UNCHANGED <<place, world>> BY DEF Verify, Others
<1>3. CASE Backs(p) BY <1>2, <1>3, BackOut
<1>4. CASE Goes(p, "mark")
  <2>1. "mark" \in PubPcs BY DEF PubPcs
  <2>2. ASSUME NEW r \in PubRecs, r.pc = "mark", SameWork(r, publisher[p]) PROVE Fine(p, r, files, lock)
    BY <1>1, <1>2, <2>2 DEF SameWork, Fine, Unlocking, Traced, Progress, Knows, Holds, Succeeded, Rooted, RigRead,
       AllRead, Agreed, Fresh
  <2> QED BY <1>2, <1>4, <2>1, <2>2, MoveOn
<1> QED BY <1>3, <1>4 DEF Verify

LEMMA MarkStep ==
    ASSUME PubInv, PublicationAssumption, NEW p \in Publishers, Mark(p)
    PROVE  PubInv'
<1>1. Fine(p, publisher[p], files, lock) BY DEF PubInv
<1>2. publisher[p].pc = "mark" /\ UNCHANGED <<place, world>> BY DEF Mark, Others
<1>3. CASE Backs(p) BY <1>2, <1>3, BackOut
<1>4. CASE Goes(p, "link mark")
  <2>1. "link mark" \in PubPcs BY DEF PubPcs
  <2>2. ASSUME NEW r \in PubRecs, r.pc = "link mark", SameWork(r, publisher[p]) PROVE Fine(p, r, files, lock)
    BY <1>1, <1>2, <2>2 DEF SameWork, Fine, Unlocking, Traced, Progress, Knows, Holds, Succeeded, Rooted, RigRead,
       AllRead, Agreed, Fresh
  <2> QED BY <1>2, <1>4, <2>1, <2>2, MoveOn
<1> QED BY <1>3, <1>4 DEF Mark

\* A file that was not there is linked; f is the output in turn, or the marker.
LEMMA LinksStep ==
    ASSUME PubInv, PublicationAssumption, NEW p \in Publishers, NEW f \in Files, NEW what \in Views, NEW x \in PubPcs,
           files[f] = None, f # "bundle", Put(f, p, what), Goes(p, x),
           UNCHANGED <<root, made, artifacts, lock, world>>,
           publisher[p].pc \in {"link", "link mark"}, what = publisher[p].view,
           \/ publisher[p].pc = "link" /\ x = "linked" /\ f = Outputs[publisher[p].next]
           \/ publisher[p].pc = "link mark" /\ x = "marked" /\ f = "complete"
    PROVE  PubInv'
<1>1. PubTypes /\ Fine(p, publisher[p], files, lock) BY DEF PubInv
<1>2. PICK r \in PubRecs : /\ publisher' = [publisher EXCEPT ![p] = r]
                           /\ r.pc = x /\ SameWork(r, publisher[p])
  BY <1>1, GoesDoes
<1>3. PICK fs : fs = files' OBVIOUS
<1>4. /\ fs \in [Files -> Written \cup {None}]
      /\ fs[f] # None /\ fs[f].by = p /\ fs[f].what = what
      /\ \A g \in Files : g # f => fs[g] = files[g]
  BY <1>1, <1>3, PutDoes
<1>5. \A g \in Files : Wrote(p, g) BY <1>3, <1>4 DEF Wrote
<1>6. Traced(p, r, fs) BY <1>1, <1>2, <1>4 DEF Fine, Traced, Is, SameWork
<1>7. Progress(r) /\ Knows(r) /\ (lock = p => r.pc \notin Unlocking)
  BY <1>1, <1>2 DEF SameWork, Fine, Unlocking, Progress, Knows, Succeeded, Rooted, RigRead, AllRead, Agreed, Fresh
<1>8. Holds(p, r, fs)
  <2> SUFFICES ASSUME root = r.root PROVE Holds(p, r, fs) BY DEF Holds
  <2>1. /\ r.view.bench \in artifacts
        /\ \A g \in r.owned : Is(files, g, p) /\ files[g].what = r.view /\ files[g].links = 1
    BY <1>1, <1>2 DEF Fine, Holds, SameWork, Agreed, Rooted, AllRead, RigRead
  <2>2. r.owned \subseteq Files BY DEF PubRecs
  <2>3. \A g \in r.owned : Is(fs, g, p) /\ fs[g].what = r.view /\ fs[g].links = 1
    BY <2>1, <2>2, <1>4 DEF Is
  <2>4. Is(fs, f, p) /\ fs[f].what = r.view BY <1>2, <1>4 DEF Is, SameWork
  <2>5. r.pc = "linked" => f = Outputs[r.next] BY <1>2 DEF SameWork
  <2>6. r.pc = "marked" => f = "complete" BY <1>2
  <2>7. r.pc # "unlock" /\ ~Succeeded(r) BY <1>2 DEF Succeeded
  <2> QED BY <2>1, <2>3, <2>4, <2>5, <2>6, <2>7 DEF Holds
<1>9. Fine(p, r, fs, lock) BY <1>6, <1>7, <1>8 DEF Fine
<1> QED BY <1>2, <1>3, <1>4, <1>5, <1>9, OwnStep

LEMMA LinkStep ==
    ASSUME PubInv, PublicationAssumption, NEW p \in Publishers, Link(p)
    PROVE  PubInv'
<1>1. PubTypes /\ Fine(p, publisher[p], files, lock) /\ publisher[p] \in PubRecs BY DEF PubInv, PubTypes
<1>2. publisher[p].pc = "link" /\ UNCHANGED <<root, made, artifacts, lock, world>> BY DEF Link
<1>3. CASE Backs(p) /\ UNCHANGED files BY <1>2, <1>3, BackOut DEF place
<1>4. CASE files[Next1(p)] = None /\ Put(Next1(p), p, What(p, Next1(p))) /\ Goes(p, "linked")
  <2>1. Next1(p) = Outputs[publisher[p].next] BY DEF Next1
  <2>2. Next1(p) \in Files /\ Next1(p) # "bundle"
    <3>1. publisher[p].next \in {1, 2} BY <1>1 DEF PubRecs
    <3> QED BY <2>1, <3>1, FilesKnown DEF FilesAre
  <2>3. What(p, Next1(p)) = publisher[p].view
    BY <1>1, <1>2 DEF What, Fine, Knows, Agreed, Rooted, AllRead, RigRead
  <2>4. publisher[p].view \in Views /\ "linked" \in PubPcs BY <1>1 DEF PubRecs, PubPcs
  <2> QED BY <1>2, <1>4, <2>1, <2>2, <2>3, <2>4, LinksStep
<1> QED BY <1>3, <1>4 DEF Link

LEMMA LinkMarkStep ==
    ASSUME PubInv, PublicationAssumption, NEW p \in Publishers, LinkMark(p)
    PROVE  PubInv'
<1>1. publisher[p] \in PubRecs BY DEF PubInv, PubTypes
<1>2. publisher[p].pc = "link mark" /\ UNCHANGED <<root, made, artifacts, lock, world>> BY DEF LinkMark
<1>3. CASE Backs(p) /\ UNCHANGED files BY <1>2, <1>3, BackOut DEF place
<1>4. CASE files["complete"] = None /\ Put("complete", p, publisher[p].view) /\ Goes(p, "marked")
  <2>1. "complete" \in Files BY FilesKnown DEF FilesAre
  <2>2. publisher[p].view \in Views /\ "marked" \in PubPcs BY <1>1 DEF PubRecs, PubPcs
  <2> QED BY <1>2, <1>4, <2>1, <2>2, LinksStep
<1> QED BY <1>3, <1>4 DEF LinkMark

\* A link that is looked at: the file has one name left, and whose it was it stays.
LEMMA LookFine ==
    ASSUME PubInv, PublicationAssumption, NEW p \in Publishers, NEW f \in Files, NEW fs, fs = Unlinked(f)
    PROVE  /\ fs \in [Files -> Written \cup {None}]
           /\ files' = fs => \A g \in Files : Wrote(p, g)
           /\ \A g \in Files : Is(fs, g, p) <=> Is(files, g, p)
           /\ \A g \in Files : files[g] # None /\ files[g].links = 1 => fs[g].links = 1
           /\ \A g \in Files : fs[g] # None => fs[g].what = files[g].what
           /\ fs[f] # None => fs[f].links = 1
<1>1. PubTypes BY DEF PubInv
<1>2. /\ fs \in [Files -> Written \cup {None}]
      /\ \A g \in Files : /\ fs[g] # None <=> files[g] # None
                          /\ fs[g] # None => fs[g].by = files[g].by /\ fs[g].what = files[g].what
                          /\ files[g] # None /\ files[g].links = 1 => fs[g].links = 1
                          /\ g # f => fs[g] = files[g]
      /\ files[f] # None => fs[f].links = 1
  BY <1>1, UnlinkedDoes
<1>3. ASSUME files' = fs, NEW g \in Files PROVE Wrote(p, g)
  BY <1>2, <1>3 DEF Wrote, Stays
<1> QED BY <1>2, <1>3 DEF Is

LEMMA LinkedStep ==
    ASSUME PubInv, PublicationAssumption, NEW p \in Publishers, Linked(p)
    PROVE  PubInv'
<1>1. PubTypes /\ Fine(p, publisher[p], files, lock) /\ publisher[p] \in PubRecs BY DEF PubInv, PubTypes
<1>2. publisher[p].pc = "linked" /\ UNCHANGED <<root, made, artifacts, lock, world>> BY DEF Linked
<1> DEFINE s == publisher[p]
           f == Outputs[s.next]
<1>3. s.next \in {1, 2} /\ s.owned \subseteq Files BY <1>1 DEF PubRecs
<1>4. f \in Files /\ (s.next = 1 => f = "sources") /\ (s.next = 2 => f = "result") BY <1>3, FilesKnown DEF FilesAre
<1>5. Next1(p) = f BY DEF Next1
<1>6. PICK fs : fs = Unlinked(f) OBVIOUS
<1>7. files' = fs BY <1>2, <1>5, <1>6 DEF Linked
<1>8. /\ fs \in [Files -> Written \cup {None}]
      /\ \A g \in Files : Wrote(p, g)
      /\ \A g \in Files : Is(fs, g, p) <=> Is(files, g, p)
      /\ \A g \in Files : files[g] # None /\ files[g].links = 1 => fs[g].links = 1
      /\ \A g \in Files : fs[g] # None => fs[g].what = files[g].what
      /\ fs[f] # None => fs[f].links = 1
  BY <1>4, <1>6, <1>7, LookFine
<1>9. Traced(p, s, files) /\ Progress(s) /\ Knows(s) /\ Holds(p, s, files) BY <1>1 DEF Fine
<1>10. \A g \in Files : Is(fs, g, p) => g \in s.owned \cup {f}
  BY <1>2, <1>8, <1>9 DEF Traced
<1>11. CASE ~Readable(fs, f)
  <2>1. Goes(p, "cleanup") BY <1>5, <1>6, <1>11 DEF Linked, Backs
  <2>2. "cleanup" \in PubPcs BY DEF PubPcs
  <2>3. PICK r \in PubRecs : /\ publisher' = [publisher EXCEPT ![p] = r]
                             /\ r.pc = "cleanup" /\ SameWork(r, publisher[p])
    BY <1>1, <2>1, <2>2, GoesDoes
  <2>4. fs[f] = None BY <1>8, <1>11 DEF Readable
  <2>5. Traced(p, r, fs) BY <1>10, <2>3, <2>4 DEF Traced, Is, SameWork
  <2>6. Fine(p, r, fs, lock)
    BY <2>3, <2>5 DEF Fine, Unlocking, Progress, Knows, Holds, Succeeded, Rooted, RigRead, AllRead, Agreed, Fresh
  <2> QED BY <1>2, <1>7, <1>8, <2>3, <2>6, OwnStep
<1>12. CASE Readable(fs, f)
  <2> DEFINE x == IF s.next = 2 THEN "verify" ELSE "install"
             n == IF s.next = 2 THEN 2 ELSE s.next + 1
             o == s.owned \cup {f}
             r == [s EXCEPT !.owned = o, !.pc = x, !.next = n]
  <2>1. Len(Outputs) = 2 BY DEF Outputs
  <2>2. publisher' = [publisher EXCEPT ![p] = r]
    BY <1>1, <1>5, <1>6, <1>12, <2>1 DEF Linked, OwnedWith, PubTypes
  <2>3. x \in PubPcs /\ n \in {1, 2} /\ o \subseteq Files BY <1>3, <1>4 DEF PubPcs
  <2>4. \/ s.next = 1 /\ x = "install" /\ n = 2 /\ f = "sources"
        \/ s.next = 2 /\ x = "verify" /\ n = 2 /\ f = "result"
    BY <1>3, <1>4
  <2> HIDE DEF x, n, o
  <2>5. r \in PubRecs BY <1>1, <2>3 DEF PubRecs
  <2>6. r.pc = x /\ r.next = n /\ r.owned = o /\ r.root = s.root /\ r.view = s.view /\ r.staged = s.staged
    BY <1>1 DEF PubRecs
  <2> HIDE DEF r, s, f
  <2>7. o = s.owned \cup {f} BY DEF o
  <2>8. Traced(p, r, fs) BY <1>10, <2>6, <2>7 DEF Traced
  <2>9. Progress(r) BY <1>2, <1>9, <2>4, <2>6, <2>7 DEF Progress, Succeeded, Fresh, s
  <2>10. Knows(r)
    BY <1>2, <1>9, <2>4, <2>6 DEF Knows, Succeeded, Rooted, RigRead, AllRead, Agreed, s
  <2>11. Holds(p, r, fs)
    <3> SUFFICES ASSUME root = r.root PROVE Holds(p, r, fs) BY DEF Holds
    <3>1. /\ r.view.bench \in artifacts
          /\ \A g \in s.owned : Is(files, g, p) /\ files[g].what = r.view /\ files[g].links = 1
          /\ Is(files, f, p) /\ files[f].what = r.view
      BY <1>2, <1>9, <2>6 DEF Holds, Agreed, Rooted, AllRead, RigRead, s, f
    <3>2. \A g \in s.owned : Is(fs, g, p) /\ fs[g].what = r.view /\ fs[g].links = 1
      BY <1>3, <1>8, <3>1 DEF Is, s
    <3>3. Is(fs, f, p) /\ fs[f].what = r.view /\ fs[f].links = 1 BY <1>4, <1>8, <3>1 DEF Is, s, f
    <3>4. \A g \in r.owned : Is(fs, g, p) /\ fs[g].what = r.view /\ fs[g].links = 1
      BY <2>6, <2>7, <3>2, <3>3
    <3>5. r.pc \notin {"linked", "marked", "unlock", "done"} BY <2>4, <2>6
    <3> QED BY <3>1, <3>4, <3>5 DEF Holds, Succeeded
  <2>12. lock = p => r.pc \notin Unlocking BY <2>4, <2>6 DEF Unlocking
  <2>13. Fine(p, r, fs, lock) BY <2>8, <2>9, <2>10, <2>11, <2>12 DEF Fine
  <2> QED BY <1>2, <1>7, <1>8, <2>2, <2>5, <2>13, OwnStep DEF s
<1> QED BY <1>11, <1>12

LEMMA MarkedStep ==
    ASSUME PubInv, PublicationAssumption, NEW p \in Publishers, Marked(p)
    PROVE  PubInv'
<1>1. PubTypes /\ Fine(p, publisher[p], files, lock) /\ publisher[p] \in PubRecs BY DEF PubInv, PubTypes
<1>2. publisher[p].pc = "marked" /\ UNCHANGED <<root, made, artifacts, lock, world>> BY DEF Marked
<1>3. "complete" \in Files /\ "result" \in Files /\ "bundle" \in Files BY FilesKnown DEF FilesAre
<1>4. PICK fs : fs = Unlinked("complete") OBVIOUS
<1>5. files' = fs BY <1>4 DEF Marked
<1>6. /\ fs \in [Files -> Written \cup {None}]
      /\ \A g \in Files : Wrote(p, g)
      /\ \A g \in Files : Is(fs, g, p) <=> Is(files, g, p)
      /\ \A g \in Files : files[g] # None /\ files[g].links = 1 => fs[g].links = 1
      /\ \A g \in Files : fs[g] # None => fs[g].what = files[g].what
      /\ fs["complete"] # None => fs["complete"].links = 1
  BY <1>3, <1>4, <1>5, LookFine
<1> DEFINE s == publisher[p]
           x == IF Published(fs) THEN "unlock" ELSE "cleanup"
           o == s.owned \cup {"complete"}
           r == [s EXCEPT !.owned = o, !.pc = x]
<1>7. Traced(p, s, files) /\ Progress(s) /\ Knows(s) /\ Holds(p, s, files) BY <1>1 DEF Fine
<1>8. s.owned \subseteq Files BY <1>1 DEF PubRecs
<1>9. publisher' = [publisher EXCEPT ![p] = r] BY <1>1, <1>4 DEF Marked, OwnedWith, PubTypes
<1>10. x \in PubPcs /\ o \subseteq Files /\ o = s.owned \cup {"complete"} BY <1>3, <1>8 DEF PubPcs
<1>11. (x = "unlock" /\ Published(fs)) \/ x = "cleanup" OBVIOUS
<1> HIDE DEF x, o
<1>12. r \in PubRecs BY <1>1, <1>10 DEF PubRecs
<1>13. /\ r.pc = x /\ r.next = s.next /\ r.owned = o /\ r.root = s.root /\ r.view = s.view /\ r.staged = s.staged
  BY <1>1 DEF PubRecs
<1> HIDE DEF r, s
<1>14. Traced(p, r, fs) BY <1>2, <1>6, <1>7, <1>10, <1>13 DEF Traced, s
<1>15. Progress(r) BY <1>2, <1>7, <1>10, <1>11, <1>13 DEF Progress, Succeeded, Fresh, s
<1>16. Knows(r) BY <1>2, <1>7, <1>11, <1>13 DEF Knows, Succeeded, Rooted, RigRead, AllRead, Agreed, s
<1>17. Holds(p, r, fs)
  <2> SUFFICES ASSUME root = r.root, x = "unlock" PROVE Holds(p, r, fs)
    BY <1>11, <1>13 DEF Holds, Agreed, Rooted, AllRead, RigRead, Succeeded
  <2>1. /\ r.view.bench \in artifacts
        /\ \A g \in s.owned : Is(files, g, p) /\ files[g].what = r.view /\ files[g].links = 1
        /\ Is(files, "complete", p) /\ files["complete"].what = r.view
    BY <1>2, <1>7, <1>13 DEF Holds, Agreed, Rooted, AllRead, RigRead, s
  <2>2. \A g \in s.owned : Is(fs, g, p) /\ fs[g].what = r.view /\ fs[g].links = 1
    BY <1>6, <1>8, <2>1 DEF Is
  <2>3. Is(fs, "complete", p) /\ fs["complete"].what = r.view /\ fs["complete"].links = 1
    BY <1>3, <1>6, <2>1 DEF Is
  <2>4. \A g \in r.owned : Is(fs, g, p) /\ fs[g].what = r.view /\ fs[g].links = 1
    BY <1>10, <1>13, <2>2, <2>3
  <2>5. "result" \in s.owned BY <1>2, <1>7 DEF Progress, s
  <2>6. BundleClosed(fs) BY <1>11 DEF Published
  <2>7. Is(fs, "bundle", r.view.bench) /\ fs["bundle"].links = 1
    BY <2>2, <2>5, <2>6 DEF BundleClosed, Readable, Is
  <2>8. r.pc \notin {"linked", "marked", "done"} BY <1>13
  <2> QED BY <2>1, <2>4, <2>7, <2>8 DEF Holds, Succeeded
<1>18. lock = p => r.pc \notin Unlocking BY <1>11, <1>13 DEF Unlocking
<1>19. Fine(p, r, fs, lock) BY <1>14, <1>15, <1>16, <1>17, <1>18 DEF Fine
<1> QED BY <1>2, <1>5, <1>6, <1>9, <1>12, <1>19, OwnStep DEF s

\* The lock is left, with an end.
LEMMA LeavesStep ==
    ASSUME PubInv, PublicationAssumption, NEW p \in Publishers, NEW e \in Nat, Ends(p, e), lock' = Unlocked(p),
           UNCHANGED <<root, made, artifacts, files, world>>,
           \/ publisher[p].pc = "unlock" /\ e = 0
           \/ publisher[p].pc = "cleanup" /\ publisher[p].owned = {} /\ e # 0
    PROVE  PubInv'
<1>1. PubTypes /\ Fine(p, publisher[p], files, lock) BY DEF PubInv
<1>2. PICK r \in PubRecs : /\ publisher' = [publisher EXCEPT ![p] = r]
                           /\ r.pc = "done" /\ r.exit = e /\ SameWork(r, publisher[p])
  BY <1>1, EndsDoes
<1>3. Unlocked(p) # p /\ Unlocked(p) \in {lock, p, None} BY DEF Unlocked, PublicationAssumption
<1>4. Fine(p, r, files, Unlocked(p))
  BY <1>1, <1>2, <1>3 DEF SameWork, Fine, Unlocking, Traced, Progress, Knows, Holds, Succeeded, Rooted, RigRead,
     AllRead, Agreed, Fresh
<1>5. \A f \in Files : Wrote(p, f) BY DEF Wrote
<1>6. files' \in [Files -> Written \cup {None}] BY <1>1 DEF PubTypes
<1> QED BY <1>2, <1>3, <1>4, <1>5, <1>6, OwnStep

\* One of the files that are owned goes, unless it is not one's own any more.
LEMMA CleanupStep ==
    ASSUME PubInv, PublicationAssumption, NEW p \in Publishers, Cleanup(p)
    PROVE  PubInv'
<1>1. PubTypes /\ Fine(p, publisher[p], files, lock) /\ publisher[p] \in PubRecs BY DEF PubInv, PubTypes
<1>2. publisher[p].pc = "cleanup" /\ UNCHANGED <<root, made, artifacts, lock, world>> BY DEF Cleanup
<1> DEFINE s == publisher[p]
           f == LastOwned(p)
           o == s.owned \ {f}
           r == [s EXCEPT !.owned = o]
<1> HIDE DEF f
<1>3. publisher' = [publisher EXCEPT ![p] = r] BY <1>1 DEF Cleanup, PubTypes, f
<1>4. files' = IF Is(files, f, p) THEN [files EXCEPT ![f] = None] ELSE files BY DEF Cleanup, Mine, Is, f
<1>5. o \subseteq Files /\ o = s.owned \ {f} BY <1>1 DEF PubRecs
<1> HIDE DEF o
<1>6. r \in PubRecs BY <1>1, <1>5 DEF PubRecs
<1>7. r.pc = "cleanup" /\ r.owned = o BY <1>1, <1>2 DEF PubRecs
<1> HIDE DEF r
<1>8. files \in [Files -> Written \cup {None}] BY <1>1 DEF PubTypes
<1>9. \A g \in Files : files'[g] = IF g = f /\ Is(files, f, p) THEN None ELSE files[g]
  BY <1>4, <1>8
<1>10. files' \in [Files -> Written \cup {None}] BY <1>4, <1>8
<1>11. \A g \in Files : Wrote(p, g) BY <1>9 DEF Wrote, Is
<1>12. Traced(p, r, files')
  <2> SUFFICES ASSUME NEW g \in Files, Is(files', g, p) PROVE g \in r.owned BY DEF Traced
  <2>1. Is(files, g, p) /\ g # f BY <1>9 DEF Is
  <2>2. g \in s.owned BY <1>1, <1>2, <2>1 DEF Fine, Traced
  <2> QED BY <1>5, <1>7, <2>1, <2>2
<1>13. Fine(p, r, files', lock)
  BY <1>7, <1>12 DEF Fine, Unlocking, Progress, Knows, Holds, Succeeded, Rooted, RigRead, AllRead, Agreed, Fresh
<1>14. PICK fs : fs = files' OBVIOUS
<1>15. Fine(p, r, fs, lock) BY <1>13, <1>14
<1> QED BY <1>2, <1>3, <1>6, <1>10, <1>11, <1>14, <1>15, OwnStep

LEMMA PublisherKilled ==
    ASSUME PubInv, PublicationAssumption, NEW p \in Publishers, KillPublisher(p)
    PROVE  PubInv'
<1>1. "killed" \in PubPcs BY DEF PubPcs
<1>2. Goes(p, "killed") /\ UNCHANGED <<place, world>> BY DEF KillPublisher
<1>3. \A r \in PubRecs : r.pc = "killed" /\ SameWork(r, publisher[p]) => Fine(p, r, files, lock) BY KilledFine
<1> QED BY <1>1, <1>2, <1>3, MoveOn

LEMMA PublisherFails ==
    ASSUME PubInv, PublicationAssumption, NEW p \in Publishers, Fail(p)
    PROVE  PubInv'
BY BackOut DEF Fail

LEMMA PubStarts == PubInit /\ PublicationAssumption => PubInv
<1> SUFFICES ASSUME PubInit, PublicationAssumption PROVE PubInv OBVIOUS
<1>1. NoView \in Views BY DEF NoView, Views
<1> DEFINE new == [pc |-> "start", exit |-> 0, view |-> NoView, staged |-> NoView, root |-> 0, next |-> 1, owned |-> {}]
<1>2. publisher = [p \in Publishers |-> new] BY DEF PubInit
<1> HIDE DEF NoView
<1>3. new \in PubRecs BY <1>1 DEF PubRecs, PubPcs
<1>4. new.pc = "start" /\ new.owned = {} /\ new.next = 1 OBVIOUS
<1> HIDE DEF new
<1>5. PubTypes
  <2>1. files \in [Files -> Written \cup {None}] /\ \A f \in Files : files[f] = None BY DEF PubInit
  <2>2. world \in [Sources -> {1, 2}] BY DEF PubInit, Registered
  <2> QED BY <1>2, <1>3, <2>1, <2>2 DEF PubInit, PubTypes
<1>6. ASSUME NEW p \in Publishers PROVE Fine(p, publisher[p], files, lock)
  <2>1. publisher[p] = new BY <1>2
  <2>2. lock # p BY DEF PubInit, PublicationAssumption
  <2>3. \A f \in Files : ~Is(files, f, p) BY DEF PubInit, Is
  <2> QED BY <1>4, <2>1, <2>2, <2>3 DEF Fine, Unlocking, Traced, Progress, Knows, Holds, Succeeded, Rooted, RigRead,
          AllRead, Agreed, Fresh
<1> QED BY <1>5, <1>6 DEF PubInv

LEMMA PubSteps == PubInv /\ PublicationAssumption /\ [PubNext]_pubVars => PubInv'
<1> SUFFICES ASSUME PubInv, PublicationAssumption, [PubNext]_pubVars PROVE PubInv' OBVIOUS
<1>1. CASE BencherSteps
  <2>1. PubTypes' /\ \A p \in Publishers : Undisturbed(p) BY <1>1, BenchersDisturbNobody
  <2>2. \A p \in Publishers : Fine(p, publisher[p], files, lock)' BY <2>1, StillFine
  <2> QED BY <2>1, <2>2 DEF PubInv
<1>2. ASSUME NEW p \in Publishers,
             \/ ReadBench(p) \/ ReadRig(p) \/ ReadDogfood(p) \/ Open(p) \/ Lock(p) \/ Check(p)
             \/ Stage(p) \/ Recheck(p) \/ Install(p) \/ Link(p)
      PROVE  PubInv'
  BY <1>2, ReadBenchStep, ReadRigStep, ReadDogfoodStep, OpenStep, LockStep, CheckStep, StageStep, RecheckStep, InstallStep,
     LinkStep
<1>3. ASSUME NEW p \in Publishers,
             \/ Linked(p) \/ Verify(p) \/ Mark(p) \/ LinkMark(p) \/ Marked(p)
             \/ Cleanup(p) \/ KillPublisher(p) \/ Fail(p)
      PROVE  PubInv'
  BY <1>3, LinkedStep, VerifyStep, MarkStep, LinkMarkStep, MarkedStep, CleanupStep, PublisherKilled, PublisherFails
<1>4. ASSUME NEW p \in Publishers, Unlock(p) PROVE PubInv' BY <1>4, LeavesStep DEF Unlock
<1>5. ASSUME NEW p \in Publishers, CleanedUp(p) PROVE PubInv' BY <1>5, LeavesStep DEF CleanedUp
<1> QED BY <1>1, <1>2, <1>3, <1>4, <1>5 DEF PubNext, Idle, BencherSteps

LEMMA PubInvariant == PubSpec => []PubInv
<1>1. PublicationAssumption => (PubInit => PubInv) BY PubStarts
<1>2. PublicationAssumption => (PubInv /\ [PubNext]_pubVars => PubInv') BY PubSteps
<1> QED BY <1>1, <1>2, PublicationAssumption, PTL DEF PubSpec

\* A measurement that was accepted is whole for as long as its attempt is there, however many
\* publishers and benchers work on the attempts, and whatever is killed, edited or removed.
THEOREM AcceptedStaysWhole == PubSpec => []AcceptedIsWhole
<1>1. PubInv => AcceptedIsWhole
  <2> SUFFICES ASSUME PubInv, NEW p \in Publishers, Accepted(p)
               PROVE  /\ \A f \in Range(Outputs) \cup {"complete"} :
                            Readable(files, f) /\ files[f].by = p /\ files[f].what = publisher[p].view
                      /\ BundleHolds /\ files["bundle"].by = publisher[p].view.bench
                      /\ \A s \in Sources : publisher[p].view[s] = Registered
    BY DEF AcceptedIsWhole
  <2> DEFINE r == publisher[p]
  <2>1. Fine(p, r, files, lock) /\ Succeeded(r) /\ root = r.root BY DEF PubInv, Accepted, Succeeded
  <2>2. {"sources", "result", "complete"} \subseteq r.owned BY <2>1 DEF Fine, Progress
  <2>3. /\ r.view.bench \in artifacts
        /\ \A f \in r.owned : Is(files, f, p) /\ files[f].what = r.view /\ files[f].links = 1
        /\ Is(files, "bundle", r.view.bench) /\ files["bundle"].links = 1
    BY <2>1 DEF Fine, Holds
  <2>4. Range(Outputs) \cup {"complete"} \subseteq r.owned BY <2>2, FilesKnown
  <2>5. \A f \in Range(Outputs) \cup {"complete"} :
           Readable(files, f) /\ files[f].by = p /\ files[f].what = r.view
    BY <2>3, <2>4 DEF Is, Readable
  <2>6. BundleHolds /\ files["bundle"].by = r.view.bench BY <2>3 DEF BundleHolds, Is, Readable
  <2>7. r.view.rig = Registered /\ r.view.dogfood = Registered BY <2>1 DEF Fine, Knows
  <2>8. r.view \in Views BY DEF PubInv, PubTypes, PubRecs
  <2>9. \A s \in Sources : r.view[s] = Registered BY <2>7, <2>8 DEF Sources, Views
  <2> QED BY <2>5, <2>6, <2>9
<1> QED BY <1>1, PubInvariant, PTL


\* A publisher that is refused has neither a file nor the lock any more.
THEOREM RefusedIsGone == PubSpec => []RefusedLeavesNothing
<1>1. PubInv => RefusedLeavesNothing
  <2> SUFFICES ASSUME PubInv, NEW p \in Publishers, publisher[p].pc = "done", publisher[p].exit # 0
               PROVE  lock # p /\ \A f \in Files : files[f] = None \/ files[f].by # p
    BY DEF RefusedLeavesNothing
  <2> DEFINE r == publisher[p]
  <2>1. Fine(p, r, files, lock) BY DEF PubInv
  <2>2. lock # p BY <2>1 DEF Fine, Unlocking
  <2>3. r.owned = {} BY <2>1 DEF Fine, Progress
  <2>4. \A f \in Files : ~Is(files, f, p) BY <2>1, <2>3 DEF Fine, Traced
  <2> QED BY <2>2, <2>4 DEF Is
<1> QED BY <1>1, PubInvariant, PTL

(***************************************************************************)
(* The replay of a benchmark (Bench).                                      *)
(***************************************************************************)

\* The same, of a benchmark that is given.
SlotsOf(b) == DOMAIN b.reviewers
CriticOf(b) == Len(b.reviewers) + 1
AgentsOf(b) == 1 .. CriticOf(b)

\* What is asked of a reviewer or of the critic ends with the attempt k, answered by r.
LastOf(b, a, k, r) ==
    \/ r.out = "return" /\ r.ok
    \/ r.out # "return" /\ a \in SlotsOf(b)
    \/ k = IF a \in SlotsOf(b) THEN b.attempts ELSE b.criticAttempts
Final(b, t) == LastOf(b, t.agent, t.try, t.answer)

Reported(b, r) == r.out = "return" /\ r.ok /\ r.text \in b.findings
FoundIn(b, t) == t.agent \in SlotsOf(b) /\ Final(b, t) /\ Reported(b, t.answer)

IsAnswered(t) ==
    t = [row |-> t.row, agent |-> t.agent, try |-> t.try, ordinal |-> t.ordinal, prompt |-> t.prompt, answer |-> t.answer]
SamePlace(t, u) == t.row = u.row /\ t.agent = u.agent /\ t.try = u.try

\* A history, as the calls of a profile are made: row after row, attempt after
\* attempt, the critic last; nobody is asked again who had ended.
Orderly(b, H) ==
    /\ \A t \in H : /\ IsAnswered(t) /\ t.row \in Nat /\ t.agent \in AgentsOf(b)
                    /\ t.try \in Nat \ {0} /\ t.ordinal \in Nat
    /\ \A t, u \in H : t.ordinal = u.ordinal \/ SamePlace(t, u) => t = u
    /\ \A t, u \in H : t.row < u.row => t.ordinal < u.ordinal
    /\ \A t, u \in H : t.row = u.row /\ t.agent = u.agent /\ t.try < u.try => t.ordinal < u.ordinal
    /\ \A t, u \in H : t.row = u.row /\ t.agent # CriticOf(b) /\ u.agent = CriticOf(b) => t.ordinal < u.ordinal
    /\ \A t \in H : \A k \in 1 .. t.try - 1 :
          \E u \in H : u.row = t.row /\ u.agent = t.agent /\ u.try = k /\ ~Final(b, u)
    /\ \A t \in H : t.agent = CriticOf(b) => b.critic /\ \E u \in H : u.row = t.row /\ FoundIn(b, u)

\* Nothing is missing in row n.
RowClosed(b, H, n) ==
    /\ \A s \in SlotsOf(b) : \E t \in H : t.row = n /\ t.agent = s /\ t.try = 1
    /\ \A t \in H : t.row = n /\ ~Final(b, t) => \E u \in H : u.row = n /\ u.agent = t.agent /\ u.try = t.try + 1
    /\ b.critic /\ (\E t \in H : t.row = n /\ FoundIn(b, t))
          => \E u \in H : u.row = n /\ u.agent = CriticOf(b) /\ u.try = 1

Numbered(H, T) == (\A t \in H : t.ordinal < T) /\ \A o \in 0 .. T - 1 : \E t \in H : t.ordinal = o

Lawful(b, H, T, n) ==
    /\ Orderly(b, H) /\ Numbered(H, T)
    /\ \A t \in H : t.row \in 1 .. n
    /\ \A m \in 1 .. n : RowClosed(b, H, m)

\* Two histories in which the same agent is given the same answer at each number.
Agree(H, G) ==
    \A h \in H, g \in G : h.ordinal = g.ordinal => h.agent = g.agent /\ h.prompt = g.prompt /\ h.answer = g.answer

\* Induction over the numbers, with a set for the predicate.
LEMMA Induct ==
  ASSUME NEW T, 0 \in T, \A n \in Nat : n \in T => n + 1 \in T, NEW m \in Nat
  PROVE  m \in T
  <1> DEFINE All == 0 .. m
             Without == {X \in SUBSET All : \E k \in All : X = 0 .. k /\ k \notin T}
  <1>1. SUFFICES ASSUME m \notin T PROVE FALSE
    OBVIOUS
  <1>2. IsFiniteSet(All)
    BY FS_Interval
  <1>3. Without \subseteq FiniteSubsetsOf(All)
    BY <1>2, FS_Subset DEF FiniteSubsetsOf
  <1>4. All \in Without
    <2>1. m \in All
      OBVIOUS
    <2> QED BY <1>1, <2>1
  <1>5. PICK X \in Without : \A Y \in Without : <<Y, X>> \notin StrictSubsetOrdering(All)
    <2> HIDE DEF Without, All
    <2>1. IsWellFoundedOn(StrictSubsetOrdering(All), FiniteSubsetsOf(All))
      BY FS_StrictSubsetOrderingWellFounded
    <2> QED BY <1>3, <1>4, <2>1, WFMin
  <1>6. PICK k \in All : X = 0 .. k /\ k \notin T
    OBVIOUS
  <1>7. k # 0 /\ k - 1 \in All /\ k - 1 \notin T
    <2>1. k # 0 /\ k - 1 \in Nat /\ (k - 1) + 1 = k
      BY <1>6
    <2> QED BY <1>6, <2>1
  <1>8. 0 .. (k - 1) \subseteq X /\ k \in X /\ k \notin 0 .. (k - 1) /\ 0 .. (k - 1) \subseteq All
    BY <1>6, <1>7
  <1>9. 0 .. (k - 1) \in Without
    <2>1. 0 .. (k - 1) \in SUBSET All
      BY <1>8
    <2> QED BY <1>7, <2>1
  <1>10. <<0 .. (k - 1), X>> \in StrictSubsetOrdering(All)
    BY <1>8, <1>9 DEF StrictSubsetOrdering
  <1> QED BY <1>5, <1>9, <1>10

LEMMA NotAhead ==
  ASSUME NEW b, b.reviewers \in Seq(Range(b.reviewers)), NEW T \in Nat, NEW n \in Nat, NEW H, Lawful(b, H, T, n), NEW G, Lawful(b, G, T, n),
         Agree(H, G), NEW h \in H, NEW g \in G, h.ordinal = g.ordinal,
         \A t \in H, u \in G : t.ordinal = u.ordinal /\ t.ordinal < h.ordinal => SamePlace(t, u)
  PROVE  ~(h.row < g.row) /\ ~(h.row = g.row /\ h.try < g.try)
  <1>1. /\ h.agent = g.agent /\ h.row \in 1 .. n /\ h.try \in Nat \ {0} /\ h.ordinal \in Nat /\ h.ordinal < T
        /\ h.agent \in AgentsOf(b) /\ g.try \in Nat \ {0} /\ g.row \in 1 .. n
    BY DEF Agree, Lawful, Orderly, Numbered
  <1>2. ASSUME NEW u \in G, u.ordinal < h.ordinal, SamePlace(u, h) PROVE FALSE
    <2>1. u.ordinal \in 0 .. T - 1
      BY <1>1, <1>2 DEF Lawful, Orderly
    <2>2. PICK t \in H : t.ordinal = u.ordinal
      BY <2>1 DEF Lawful, Numbered
    <2>3. SamePlace(t, u)
      BY <1>2, <2>2
    <2>4. SamePlace(t, h)
      BY <1>2, <2>3 DEF SamePlace
    <2>5. t = h
      BY <2>2, <2>4 DEF Lawful, Orderly
    <2> QED BY <1>1, <1>2, <2>2, <2>5
  <1>3. ASSUME NEW t \in H, t.ordinal < h.ordinal
        PROVE  \E u \in G : SamePlace(t, u) /\ t.answer = u.answer
    <2>1. t.ordinal \in 0 .. T - 1
      BY <1>1, <1>3 DEF Lawful, Orderly
    <2>2. PICK u \in G : u.ordinal = t.ordinal
      BY <2>1 DEF Lawful, Numbered
    <2> QED BY <1>3, <2>2 DEF Agree
  <1>4. ~(h.row = g.row /\ h.try < g.try)
    <2>1. SUFFICES ASSUME h.row = g.row, h.try < g.try PROVE FALSE
      OBVIOUS
    <2>2. h.try \in 1 .. g.try - 1
      BY <1>1, <2>1
    <2>3. PICK u \in G : u.row = g.row /\ u.agent = g.agent /\ u.try = h.try
      BY <2>2 DEF Lawful, Orderly
    <2>4. u.ordinal < g.ordinal
      BY <2>1, <2>3 DEF Lawful, Orderly
    <2>5. SamePlace(u, h)
      BY <1>1, <2>1, <2>3 DEF SamePlace
    <2> QED BY <1>2, <2>4, <2>5
  <1>5. ~(h.row < g.row)
    <2>1. SUFFICES ASSUME h.row < g.row PROVE FALSE
      OBVIOUS
    <2>2. RowClosed(b, G, h.row)
      BY <1>1 DEF Lawful
    <2>3. SUFFICES ASSUME \A u \in G : ~SamePlace(u, h) PROVE FALSE
      <3>1. \A u \in G : u.row = h.row => u.ordinal < g.ordinal
        BY <2>1 DEF Lawful, Orderly
      <3> QED BY <1>2, <3>1 DEF SamePlace
    <2>4. CASE h.try = 1 /\ h.agent \in SlotsOf(b)
      BY <2>2, <2>3, <2>4 DEF RowClosed, SamePlace
    <2>5. CASE h.try = 1 /\ h.agent = CriticOf(b)
      <3>1. b.critic /\ \E f \in H : f.row = h.row /\ FoundIn(b, f)
        BY <2>5 DEF Lawful, Orderly
      <3>2. PICK f \in H : f.row = h.row /\ FoundIn(b, f)
        BY <3>1
      <3>3. f.ordinal < h.ordinal
        <4>1. f.agent # CriticOf(b)
          BY <3>2, <2>5, <1>1 DEF FoundIn, SlotsOf, CriticOf
        <4> QED BY <2>5, <3>2, <4>1 DEF Lawful, Orderly
      <3>4. PICK u \in G : SamePlace(f, u) /\ f.answer = u.answer
        BY <1>3, <3>3
      <3>5. u.row = h.row /\ FoundIn(b, u)
        BY <3>2, <3>4 DEF FoundIn, Final, SamePlace
      <3> QED BY <2>2, <2>3, <2>5, <3>1, <3>5 DEF RowClosed, SamePlace
    <2>6. CASE h.try # 1
      <3>1. h.try - 1 \in 1 .. h.try - 1
        BY <1>1, <2>6
      <3>2. PICK p \in H : p.row = h.row /\ p.agent = h.agent /\ p.try = h.try - 1 /\ ~Final(b, p)
        BY <3>1 DEF Lawful, Orderly
      <3>3. p.ordinal < h.ordinal
        BY <1>1, <3>2 DEF Lawful, Orderly
      <3>4. PICK u \in G : SamePlace(p, u) /\ p.answer = u.answer
        BY <1>3, <3>3
      <3>5. u.row = h.row /\ u.agent = h.agent /\ u.try = h.try - 1 /\ ~Final(b, u)
        BY <3>2, <3>4 DEF Final, SamePlace
      <3>6. PICK w \in G : w.row = h.row /\ w.agent = u.agent /\ w.try = u.try + 1
        BY <2>2, <3>5 DEF RowClosed
      <3>7. SamePlace(w, h)
        BY <1>1, <3>5, <3>6 DEF SamePlace
      <3> QED BY <2>3, <3>7
    <2>7. h.agent \in SlotsOf(b) \/ h.agent = CriticOf(b)
      BY <1>1 DEF SlotsOf, AgentsOf, CriticOf
    <2> QED BY <2>4, <2>5, <2>6, <2>7
  <1> QED BY <1>4, <1>5

\* Then every number has the same place in both: they are one history.
LEMMA OneHistory ==
  ASSUME NEW b, b.reviewers \in Seq(Range(b.reviewers)), NEW T \in Nat, NEW n \in Nat,
         NEW H, Lawful(b, H, T, n), NEW G, Lawful(b, G, T, n), Agree(H, G)
  PROVE  H = G
  <1> DEFINE P == {m \in Nat : \A h \in H, g \in G : h.ordinal = g.ordinal /\ h.ordinal < m => SamePlace(h, g)}
  <1>1. 0 \in P
    BY DEF Lawful, Orderly
  <1>2. ASSUME NEW m \in Nat, m \in P PROVE m + 1 \in P
    <2>1. SUFFICES ASSUME NEW h \in H, NEW g \in G, h.ordinal = g.ordinal, h.ordinal < m + 1 PROVE SamePlace(h, g)
      OBVIOUS
    <2>2. h.ordinal \in Nat /\ \A t \in H : t.ordinal \in Nat
      BY DEF Lawful, Orderly
    <2>3. \A t \in H, u \in G : t.ordinal = u.ordinal /\ t.ordinal < h.ordinal => SamePlace(t, u)
      BY <1>2, <2>1, <2>2
    <2>4. \A u \in G, t \in H : u.ordinal = t.ordinal /\ u.ordinal < g.ordinal => SamePlace(u, t)
      BY <2>1, <2>3 DEF SamePlace
    <2>5. Agree(G, H)
      BY DEF Agree
    <2>6. ~(h.row < g.row) /\ ~(h.row = g.row /\ h.try < g.try)
      BY <2>1, <2>3, NotAhead
    <2>7. ~(g.row < h.row) /\ ~(g.row = h.row /\ g.try < h.try)
      BY <2>1, <2>4, <2>5, NotAhead
    <2>8. h.row \in Nat /\ g.row \in Nat /\ h.try \in Nat /\ g.try \in Nat
      BY DEF Lawful, Orderly
    <2> QED BY <2>1, <2>6, <2>7, <2>8 DEF SamePlace, Agree
  <1>3. T \in P
    <2> HIDE DEF P
    <2> QED BY <1>1, <1>2, Induct
  <1>4. ASSUME NEW h \in H PROVE h \in G
    <2>1. h.ordinal \in 0 .. T - 1
      BY DEF Lawful, Orderly, Numbered
    <2>2. PICK g \in G : g.ordinal = h.ordinal
      BY <2>1 DEF Lawful, Numbered
    <2>3. SamePlace(h, g)
      BY <1>3, <2>1, <2>2
    <2>4. h.prompt = g.prompt /\ h.answer = g.answer /\ IsAnswered(h) /\ IsAnswered(g)
      BY <2>2 DEF Agree, Lawful, Orderly
    <2>5. h = g
      BY <2>2, <2>3, <2>4 DEF IsAnswered, SamePlace
    <2> QED BY <2>5
  <1>5. ASSUME NEW g \in G PROVE g \in H
    <2>1. g.ordinal \in 0 .. T - 1
      BY DEF Lawful, Orderly, Numbered
    <2>2. PICK h \in H : h.ordinal = g.ordinal
      BY <2>1 DEF Lawful, Numbered
    <2>3. SamePlace(h, g)
      BY <1>3, <2>1, <2>2
    <2>4. h.prompt = g.prompt /\ h.answer = g.answer /\ IsAnswered(h) /\ IsAnswered(g)
      BY <2>2 DEF Agree, Lawful, Orderly
    <2>5. h = g
      BY <2>2, <2>3, <2>4 DEF IsAnswered, SamePlace
    <2> QED BY <2>5
  <1> QED BY <1>4, <1>5

(***************************************************************************)
(* One case.                                                               *)
(***************************************************************************)

IsCall(c) ==
    /\ DOMAIN c = {"state", "try", "ordinal", "answer", "texts"}
    /\ c.state \in {"unasked", "asked", "done"} /\ c.try \in Nat

\* The history has of the call c of agent a, in row n, what was answered, and this did
\* not end it, unless it is done.
Heard(b, H, c, a, n) ==
    /\ c.try = 0 <=> c.state = "unasked"
    /\ \A t \in H : t.row = n /\ t.agent = a =>
          /\ t.try \in 1 .. IF c.state = "asked" THEN c.try - 1 ELSE c.try
          /\ IF c.state = "done" /\ t.try = c.try THEN Final(b, t) /\ t.answer = c.answer ELSE ~Final(b, t)
    /\ \A k \in 1 .. IF c.state = "asked" THEN c.try - 1 ELSE c.try :
          \E t \in H : t.row = n /\ t.agent = a /\ t.try = k

\* An attempt that runs is a number of its own, later than what it follows.
Pending(b, H, c, a, n, T) ==
    c.state = "asked" =>
        /\ c.ordinal \in Nat /\ c.ordinal < T
        /\ \A t \in H : /\ t.ordinal # c.ordinal
                        /\ t.row < n \/ t.agent = a \/ a = CriticOf(b) => t.ordinal < c.ordinal

Calling(b, cs) ==
    /\ cs = [a \in AgentsOf(b) |-> cs[a]] /\ \A a \in AgentsOf(b) : IsCall(cs[a])
    /\ \A a, c \in AgentsOf(b) :
          cs[a].state = "asked" /\ cs[c].state = "asked" /\ cs[a].ordinal = cs[c].ordinal => a = c

CriticLast(b, cs) ==
    cs[CriticOf(b)].state # "unasked" =>
        /\ b.critic
        /\ \A s \in SlotsOf(b) : cs[s].state = "done"
        /\ \E s \in SlotsOf(b) : Reported(b, cs[s].answer)

\* Up to T each number has been answered, or is yet to be.
NumberedTo(b, H, cs, T) ==
    /\ \A t \in H : t.ordinal < T
    /\ \A o \in 0 .. T - 1 : \/ \E t \in H : t.ordinal = o
                             \/ \E a \in AgentsOf(b) : cs[a].state = "asked" /\ cs[a].ordinal = o

InCase(b, H, cs, T, n) ==
    /\ T \in Nat /\ n \in Nat \ {0}
    /\ Orderly(b, H) /\ \A t \in H : t.row \in 1 .. n
    /\ Calling(b, cs) /\ CriticLast(b, cs)
    /\ \A a \in AgentsOf(b) : Heard(b, H, cs[a], a, n) /\ Pending(b, H, cs[a], a, n, T)
    /\ NumberedTo(b, H, cs, T)
    /\ \A m \in 1 .. n - 1 : RowClosed(b, H, m)

LEMMA AgentsAre ==
  ASSUME NEW b, b.reviewers \in Seq(Range(b.reviewers))
  PROVE  /\ Len(b.reviewers) \in Nat /\ SlotsOf(b) = 1 .. Len(b.reviewers)
         /\ CriticOf(b) \in Nat /\ CriticOf(b) \notin SlotsOf(b)
         /\ SlotsOf(b) \subseteq AgentsOf(b) /\ AgentsOf(b) = SlotsOf(b) \cup {CriticOf(b)}
         /\ AgentsOf(b) \subseteq Nat /\ CriticOf(b) \in AgentsOf(b)
  BY DEF SlotsOf, CriticOf, AgentsOf

\* An attempt begins: the agent's first, or the next after an answer t.
LEMMA AttemptBegins ==
  ASSUME NEW b, b.reviewers \in Seq(Range(b.reviewers)), NEW H, NEW cs, NEW T, NEW n, InCase(b, H, cs, T, n),
         NEW a \in AgentsOf(b), cs[a].state = "unasked", NEW d, IsCall(d), d.state = "asked", d.try = 1, d.ordinal = T,
         a = CriticOf(b) => /\ b.critic
                            /\ \A s \in SlotsOf(b) : cs[s].state = "done"
                            /\ \E s \in SlotsOf(b) : Reported(b, cs[s].answer),
         cs[CriticOf(b)].state = "unasked"
  PROVE  InCase(b, H, [cs EXCEPT ![a] = d], T + 1, n)
  <1> DEFINE ds == [cs EXCEPT ![a] = d]
  <1>1. /\ T \in Nat /\ n \in Nat \ {0} /\ Orderly(b, H) /\ \A t \in H : t.row \in 1 .. n
        /\ Calling(b, cs) /\ CriticLast(b, cs) /\ NumberedTo(b, H, cs, T)
        /\ \A m \in 1 .. n - 1 : RowClosed(b, H, m)
    BY DEF InCase
  <1>2. \A c \in AgentsOf(b) : Heard(b, H, cs[c], c, n) /\ Pending(b, H, cs[c], c, n, T)
    BY DEF InCase
  <1>3. ds[a] = d /\ (\A c \in AgentsOf(b) : c # a => ds[c] = cs[c]) /\ ds = [c \in AgentsOf(b) |-> ds[c]]
    BY <1>1 DEF Calling
  <1> HIDE DEF ds
  <1>4. \A t \in H : t.ordinal \in Nat /\ t.ordinal < T
    BY <1>1 DEF Orderly, NumberedTo
  <1>5. Calling(b, ds)
    <2>1. \A c \in AgentsOf(b) : IsCall(ds[c])
      BY <1>1, <1>3 DEF Calling
    <2>2. \A c \in AgentsOf(b) : c # a /\ ds[c].state = "asked" => ds[c].ordinal \in Nat /\ ds[c].ordinal < T
      BY <1>2, <1>3 DEF Pending
    <2>3. \A c, e \in AgentsOf(b) :
            ds[c].state = "asked" /\ ds[e].state = "asked" /\ ds[c].ordinal = ds[e].ordinal => c = e
      BY <1>1, <1>3, <2>2 DEF Calling
    <2> QED BY <1>3, <2>1, <2>3 DEF Calling
  <1>6. CriticLast(b, ds)
    <2>1. CASE a = CriticOf(b)
      <3>1. \A s \in SlotsOf(b) : ds[s] = cs[s]
        BY <1>3, <2>1, AgentsAre
      <3> QED BY <2>1, <3>1 DEF CriticLast
    <2>2. CASE a # CriticOf(b)
      BY <1>3, <2>2, AgentsAre DEF CriticLast
    <2> QED BY <2>1, <2>2
  <1>7. ASSUME NEW c \in AgentsOf(b) PROVE Heard(b, H, ds[c], c, n) /\ Pending(b, H, ds[c], c, n, T + 1)
    <2>1. CASE c = a
      <3>1. Heard(b, H, cs[a], a, n)
        BY <1>2
      <3>2. cs[a].try = 0 /\ \A t \in H : ~(t.row = n /\ t.agent = a)
        BY <3>1 DEF Heard
      <3>3. Heard(b, H, d, a, n)
        BY <3>2 DEF Heard
      <3>4. Pending(b, H, d, a, n, T + 1)
        BY <1>1, <1>4 DEF Pending
      <3> QED BY <1>3, <2>1, <3>3, <3>4
    <2>2. CASE c # a
      <3>1. Pending(b, H, cs[c], c, n, T + 1)
        BY <1>1, <1>2 DEF Pending
      <3> QED BY <1>2, <1>3, <2>2, <3>1
    <2> QED BY <2>1, <2>2
  <1>8. NumberedTo(b, H, ds, T + 1)
    <2>1. ASSUME NEW o \in 0 .. (T + 1) - 1, ~ \E t \in H : t.ordinal = o
          PROVE  \E c \in AgentsOf(b) : ds[c].state = "asked" /\ ds[c].ordinal = o
      <3>1. CASE o = T
        BY <1>3, <3>1
      <3>2. CASE o # T
        <4>1. o \in 0 .. T - 1
          BY <1>1, <3>2
        <4>2. PICK c \in AgentsOf(b) : cs[c].state = "asked" /\ cs[c].ordinal = o
          BY <1>1, <2>1, <4>1 DEF NumberedTo
        <4>3. c # a
          BY <4>2
        <4> QED BY <1>3, <4>2, <4>3
      <3> QED BY <3>1, <3>2
    <2>2. \A t \in H : t.ordinal < T + 1
      BY <1>1, <1>4
    <2> QED BY <2>1, <2>2 DEF NumberedTo
  <1>9. T + 1 \in Nat
    BY <1>1
  <1>10. InCase(b, H, ds, T + 1, n)
    BY <1>1, <1>5, <1>6, <1>7, <1>8, <1>9 DEF InCase
  <1> QED BY <1>10 DEF ds

\* The history grows by an answer.
LEMMA HistoryGrows ==
  ASSUME NEW b, b.reviewers \in Seq(Range(b.reviewers)), NEW H, NEW cs, NEW T, NEW n, InCase(b, H, cs, T, n),
         NEW a \in AgentsOf(b), cs[a].state = "asked",
         NEW t0, IsAnswered(t0), t0.row = n, t0.agent = a, t0.try = cs[a].try, t0.ordinal = cs[a].ordinal
  PROVE  Orderly(b, H \cup {t0})
  <1> DEFINE G == H \cup {t0}
  <1>1. n \in Nat \ {0} /\ Orderly(b, H) /\ Calling(b, cs) /\ CriticLast(b, cs) /\ \A t \in H : t.row \in 1 .. n
    BY DEF InCase
  <1>2. Heard(b, H, cs[a], a, n) /\ Pending(b, H, cs[a], a, n, T)
    BY DEF InCase
  <1>3. IsCall(cs[a]) /\ cs[a].try \in Nat \ {0} /\ cs[a].ordinal \in Nat
    BY <1>1, <1>2 DEF Calling, IsCall, Heard, Pending
  <1>4. \A t \in H : t.row = n /\ t.agent = a => t.try \in 1 .. cs[a].try - 1 /\ ~Final(b, t)
    BY <1>2 DEF Heard
  <1>5. \A t \in H : t.ordinal # t0.ordinal /\ (t.row < n \/ t.agent = a \/ a = CriticOf(b) => t.ordinal < t0.ordinal)
    BY <1>2 DEF Pending
  <1>6. \A t \in H : ~SamePlace(t, t0) /\ ~SamePlace(t0, t)
    BY <1>3, <1>4 DEF SamePlace
  <1>7. ASSUME a # CriticOf(b), NEW t \in H, t.row = n PROVE t.agent # CriticOf(b)
    <2>1. cs[CriticOf(b)].state = "unasked"
      BY <1>1, <1>7, AgentsAre DEF CriticLast
    <2>2. Heard(b, H, cs[CriticOf(b)], CriticOf(b), n)
      BY AgentsAre DEF InCase
    <2> QED BY <1>7, <2>1, <2>2 DEF Heard
  <1>8. \A t \in G : IsAnswered(t) /\ t.row \in Nat /\ t.agent \in AgentsOf(b) /\ t.try \in Nat \ {0} /\ t.ordinal \in Nat
    BY <1>1, <1>3 DEF Orderly
  <1>9. \A t, u \in G : t.ordinal = u.ordinal \/ SamePlace(t, u) => t = u
    BY <1>1, <1>5, <1>6 DEF Orderly
  <1>10. \A t, u \in G : t.row < u.row => t.ordinal < u.ordinal
    BY <1>1, <1>5 DEF Orderly
  <1>11. \A t, u \in G : t.row = u.row /\ t.agent = u.agent /\ t.try < u.try => t.ordinal < u.ordinal
    BY <1>1, <1>3, <1>4, <1>5 DEF Orderly
  <1>12. \A t, u \in G : t.row = u.row /\ t.agent # CriticOf(b) /\ u.agent = CriticOf(b) => t.ordinal < u.ordinal
    BY <1>1, <1>5, <1>7 DEF Orderly
  <1>13. ASSUME NEW t \in G, NEW k \in 1 .. t.try - 1
         PROVE  \E u \in G : u.row = t.row /\ u.agent = t.agent /\ u.try = k /\ ~Final(b, u)
    <2>1. CASE t \in H
      BY <1>1, <2>1 DEF Orderly
    <2>2. CASE t = t0
      <3>1. \E u \in H : u.row = n /\ u.agent = a /\ u.try = k
        BY <1>2, <2>2 DEF Heard
      <3> QED BY <1>4, <2>2, <3>1
    <2> QED BY <2>1, <2>2
  <1>14. ASSUME NEW t \in G, t.agent = CriticOf(b)
         PROVE  b.critic /\ \E u \in G : u.row = t.row /\ FoundIn(b, u)
    <2>1. CASE t \in H
      BY <1>1, <1>14, <2>1 DEF Orderly
    <2>2. CASE t = t0
      <3>1. b.critic /\ (\A s \in SlotsOf(b) : cs[s].state = "done") /\ \E s \in SlotsOf(b) : Reported(b, cs[s].answer)
        BY <1>1, <1>14, <2>2 DEF CriticLast
      <3>2. PICK s \in SlotsOf(b) : cs[s].state = "done" /\ Reported(b, cs[s].answer)
        BY <3>1
      <3>3. Heard(b, H, cs[s], s, n) /\ IsCall(cs[s])
        BY <1>1, AgentsAre DEF InCase, Calling
      <3>4. cs[s].try \in 1 .. cs[s].try
        BY <3>2, <3>3 DEF Heard, IsCall
      <3>5. PICK u \in H : u.row = n /\ u.agent = s /\ u.try = cs[s].try
        BY <3>2, <3>3, <3>4 DEF Heard
      <3>6. Final(b, u) /\ u.answer = cs[s].answer
        BY <3>2, <3>3, <3>5 DEF Heard
      <3> QED BY <2>2, <3>1, <3>2, <3>5, <3>6 DEF FoundIn
    <2> QED BY <2>1, <2>2
  <1> HIDE DEF G
  <1>15. Orderly(b, G)
    BY <1>8, <1>9, <1>10, <1>11, <1>12, <1>13, <1>14 DEF Orderly
  <1> QED BY <1>15 DEF G

\* An attempt is answered: it was the last, or the next one begins.
LEMMA AttemptAnswered ==
  ASSUME NEW b, b.reviewers \in Seq(Range(b.reviewers)), NEW H, NEW cs, NEW T, NEW n, InCase(b, H, cs, T, n),
         NEW a \in AgentsOf(b), cs[a].state = "asked",
         NEW t0, IsAnswered(t0), t0.row = n, t0.agent = a, t0.try = cs[a].try, t0.ordinal = cs[a].ordinal,
         NEW d, IsCall(d), NEW U,
         \/ d.state = "done" /\ d.try = cs[a].try /\ d.answer = t0.answer /\ Final(b, t0) /\ U = T
         \/ d.state = "asked" /\ d.try = cs[a].try + 1 /\ d.ordinal = T /\ ~Final(b, t0) /\ U = T + 1
  PROVE  InCase(b, H \cup {t0}, [cs EXCEPT ![a] = d], U, n)
  <1> DEFINE G == H \cup {t0}
             ds == [cs EXCEPT ![a] = d]
  <1>1. /\ T \in Nat /\ n \in Nat \ {0} /\ Orderly(b, H) /\ \A t \in H : t.row \in 1 .. n
        /\ Calling(b, cs) /\ CriticLast(b, cs) /\ NumberedTo(b, H, cs, T)
        /\ \A m \in 1 .. n - 1 : RowClosed(b, H, m)
    BY DEF InCase
  <1>2. \A c \in AgentsOf(b) : Heard(b, H, cs[c], c, n) /\ Pending(b, H, cs[c], c, n, T)
    BY DEF InCase
  <1>3. ds[a] = d /\ (\A c \in AgentsOf(b) : c # a => ds[c] = cs[c]) /\ ds = [c \in AgentsOf(b) |-> ds[c]]
    BY <1>1 DEF Calling
  <1>4. Orderly(b, G)
    BY HistoryGrows
  <1>5. \A t \in G : t \in H \/ t = t0
    OBVIOUS
  <1>6. H \subseteq G /\ t0 \in G
    OBVIOUS
  <1> HIDE DEF ds, G
  <1>7. /\ cs[a].try \in Nat \ {0} /\ cs[a].ordinal \in Nat /\ cs[a].ordinal < T /\ U \in Nat /\ T <= U
        /\ d.state = "asked" => U = T + 1
    BY <1>1, <1>2 DEF Calling, IsCall, Heard, Pending
  <1>8. \A t \in G : t.ordinal \in Nat /\ t.ordinal < T /\ t.row \in 1 .. n
    BY <1>1, <1>5, <1>7 DEF Orderly, NumberedTo
  <1>9. Calling(b, ds)
    <2>1. \A c \in AgentsOf(b) : IsCall(ds[c])
      BY <1>1, <1>3 DEF Calling
    <2>2. \A c \in AgentsOf(b) : c # a /\ ds[c].state = "asked" => ds[c].ordinal \in Nat /\ ds[c].ordinal < T
      BY <1>2, <1>3 DEF Pending
    <2>3. \A c, e \in AgentsOf(b) :
            ds[c].state = "asked" /\ ds[e].state = "asked" /\ ds[c].ordinal = ds[e].ordinal => c = e
      BY <1>1, <1>3, <2>2 DEF Calling
    <2> QED BY <1>3, <2>1, <2>3 DEF Calling
  <1>10. CriticLast(b, ds)
    <2>1. CASE a = CriticOf(b)
      <3>1. \A s \in SlotsOf(b) : ds[s] = cs[s]
        BY <1>3, <2>1, AgentsAre
      <3> QED BY <1>1, <2>1, <3>1 DEF CriticLast
    <2>2. CASE a # CriticOf(b)
      <3>1. a \in SlotsOf(b) /\ ds[CriticOf(b)] = cs[CriticOf(b)]
        BY <1>3, <2>2, AgentsAre
      <3>2. cs[CriticOf(b)].state = "unasked"
        BY <1>1, <3>1 DEF CriticLast
      <3> QED BY <3>1, <3>2 DEF CriticLast
    <2> QED BY <2>1, <2>2
  <1>11. ASSUME NEW c \in AgentsOf(b) PROVE Heard(b, G, ds[c], c, n)
    <2>1. CASE c = a
      <3>1. Heard(b, H, cs[a], a, n)
        BY <1>2
      <3>2. \A t \in H : t.row = n /\ t.agent = a => t.try \in 1 .. cs[a].try - 1 /\ ~Final(b, t)
        BY <3>1 DEF Heard
      <3>3. \A k \in 1 .. cs[a].try - 1 : \E t \in H : t.row = n /\ t.agent = a /\ t.try = k
        BY <3>1 DEF Heard
      <3>4. \A k \in 1 .. cs[a].try : \E t \in G : t.row = n /\ t.agent = a /\ t.try = k
        <4>1. ASSUME NEW k \in 1 .. cs[a].try PROVE \E t \in G : t.row = n /\ t.agent = a /\ t.try = k
          <5>1. CASE k = cs[a].try
            BY <1>6, <5>1
          <5>2. CASE k # cs[a].try
            <6>1. k \in 1 .. cs[a].try - 1
              BY <1>7, <5>2
            <6> QED BY <1>6, <3>3, <6>1
          <5> QED BY <5>1, <5>2
        <4> QED BY <4>1
      <3>5. CASE d.state = "done"
        <4>1. d.try = cs[a].try /\ d.answer = t0.answer /\ Final(b, t0)
          BY <3>5
        <4>2. \A t \in G : t.row = n /\ t.agent = a =>
                t.try \in 1 .. d.try /\ IF t.try = d.try THEN Final(b, t) /\ t.answer = d.answer ELSE ~Final(b, t)
          BY <1>5, <1>7, <3>2, <4>1
        <4> QED BY <1>3, <1>7, <2>1, <3>4, <3>5, <4>1, <4>2 DEF Heard
      <3>6. CASE d.state = "asked"
        <4>1. d.try = cs[a].try + 1 /\ ~Final(b, t0) /\ d.try - 1 = cs[a].try
          BY <1>7, <3>6
        <4>2. \A t \in G : t.row = n /\ t.agent = a => t.try \in 1 .. d.try - 1 /\ ~Final(b, t)
          BY <1>5, <1>7, <3>2, <4>1
        <4> QED BY <1>3, <1>7, <2>1, <3>4, <3>6, <4>1, <4>2 DEF Heard
      <3> QED BY <3>5, <3>6
    <2>2. CASE c # a
      <3>1. Heard(b, H, cs[c], c, n)
        BY <1>2
      <3>2. \A t \in G : t.agent = c => t \in H
        BY <1>5, <2>2
      <3> QED BY <1>3, <1>6, <2>2, <3>1, <3>2 DEF Heard
    <2> QED BY <2>1, <2>2
  <1>12. ASSUME NEW c \in AgentsOf(b) PROVE Pending(b, G, ds[c], c, n, U)
    <2>1. CASE c = a
      <3>1. d.state = "asked" => d.ordinal = T /\ U = T + 1
        BY DEF IsCall
      <3> QED BY <1>1, <1>3, <1>8, <2>1, <3>1 DEF Pending
    <2>2. SUFFICES ASSUME c # a, cs[c].state = "asked"
                   PROVE  /\ cs[c].ordinal \in Nat /\ cs[c].ordinal < U
                          /\ \A t \in G : /\ t.ordinal # cs[c].ordinal
                                          /\ t.row < n \/ t.agent = c \/ c = CriticOf(b) => t.ordinal < cs[c].ordinal
      BY <1>3, <2>1 DEF Pending
    <2>3. Pending(b, H, cs[c], c, n, T)
      BY <1>2
    <2>4. t0.ordinal # cs[c].ordinal
      BY <1>1, <2>2 DEF Calling
    <2>5. c # CriticOf(b)
      <3>1. SUFFICES ASSUME c = CriticOf(b) PROVE FALSE
        OBVIOUS
      <3>2. a \in SlotsOf(b)
        BY <2>2, <3>1, AgentsAre
      <3> QED BY <1>1, <2>2, <3>1, <3>2 DEF CriticLast
    <2>6. ~(t0.row < n) /\ t0.agent # c
      BY <1>1, <2>2
    <2> QED BY <1>1, <1>5, <1>7, <2>2, <2>3, <2>4, <2>5, <2>6 DEF Pending
  <1>13. NumberedTo(b, G, ds, U)
    <2>1. ASSUME NEW o \in 0 .. U - 1, ~ \E t \in G : t.ordinal = o
          PROVE  \E c \in AgentsOf(b) : ds[c].state = "asked" /\ ds[c].ordinal = o
      <3>1. CASE o \in 0 .. T - 1
        <4>1. ~ \E t \in H : t.ordinal = o
          BY <1>6, <2>1
        <4>2. PICK c \in AgentsOf(b) : cs[c].state = "asked" /\ cs[c].ordinal = o
          BY <1>1, <3>1, <4>1 DEF NumberedTo
        <4>3. c # a
          BY <1>6, <2>1, <4>2
        <4> QED BY <1>3, <4>2, <4>3
      <3>2. CASE o \notin 0 .. T - 1
        <4>1. U = T + 1 /\ o = T /\ d.state = "asked" /\ d.ordinal = T
          BY <1>1, <3>2
        <4> QED BY <1>3, <4>1
      <3> QED BY <3>1, <3>2
    <2>2. \A t \in G : t.ordinal < U
      BY <1>1, <1>7, <1>8
    <2> QED BY <2>1, <2>2 DEF NumberedTo
  <1>14. ASSUME NEW m \in 1 .. n - 1 PROVE RowClosed(b, G, m)
    <2>1. RowClosed(b, H, m) /\ m # n
      BY <1>1
    <2>2. \A t \in G : t.row = m => t \in H
      BY <1>5, <2>1
    <2> QED BY <1>6, <2>1, <2>2 DEF RowClosed
  <1>15. InCase(b, G, ds, U, n)
    BY <1>1, <1>4, <1>7, <1>8, <1>9, <1>10, <1>11, <1>12, <1>13, <1>14 DEF InCase
  <1> QED BY <1>15 DEF G, ds

\* Nobody is left to ask: the row is closed.
LEMMA RowIsClosed ==
  ASSUME NEW b, b.reviewers \in Seq(Range(b.reviewers)), NEW H, NEW cs, NEW T, NEW n, InCase(b, H, cs, T, n),
         \A s \in SlotsOf(b) : cs[s].state = "done",
         b.critic /\ (\E s \in SlotsOf(b) : Reported(b, cs[s].answer)) => cs[CriticOf(b)].state = "done"
  PROVE  RowClosed(b, H, n)
  <1>1. /\ Orderly(b, H) /\ Calling(b, cs) /\ CriticLast(b, cs)
        /\ \A a \in AgentsOf(b) : Heard(b, H, cs[a], a, n) /\ IsCall(cs[a])
    BY DEF InCase, Calling
  <1>2. ASSUME NEW a \in AgentsOf(b), cs[a].state = "done"
        PROVE  /\ \E t \in H : t.row = n /\ t.agent = a /\ t.try = 1
               /\ \A t \in H : t.row = n /\ t.agent = a /\ ~Final(b, t) =>
                     \E u \in H : u.row = n /\ u.agent = a /\ u.try = t.try + 1
               /\ \A t \in H : t.row = n /\ t.agent = a /\ Final(b, t) => t.answer = cs[a].answer
    <2>1. Heard(b, H, cs[a], a, n) /\ cs[a].try \in Nat \ {0}
      BY <1>1, <1>2 DEF Heard, IsCall
    <2>2. \A k \in 1 .. cs[a].try : \E t \in H : t.row = n /\ t.agent = a /\ t.try = k
      BY <1>2, <2>1 DEF Heard
    <2>3. \A t \in H : t.row = n /\ t.agent = a =>
            t.try \in 1 .. cs[a].try /\ IF t.try = cs[a].try THEN Final(b, t) /\ t.answer = cs[a].answer ELSE ~Final(b, t)
      BY <1>2, <2>1 DEF Heard
    <2>4. \A t \in H : t.row = n /\ t.agent = a /\ ~Final(b, t) => t.try + 1 \in 1 .. cs[a].try
      BY <2>1, <2>3
    <2>5. 1 \in 1 .. cs[a].try
      BY <2>1
    <2> QED BY <2>2, <2>3, <2>4, <2>5
  <1>3. ASSUME NEW t \in H, t.row = n PROVE cs[t.agent].state = "done" /\ t.agent \in AgentsOf(b)
    <2>1. t.agent \in AgentsOf(b)
      BY <1>1 DEF Orderly
    <2>2. CASE t.agent \in SlotsOf(b)
      BY <2>1, <2>2
    <2>3. CASE t.agent = CriticOf(b)
      <3>1. cs[CriticOf(b)].state # "unasked"
        BY <1>1, <1>3, <2>1, <2>3 DEF Heard
      <3> QED BY <1>1, <2>1, <2>3, <3>1 DEF CriticLast
    <2> QED BY <2>1, <2>2, <2>3, AgentsAre
  <1>4. \A s \in SlotsOf(b) : \E t \in H : t.row = n /\ t.agent = s /\ t.try = 1
    BY <1>2, AgentsAre
  <1>5. \A t \in H : t.row = n /\ ~Final(b, t) => \E u \in H : u.row = n /\ u.agent = t.agent /\ u.try = t.try + 1
    BY <1>2, <1>3
  <1>6. ASSUME b.critic, NEW t \in H, t.row = n, FoundIn(b, t)
        PROVE  \E u \in H : u.row = n /\ u.agent = CriticOf(b) /\ u.try = 1
    <2>1. t.agent \in SlotsOf(b) /\ Final(b, t) /\ Reported(b, t.answer)
      BY <1>6 DEF FoundIn
    <2>2. t.answer = cs[t.agent].answer
      BY <1>2, <1>3, <1>6, <2>1
    <2>3. cs[CriticOf(b)].state = "done"
      BY <1>6, <2>1, <2>2
    <2> QED BY <1>2, <2>3, AgentsAre
  <1> QED BY <1>4, <1>5, <1>6 DEF RowClosed

LEMMA NextRow ==
  ASSUME NEW b, b.reviewers \in Seq(Range(b.reviewers)), NEW H, NEW cs, NEW T, NEW n, InCase(b, H, cs, T, n),
         \A s \in SlotsOf(b) : cs[s].state = "done",
         b.critic /\ (\E s \in SlotsOf(b) : Reported(b, cs[s].answer)) => cs[CriticOf(b)].state = "done",
         NEW ds, ds = [a \in AgentsOf(b) |-> ds[a]],
         \A a \in AgentsOf(b) : IsCall(ds[a]) /\ ds[a].state = "unasked" /\ ds[a].try = 0
  PROVE  InCase(b, H, ds, T, n + 1) /\ Numbered(H, T)
  <1>1. /\ T \in Nat /\ n \in Nat \ {0} /\ Orderly(b, H) /\ \A t \in H : t.row \in 1 .. n
        /\ CriticLast(b, cs) /\ NumberedTo(b, H, cs, T) /\ \A m \in 1 .. n - 1 : RowClosed(b, H, m)
    BY DEF InCase
  <1>2. n + 1 \in Nat \ {0} /\ \A t \in H : t.row \in 1 .. n + 1
    BY <1>1
  <1>3. Calling(b, ds) /\ CriticLast(b, ds)
    BY AgentsAre DEF Calling, CriticLast
  <1>4. ASSUME NEW a \in AgentsOf(b) PROVE Heard(b, H, ds[a], a, n + 1) /\ Pending(b, H, ds[a], a, n + 1, T)
    <2>1. \A t \in H : t.row # n + 1
      BY <1>1
    <2> QED BY <2>1 DEF Heard, Pending
  <1>5. \A a \in AgentsOf(b) : cs[a].state # "asked"
    <2>1. cs[CriticOf(b)].state # "asked"
      BY <1>1 DEF CriticLast
    <2> QED BY <2>1, AgentsAre
  <1>6. Numbered(H, T)
    BY <1>1, <1>5 DEF NumberedTo, Numbered
  <1>7. NumberedTo(b, H, ds, T)
    BY <1>6 DEF NumberedTo, Numbered
  <1>8. \A m \in 1 .. (n + 1) - 1 : RowClosed(b, H, m)
    <2>1. RowClosed(b, H, n)
      BY RowIsClosed
    <2>2. \A m \in 1 .. (n + 1) - 1 : m = n \/ m \in 1 .. n - 1
      BY <1>1
    <2> QED BY <1>1, <2>1, <2>2
  <1> QED BY <1>1, <1>2, <1>3, <1>4, <1>6, <1>7, <1>8 DEF InCase

(***************************************************************************)
(* What was captured.                                                      *)
(***************************************************************************)

WhoOf(b, a) == IF a \in SlotsOf(b) THEN b.reviewers[a] ELSE "critic"

\* Entry e of the capture is the answer t of the history.
CapturedAs(b, e, t) ==
    /\ e.request.who = WhoOf(b, t.agent) /\ e.request.ordinal = t.ordinal /\ e.request.prompt = t.prompt
    /\ e.answer = t.answer

\* The entries are what the baseline was told, in the order in which it was.
TapedAs(b, H, E) ==
    /\ \A t \in H : \E i \in DOMAIN E : CapturedAs(b, E[i], t)
    /\ \A i \in DOMAIN E : \E t \in H : CapturedAs(b, E[i], t)
    /\ \A i, j \in DOMAIN E : E[i].request.ordinal = E[j].request.ordinal => i = j

\* The history is told by the entries, each at its number.
Retold(b, H, E) == \A t \in H : t.ordinal + 1 \in DOMAIN E /\ CapturedAs(b, E[t.ordinal + 1], t)

LEMMA CaptureGrows ==
  ASSUME NEW b, NEW H, NEW S, NEW E \in Seq(S), TapedAs(b, H, E), NEW t0, NEW e, CapturedAs(b, e, t0),
         \A t \in H : t.ordinal # t0.ordinal
  PROVE  TapedAs(b, H \cup {t0}, Append(E, e))
  <1> DEFINE F == Append(E, e)
             m == Len(E)
  <1>1. m \in Nat /\ DOMAIN E = 1 .. m
    BY LenProperties
  <1>2. E \in Seq(S \cup {e}) /\ e \in S \cup {e}
    BY LenProperties
  <1>3. /\ F \in Seq(S \cup {e}) /\ Len(F) = m + 1
        /\ \A i \in 1 .. m : F[i] = E[i]
        /\ F[m + 1] = e
    BY <1>2, AppendProperties
  <1>4. DOMAIN F = 1 .. m + 1
    BY <1>3, LenProperties
  <1> HIDE DEF F, m
  <1>5. \A t \in H \cup {t0} : \E i \in DOMAIN F : CapturedAs(b, F[i], t)
    <2>1. ASSUME NEW t \in H PROVE \E i \in DOMAIN F : CapturedAs(b, F[i], t)
      <3>1. PICK i \in DOMAIN E : CapturedAs(b, E[i], t)
        BY DEF TapedAs
      <3> QED BY <1>1, <1>3, <1>4, <3>1
    <2>2. m + 1 \in DOMAIN F /\ CapturedAs(b, F[m + 1], t0)
      BY <1>1, <1>3, <1>4
    <2> QED BY <2>1, <2>2
  <1>6. ASSUME NEW i \in DOMAIN F PROVE \E t \in H \cup {t0} : CapturedAs(b, F[i], t)
    <2>1. CASE i \in 1 .. m
      BY <1>1, <1>3, <2>1 DEF TapedAs
    <2>2. CASE i = m + 1
      BY <1>3, <2>2
    <2> QED BY <1>1, <1>4, <2>1, <2>2
  <1>7. ASSUME NEW i \in 1 .. m PROVE F[i].request.ordinal # F[m + 1].request.ordinal
    <2>1. PICK t \in H : CapturedAs(b, E[i], t)
      BY <1>1 DEF TapedAs
    <2> QED BY <1>3, <2>1 DEF CapturedAs
  <1>8. \A i, j \in DOMAIN F : F[i].request.ordinal = F[j].request.ordinal => i = j
    <2>1. ASSUME NEW i \in DOMAIN F, NEW j \in DOMAIN F, F[i].request.ordinal = F[j].request.ordinal PROVE i = j
      <3>1. CASE i \in 1 .. m /\ j \in 1 .. m
        BY <1>1, <1>3, <2>1, <3>1 DEF TapedAs
      <3>2. CASE i = m + 1 /\ j \in 1 .. m
        BY <1>7, <2>1, <3>2
      <3>3. CASE i \in 1 .. m /\ j = m + 1
        BY <1>7, <2>1, <3>3
      <3> QED BY <1>1, <1>4, <3>1, <3>2, <3>3
    <2> QED BY <2>1
  <1>9. TapedAs(b, H \cup {t0}, F)
    BY <1>5, <1>6, <1>8 DEF TapedAs
  <1> QED BY <1>9 DEF F

LEMMA CountsAlike ==
  ASSUME NEW S, NEW m \in Nat, NEW f, f \in [S -> 0 .. m - 1], \A x, y \in S : f[x] = f[y] => x = y,
         \A k \in 0 .. m - 1 : \E x \in S : f[x] = k
  PROVE  Cardinality(S) = m
  <1> DEFINE g == [k \in 0 .. m - 1 |-> CHOOSE x \in S : f[x] = k]
  <1>1. \A k \in 0 .. m - 1 : g[k] \in S /\ f[g[k]] = k
    OBVIOUS
  <1>2. g \in [0 .. m - 1 -> S]
    BY <1>1
  <1> HIDE DEF g
  <1>3. g \in Bijection(0 .. m - 1, S)
    <2>1. \A x \in S : g[f[x]] = x
      BY <1>1
    <2>2. \A k, l \in 0 .. m - 1 : g[k] = g[l] => k = l
      BY <1>1
    <2>3. \A x \in S : \E k \in 0 .. m - 1 : g[k] = x
      BY <2>1
    <2> QED BY <1>2, <2>2, <2>3 DEF Bijection, Injection, Surjection, IsInjective
  <1>4. IsFiniteSet(0 .. m - 1) /\ Cardinality(0 .. m - 1) = m
    BY FS_Interval
  <1>5. ExistsBijection(0 .. m - 1, S)
    BY <1>3 DEF ExistsBijection
  <1> QED BY <1>4, <1>5, FS_Bijection

LEMMA TapeSorted ==
  ASSUME NEW b, NEW H, NEW T \in Nat, NEW S, NEW E \in Seq(S), Orderly(b, H), Numbered(H, T), TapedAs(b, H, E)
  PROVE  /\ Len(ByOrdinal(E)) = T /\ \E R : ByOrdinal(E) \in Seq(R)
         /\ Retold(b, H, ByOrdinal(E))
  <1> DEFINE m == Len(E)
             N(e) == e.request.ordinal
             F == ByOrdinal(E)
  <1>1. m \in Nat /\ DOMAIN E = 1 .. m
    BY LenProperties
  <1>2. \A e \in Range(E) : N(e) \in 0 .. T - 1
    <2>1. ASSUME NEW i \in DOMAIN E PROVE N(E[i]) \in 0 .. T - 1
      <3>1. PICK t \in H : CapturedAs(b, E[i], t)
        BY DEF TapedAs
      <3>2. t.ordinal \in Nat /\ t.ordinal < T
        BY DEF Orderly, Numbered
      <3> QED BY <3>1, <3>2 DEF CapturedAs
    <2> QED BY <2>1 DEF Range
  <1>3. \A k \in 0 .. T - 1 : \E i \in DOMAIN E : N(E[i]) = k
    <2>1. ASSUME NEW k \in 0 .. T - 1 PROVE \E i \in DOMAIN E : N(E[i]) = k
      <3>1. PICK t \in H : t.ordinal = k
        BY DEF Numbered
      <3>2. PICK i \in DOMAIN E : CapturedAs(b, E[i], t)
        BY DEF TapedAs
      <3> QED BY <3>1, <3>2 DEF CapturedAs
    <2> QED BY <2>1
  <1>4. \A i, j \in DOMAIN E : N(E[i]) = N(E[j]) => i = j
    BY DEF TapedAs
  <1>5. \A d, e \in Range(E) : N(d) = N(e) => d = e
    BY <1>4 DEF Range
  <1>6. \A i \in DOMAIN E : E[i] \in Range(E)
    BY DEF Range
  <1> HIDE DEF m, N
  <1>7. m = T
    <2> DEFINE f == [i \in DOMAIN E |-> N(E[i])]
    <2>1. /\ f \in [DOMAIN E -> 0 .. T - 1] /\ \A i, j \in DOMAIN E : f[i] = f[j] => i = j
          /\ \A k \in 0 .. T - 1 : \E i \in DOMAIN E : f[i] = k
      BY <1>2, <1>3, <1>4, <1>6
    <2> HIDE DEF f
    <2>2. Cardinality(DOMAIN E) = T
      BY <2>1, CountsAlike
    <2>3. Cardinality(1 .. m) = m
      BY <1>1, FS_Interval
    <2> QED BY <1>1, <2>2, <2>3
  <1>8. ASSUME NEW e \in Range(E) PROVE Cardinality(Earlier(E, e)) = N(e)
    <2> DEFINE A == Earlier(E, e)
               f == [d \in A |-> N(d)]
    <2>1. A = {d \in Range(E) : N(d) < N(e)}
      BY DEF Earlier, N
    <2>2. N(e) \in Nat /\ N(e) \in 0 .. T - 1
      BY <1>2
    <2> HIDE DEF A
    <2>3. \A d \in A : d \in Range(E) /\ N(d) \in 0 .. N(e) - 1
      BY <1>2, <2>1, <2>2
    <2>4. f \in [A -> 0 .. N(e) - 1] /\ \A c, d \in A : f[c] = f[d] => c = d
      BY <1>5, <2>3
    <2>5. \A k \in 0 .. N(e) - 1 : \E d \in A : f[d] = k
      <3>1. ASSUME NEW k \in 0 .. N(e) - 1 PROVE \E d \in A : f[d] = k
        <4>1. k \in 0 .. T - 1
          BY <2>2
        <4>2. PICK i \in DOMAIN E : N(E[i]) = k
          BY <1>3, <4>1
        <4>3. E[i] \in A
          BY <1>6, <2>1, <2>2, <4>2
        <4> QED BY <4>2, <4>3
      <3> QED BY <3>1
    <2> HIDE DEF f
    <2>6. Cardinality(A) = N(e)
      BY <2>2, <2>4, <2>5, CountsAlike
    <2> QED BY <2>6 DEF A
  <1>9. F = [n \in 1 .. T |-> CHOOSE e \in Range(E) : Cardinality(Earlier(E, e)) = n - 1]
    BY <1>1, <1>7 DEF ByOrdinal
  <1>10. ASSUME NEW n \in 1 .. T PROVE F[n] \in Range(E) /\ N(F[n]) = n - 1
    <2>1. n - 1 \in 0 .. T - 1
      OBVIOUS
    <2>2. \E e \in Range(E) : Cardinality(Earlier(E, e)) = n - 1
      BY <1>3, <1>6, <1>8, <2>1
    <2>3. F[n] \in Range(E) /\ Cardinality(Earlier(E, F[n])) = n - 1
      BY <1>9, <2>2
    <2> QED BY <1>8, <2>3
  <1>11. F \in Seq(Range(E)) /\ Len(F) = T
    <2> HIDE DEF F
    <2>1. F \in [1 .. T -> Range(E)]
      BY <1>9, <1>10
    <2> QED BY <2>1
  <1>12. ASSUME NEW t \in H PROVE t.ordinal + 1 \in DOMAIN F /\ CapturedAs(b, F[t.ordinal + 1], t)
    <2>1. t.ordinal \in Nat /\ t.ordinal < T /\ t.ordinal + 1 \in 1 .. T
      BY DEF Orderly, Numbered
    <2>2. F[t.ordinal + 1] \in Range(E) /\ N(F[t.ordinal + 1]) = t.ordinal
      BY <1>10, <2>1
    <2>3. PICK i \in DOMAIN E : F[t.ordinal + 1] = E[i]
      BY <2>2 DEF Range
    <2>4. PICK u \in H : CapturedAs(b, E[i], u)
      BY DEF TapedAs
    <2>5. u.ordinal = t.ordinal
      BY <2>2, <2>3, <2>4 DEF CapturedAs, N
    <2>6. u = t
      BY <2>5 DEF Orderly
    <2>7. DOMAIN F = 1 .. T
      BY <1>9
    <2> QED BY <2>1, <2>3, <2>4, <2>6, <2>7
  <1> QED BY <1>11, <1>12 DEF Retold

\* Two histories told by the same entries agree, where each reviewer has one slot.
LEMMA RetoldAgree ==
  ASSUME NEW b, b.reviewers \in Seq(Range(b.reviewers)), "critic" \notin Range(b.reviewers),
         \A s, r \in SlotsOf(b) : b.reviewers[s] = b.reviewers[r] => s = r,
         NEW H, Orderly(b, H), NEW G, Orderly(b, G), NEW E, Retold(b, H, E), Retold(b, G, E)
  PROVE  Agree(H, G)
  <1>1. ASSUME NEW h \in H, NEW g \in G, h.ordinal = g.ordinal
        PROVE  h.agent = g.agent /\ h.prompt = g.prompt /\ h.answer = g.answer
    <2>1. CapturedAs(b, E[h.ordinal + 1], h) /\ CapturedAs(b, E[h.ordinal + 1], g)
      BY <1>1 DEF Retold
    <2>2. WhoOf(b, h.agent) = WhoOf(b, g.agent) /\ h.prompt = g.prompt /\ h.answer = g.answer
      BY <2>1 DEF CapturedAs
    <2>3. h.agent \in AgentsOf(b) /\ g.agent \in AgentsOf(b)
      BY DEF Orderly
    <2>4. \A s \in SlotsOf(b) : b.reviewers[s] # "critic"
      BY DEF SlotsOf, Range
    <2> QED BY <2>2, <2>3, <2>4, AgentsAre DEF WhoOf
  <1> QED BY <1>1 DEF Agree

(***************************************************************************)
(* The whole benchmark.                                                    *)
(***************************************************************************)

IsTuple(s) == \E S : s \in Seq(S)

Spotless == ~budget.exceeded /\ ~capture.mismatch

BenchTypes ==
    /\ bench \in Benches
    /\ stage = [pc |-> stage.pc, profile |-> stage.profile, commit |-> stage.commit, exit |-> stage.exit]
    /\ stage.profile \in 1 .. Len(bench.profiles)
    /\ stage.pc \in {"running", "judging", "accepted", "refused"}
    /\ budget = [used |-> budget.used, exceeded |-> budget.exceeded]
    /\ capture = [entries |-> capture.entries, mismatch |-> capture.mismatch] /\ IsTuple(capture.entries)
    /\ told = [p \in 1 .. Len(bench.profiles) |-> told[p]]
    /\ IsTuple(results)
    /\ stage.pc = "running" => Len(results) = stage.profile - 1
    /\ stage.pc = "judging" => Len(results) = Len(bench.profiles) /\ ~capture.mismatch
    /\ stage.pc \in {"running", "judging"} /\ Len(results) > 0 /\ results[1].exit = 0 => ~budget.exceeded

\* What the current profile has asked and heard, and what of it the capture knows.
RunInv ==
    /\ InCase(bench, told[stage.profile], calls, turn, Len(rows) + 1)
    /\ IsTuple(rows) /\ Len(rows) <= RowCount
    /\ Len(rows) = RowCount => \A a \in AgentsOf(bench) : calls[a].state = "unasked"
    /\ \A q \in 1 .. Len(bench.profiles) :
          /\ q < stage.profile => told[q] = told[1]
          /\ q > stage.profile => told[q] = {}
    /\ IF stage.profile = 1 THEN TapedAs(bench, told[1], capture.entries)
       ELSE /\ Lawful(bench, told[1], Len(capture.entries), RowCount)
            /\ Retold(bench, told[1], capture.entries)
            /\ Retold(bench, told[stage.profile], capture.entries)

BenchInv ==
    /\ BenchTypes
    /\ stage.pc = "running" /\ Spotless => RunInv
    /\ stage.pc = "judging" /\ Spotless => \A q \in 1 .. Len(bench.profiles) : told[q] = told[1]
    /\ SameAnswers

LEMMA TupleIs ==
  ASSUME NEW s, IsTuple(s)
  PROVE  Len(s) \in Nat /\ DOMAIN s = 1 .. Len(s)
  <1>1. PICK S : s \in Seq(S)
    BY DEF IsTuple
  <1> QED BY <1>1, LenProperties

LEMMA TupleGrows ==
  ASSUME NEW s, IsTuple(s), NEW e
  PROVE  /\ IsTuple(Append(s, e)) /\ Len(Append(s, e)) = Len(s) + 1
         /\ \A i \in 1 .. Len(s) : Append(s, e)[i] = s[i]
         /\ Append(s, e)[Len(s) + 1] = e
  <1>1. PICK S : s \in Seq(S)
    BY DEF IsTuple
  <1>2. s \in Seq(S \cup {e}) /\ e \in S \cup {e}
    BY <1>1, LenProperties
  <1> QED BY <1>2, AppendProperties DEF IsTuple

LEMMA BenchIs ==
  ASSUME bench \in Benches
  PROVE  /\ bench.reviewers \in Seq(Range(bench.reviewers)) /\ "critic" \notin Range(bench.reviewers)
         /\ Len(bench.profiles) \in Nat \ {0} /\ DOMAIN bench.profiles = 1 .. Len(bench.profiles)
         /\ RowCount \in Nat
         /\ Slots = SlotsOf(bench) /\ Critic = CriticOf(bench) /\ Agents = AgentsOf(bench)
  <1>1. /\ bench.reviewers \in Seq(Range(bench.reviewers)) /\ "critic" \notin Range(bench.reviewers)
        /\ bench.profiles \in Seq(Range(bench.profiles)) /\ Len(bench.profiles) > 0
        /\ bench.cases \in Seq(Range(bench.cases)) /\ bench.repeats \in Nat
    BY BenchesAssumption
  <1>2. Len(bench.profiles) \in Nat \ {0} /\ DOMAIN bench.profiles = 1 .. Len(bench.profiles)
    BY <1>1, LenProperties
  <1>3. RowCount \in Nat
    <2>1. Len(bench.cases) \in Nat
      BY <1>1, LenProperties
    <2> QED BY <1>1, <2>1 DEF RowCount
  <1> QED BY <1>1, <1>2, <1>3 DEF Slots, Critic, Agents, SlotsOf, CriticOf, AgentsOf

(***************************************************************************)
(* An attempt is sent, or answered.                                        *)
(***************************************************************************)

LEMMA SendDoes ==
  ASSUME BenchTypes, NEW a, NEW c, Send(a, c)
  PROVE  /\ budget' = [used |-> budget'.used, exceeded |-> budget'.exceeded]
         /\ budget.exceeded => budget'.exceeded
         /\ stage.profile # 1 => budget' = budget
         /\ ~budget'.exceeded => /\ calls' = [calls EXCEPT ![a] = [c EXCEPT !.state = "asked", !.try = c.try + 1, !.ordinal = turn]]
                                 /\ turn' = turn + 1
  <1> DEFINE charged == Live
             refused == charged /\ budget.used >= bench.ceiling
  <1>1. /\ budget' = CASE refused -> [budget EXCEPT !.exceeded = TRUE]
                       [] charged /\ ~refused -> [budget EXCEPT !.used = @ + 1]
                       [] OTHER -> budget
        /\ calls' = [calls EXCEPT ![a] = IF refused THEN [c EXCEPT !.state = "done", !.answer = NoAnswer]
                                         ELSE [c EXCEPT !.state = "asked", !.try = c.try + 1, !.ordinal = turn]]
        /\ turn' = IF refused THEN turn ELSE turn + 1
    BY DEF Send, Charged
  <1>2. charged <=> stage.profile = 1
    BY DEF Live
  <1>3. budget = [used |-> budget.used, exceeded |-> budget.exceeded]
    BY DEF BenchTypes
  <1>4. refused => charged
    OBVIOUS
  <1> HIDE DEF charged, refused
  <1>5. CASE refused
    <2>1. budget' = [budget EXCEPT !.exceeded = TRUE]
      BY <1>1, <1>5
    <2> QED BY <1>2, <1>3, <1>4, <1>5, <2>1
  <1>6. CASE charged /\ ~refused
    <2>1. budget' = [budget EXCEPT !.used = @ + 1]
      BY <1>1, <1>6
    <2> QED BY <1>1, <1>2, <1>3, <1>6, <2>1
  <1>7. CASE ~charged /\ ~refused
    <2>1. budget' = budget
      BY <1>1, <1>7
    <2> QED BY <1>1, <1>3, <1>7, <2>1
  <1> QED BY <1>4, <1>5, <1>6, <1>7

LEMMA SentIs ==
  ASSUME NEW c, IsCall(c)
  PROVE  LET d == [c EXCEPT !.state = "asked", !.try = c.try + 1, !.ordinal = turn]
         IN  IsCall(d) /\ d.state = "asked" /\ d.try = c.try + 1 /\ d.ordinal = turn
  BY DEF IsCall

TheAnswer(a, r) ==
    [row |-> Now, agent |-> a, try |-> calls[a].try, ordinal |-> calls[a].ordinal, prompt |-> Prompt(a), answer |-> r]

LEMMA DeliverDoes ==
  ASSUME BenchTypes, NEW a \in AgentsOf(bench), NEW r, Deliver(a, r)
  PROVE  /\ told' = [told EXCEPT ![stage.profile] = @ \cup {TheAnswer(a, r)}]
         /\ budget' = [used |-> budget'.used, exceeded |-> budget'.exceeded]
         /\ budget.exceeded => budget'.exceeded
         /\ stage.profile # 1 => budget' = budget
         /\ ~budget'.exceeded /\ IsCall(calls[a]) => \E d :
               /\ IsCall(d) /\ calls' = [calls EXCEPT ![a] = d]
               /\ \/ /\ d.state = "done" /\ d.try = calls[a].try /\ d.answer = r
                     /\ LastOf(bench, a, calls[a].try, r) /\ turn' = turn
                  \/ /\ d.state = "asked" /\ d.try = calls[a].try + 1 /\ d.ordinal = turn
                     /\ ~LastOf(bench, a, calls[a].try, r) /\ turn' = turn + 1
  <1> DEFINE c == [calls[a] EXCEPT !.texts = IF r.out = "return" /\ r.text # NoText THEN Append(@, r.text) ELSE @]
  <1>1. /\ told' = [told EXCEPT ![stage.profile] = @ \cup
                      {[row |-> Now, agent |-> a, try |-> c.try, ordinal |-> c.ordinal, prompt |-> Prompt(a), answer |-> r]}]
        /\ IF LastTry(a, r)
           THEN /\ calls' = [calls EXCEPT ![a] = [c EXCEPT !.state = "done", !.answer = r]]
                /\ UNCHANGED <<budget, turn>>
           ELSE Send(a, c)
    BY DEF Deliver
  <1>2. c.try = calls[a].try /\ c.ordinal = calls[a].ordinal
    OBVIOUS
  <1>3. IsCall(calls[a]) => IsCall(c)
    BY DEF IsCall
  <1>4. LastTry(a, r) <=> LastOf(bench, a, calls[a].try, r)
    BY DEF LastTry, LastOf, MaxAttempts, Slots, SlotsOf
  <1> HIDE DEF c
  <1>5. told' = [told EXCEPT ![stage.profile] = @ \cup {TheAnswer(a, r)}]
    BY <1>1, <1>2 DEF TheAnswer
  <1>6. CASE LastTry(a, r)
    <2> DEFINE d == [c EXCEPT !.state = "done", !.answer = r]
    <2>1. calls' = [calls EXCEPT ![a] = d] /\ budget' = budget /\ turn' = turn
      BY <1>1, <1>6
    <2>2. IsCall(c) => IsCall(d) /\ d.state = "done" /\ d.try = c.try /\ d.answer = r
      BY DEF IsCall
    <2> HIDE DEF d
    <2> QED BY <1>2, <1>3, <1>4, <1>5, <1>6, <2>1, <2>2 DEF BenchTypes
  <1>7. CASE ~LastTry(a, r)
    <2> DEFINE d == [c EXCEPT !.state = "asked", !.try = c.try + 1, !.ordinal = turn]
    <2>1. Send(a, c)
      BY <1>1, <1>7
    <2>2. IsCall(c) => IsCall(d) /\ d.state = "asked" /\ d.try = c.try + 1 /\ d.ordinal = turn
      BY SentIs
    <2>3. /\ budget' = [used |-> budget'.used, exceeded |-> budget'.exceeded]
          /\ budget.exceeded => budget'.exceeded
          /\ stage.profile # 1 => budget' = budget
          /\ ~budget'.exceeded => calls' = [calls EXCEPT ![a] = d] /\ turn' = turn + 1
      BY <2>1, SendDoes
    <2> HIDE DEF d
    <2> QED BY <1>2, <1>3, <1>4, <1>5, <1>7, <2>2, <2>3
  <1> QED BY <1>6, <1>7

(***************************************************************************)
(* The steps of a case.                                                    *)
(***************************************************************************)

LEMMA GoesOn ==
  ASSUME BenchInv, Running, UNCHANGED <<bench, stage, results>>,
         budget' = [used |-> budget'.used, exceeded |-> budget'.exceeded],
         stage.profile # 1 => budget' = budget,
         capture' = [entries |-> capture'.entries, mismatch |-> capture'.mismatch], IsTuple(capture'.entries),
         told' = [p \in 1 .. Len(bench.profiles) |-> told'[p]],
         Spotless' => RunInv'
  PROVE  BenchInv'
  <1>1. BenchTypes /\ stage.pc = "running"
    BY DEF BenchInv, Running
  <1>2. stage.pc' = "running"
    BY <1>1
  <1>3. Len(results) > 0 => stage.profile # 1
    BY <1>1 DEF BenchTypes
  <1>4. BenchTypes'
    BY <1>1, <1>3 DEF BenchTypes
  <1>5. SameAnswers'
    BY <1>2 DEF SameAnswers
  <1> QED BY <1>2, <1>4, <1>5 DEF BenchInv

LEMMA RunningKnows ==
  ASSUME BenchInv, Running
  PROVE  /\ BenchTypes /\ bench \in Benches /\ stage.profile \in 1 .. Len(bench.profiles)
         /\ stage.pc = "running" /\ (Spotless => RunInv)
         /\ told = [p \in 1 .. Len(bench.profiles) |-> told[p]]
         /\ capture = [entries |-> capture.entries, mismatch |-> capture.mismatch] /\ IsTuple(capture.entries)
  BY DEF BenchInv, BenchTypes, Running

\* The first attempt of somebody who may be asked now.
LEMMA AskStep ==
  ASSUME BenchInv, Running, Now <= RowCount, NEW a \in AgentsOf(bench), ~Asked(a), Send(a, calls[a]),
         UNCHANGED <<bench, stage, capture, rows, results, told>>,
         Spotless => /\ calls[CriticOf(bench)].state = "unasked"
                     /\ a = CriticOf(bench) => /\ bench.critic
                                               /\ \A s \in SlotsOf(bench) : calls[s].state = "done"
                                               /\ \E s \in SlotsOf(bench) : Reported(bench, calls[s].answer)
  PROVE  BenchInv'
  <1>1. /\ budget' = [used |-> budget'.used, exceeded |-> budget'.exceeded] /\ (budget.exceeded => budget'.exceeded)
        /\ stage.profile # 1 => budget' = budget
        /\ ~budget'.exceeded =>
              /\ calls' = [calls EXCEPT ![a] = [calls[a] EXCEPT !.state = "asked", !.try = calls[a].try + 1, !.ordinal = turn]]
              /\ turn' = turn + 1
    BY RunningKnows, SendDoes
  <1>2. ASSUME Spotless' PROVE RunInv'
    <2>1. Spotless /\ RunInv
      BY <1>1, <1>2, RunningKnows DEF Spotless
    <2>2. InCase(bench, told[stage.profile], calls, turn, Len(rows) + 1)
      BY <2>1 DEF RunInv
    <2> DEFINE d == [calls[a] EXCEPT !.state = "asked", !.try = calls[a].try + 1, !.ordinal = turn]
    <2>3. IsCall(calls[a]) /\ calls[a].state = "unasked" /\ Heard(bench, told[stage.profile], calls[a], a, Len(rows) + 1)
      BY <2>2 DEF InCase, Calling, Asked
    <2>4. calls[a].try = 0
      BY <2>3 DEF Heard
    <2>5. IsCall(d) /\ d.state = "asked" /\ d.try = 1 /\ d.ordinal = turn
      <3>1. IsCall(d) /\ d.state = "asked" /\ d.try = calls[a].try + 1 /\ d.ordinal = turn
        BY <2>3, SentIs
      <3> HIDE DEF d
      <3> QED BY <2>4, <3>1
    <2>6. calls' = [calls EXCEPT ![a] = d] /\ turn' = turn + 1
      BY <1>1, <1>2 DEF Spotless
    <2> HIDE DEF d
    <2>7. InCase(bench, told[stage.profile], [calls EXCEPT ![a] = d], turn + 1, Len(rows) + 1)
      BY <2>1, <2>2, <2>3, <2>5, AttemptBegins, BenchIs, RunningKnows
    <2>8. InCase(bench', told'[stage'.profile], calls', turn', Len(rows') + 1)
      BY <2>6, <2>7
    <2>9. Len(rows') # RowCount' /\ RowCount' = RowCount
      <3>1. Len(rows) + 1 <= RowCount /\ RowCount \in Nat /\ Len(rows) \in Nat
        BY <2>1, BenchIs, RunningKnows, TupleIs DEF Now, RunInv
      <3>2. RowCount' = RowCount
        BY DEF RowCount
      <3> QED BY <3>1, <3>2
    <2> QED BY <2>1, <2>8, <2>9 DEF RunInv
  <1>3. /\ capture' = [entries |-> capture'.entries, mismatch |-> capture'.mismatch] /\ IsTuple(capture'.entries)
        /\ told' = [p \in 1 .. Len(bench.profiles) |-> told'[p]]
    BY RunningKnows
  <1> QED BY <1>1, <1>2, <1>3, GoesOn

LEMMA OpenSlotStep ==
  ASSUME BenchInv, NEW s \in Slots, OpenSlot(s)
  PROVE  BenchInv'
  <1>1. /\ Running /\ Now <= RowCount /\ ~Asked(s) /\ Send(s, calls[s])
        /\ UNCHANGED <<bench, stage, capture, rows, results, told>>
    BY DEF OpenSlot
  <1>2. s \in SlotsOf(bench) /\ s \in AgentsOf(bench) /\ s # CriticOf(bench)
    BY <1>1, RunningKnows, BenchIs, AgentsAre
  <1>3. Spotless => calls[CriticOf(bench)].state = "unasked"
    <2>1. Spotless => CriticLast(bench, calls)
      BY <1>1, RunningKnows DEF RunInv, InCase
    <2>2. calls[s].state = "unasked"
      BY <1>1 DEF Asked
    <2> QED BY <1>2, <2>1, <2>2 DEF CriticLast
  <1> QED BY <1>1, <1>2, <1>3, AskStep

LEMMA FindsReported ==
  ASSUME NEW a, calls[a].state = "done"
  PROVE  Finds(a) <=> Reported(bench, calls[a].answer)
  BY DEF Finds, Ok, Reported

LEMMA AskCriticStep ==
  ASSUME BenchInv, AskCritic
  PROVE  BenchInv'
  <1>1. /\ Running /\ Now <= RowCount /\ bench.critic /\ ~Asked(Critic)
        /\ (\A s \in Slots : Done(s)) /\ (\E s \in Slots : Finds(s)) /\ Send(Critic, calls[Critic])
        /\ UNCHANGED <<bench, stage, capture, rows, results, told>>
    BY DEF AskCritic
  <1>2. Slots = SlotsOf(bench) /\ Critic = CriticOf(bench) /\ CriticOf(bench) \in AgentsOf(bench)
    BY <1>1, RunningKnows, BenchIs, AgentsAre
  <1>3. /\ \A s \in SlotsOf(bench) : calls[s].state = "done"
        /\ \E s \in SlotsOf(bench) : Reported(bench, calls[s].answer)
        /\ calls[CriticOf(bench)].state = "unasked"
    BY <1>1, <1>2, FindsReported DEF Done, Asked
  <1> QED BY <1>1, <1>2, <1>3, AskStep

\* Somebody is answered.
LEMMA AnswerStep ==
  ASSUME BenchInv, NEW a \in AgentsOf(bench), Waiting(a), NEW r, Deliver(a, r), Spotless, ~budget'.exceeded,
         UNCHANGED <<bench, stage, rows>>
  PROVE  /\ InCase(bench, told'[stage.profile], calls', turn', Len(rows) + 1)
         /\ \A q \in 1 .. Len(bench.profiles) : q # stage.profile => told'[q] = told[q]
         /\ told'[stage.profile] = told[stage.profile] \cup {TheAnswer(a, r)}
         /\ calls[a].ordinal \in Nat /\ \A t \in told[stage.profile] : t.ordinal # calls[a].ordinal
         /\ Len(rows) # RowCount
  <1>1. Running /\ calls[a].state = "asked"
    BY DEF Waiting
  <1>2. RunInv /\ InCase(bench, told[stage.profile], calls, turn, Len(rows) + 1)
    BY <1>1, RunningKnows DEF RunInv
  <1>3. told' = [told EXCEPT ![stage.profile] = @ \cup {TheAnswer(a, r)}]
    BY <1>1, RunningKnows, DeliverDoes
  <1>4. /\ \A q \in 1 .. Len(bench.profiles) : q # stage.profile => told'[q] = told[q]
        /\ told'[stage.profile] = told[stage.profile] \cup {TheAnswer(a, r)}
    BY <1>1, <1>3, RunningKnows
  <1>5. IsCall(calls[a])
    BY <1>2 DEF InCase, Calling
  <1>6. PICK d : /\ IsCall(d) /\ calls' = [calls EXCEPT ![a] = d]
                 /\ \/ /\ d.state = "done" /\ d.try = calls[a].try /\ d.answer = r
                       /\ LastOf(bench, a, calls[a].try, r) /\ turn' = turn
                    \/ /\ d.state = "asked" /\ d.try = calls[a].try + 1 /\ d.ordinal = turn
                       /\ ~LastOf(bench, a, calls[a].try, r) /\ turn' = turn + 1
    BY <1>1, <1>5, RunningKnows, DeliverDoes
  <1> DEFINE t0 == TheAnswer(a, r)
  <1>7. /\ IsAnswered(t0) /\ t0.row = Len(rows) + 1 /\ t0.agent = a /\ t0.try = calls[a].try
        /\ t0.ordinal = calls[a].ordinal /\ t0.answer = r
    BY DEF TheAnswer, IsAnswered, Now
  <1>8. Final(bench, t0) <=> LastOf(bench, a, calls[a].try, r)
    BY <1>7 DEF Final
  <1> HIDE DEF t0
  <1>9. InCase(bench, told[stage.profile] \cup {t0}, [calls EXCEPT ![a] = d], turn', Len(rows) + 1)
    BY <1>1, <1>2, <1>6, <1>7, <1>8, AttemptAnswered, BenchIs, RunningKnows
  <1>10. InCase(bench, told'[stage.profile], calls', turn', Len(rows) + 1)
    BY <1>4, <1>6, <1>9 DEF t0
  <1>11. Pending(bench, told[stage.profile], calls[a], a, Len(rows) + 1, turn)
    BY <1>2 DEF InCase
  <1>12. calls[a].ordinal \in Nat /\ \A t \in told[stage.profile] : t.ordinal # calls[a].ordinal
    BY <1>1, <1>11 DEF Pending
  <1>13. Len(rows) # RowCount
    BY <1>1, <1>2 DEF RunInv
  <1> QED BY <1>4, <1>10, <1>12, <1>13

LEMMA AskedFor ==
  ASSUME bench \in Benches, NEW a \in AgentsOf(bench), NEW r, NEW e, e.request = Request(a, calls[a].ordinal), e.answer = r
  PROVE  CapturedAs(bench, e, TheAnswer(a, r))
  BY BenchIs DEF CapturedAs, TheAnswer, Request, WhoOf

LEMMA CaptureStep ==
  ASSUME BenchInv, NEW a \in Agents, Capture(a)
  PROVE  BenchInv'
  <1>1. Live /\ Waiting(a) /\ Running /\ UNCHANGED <<bench, stage, rows, results, head>>
    BY DEF Capture, Waiting
  <1>2. PICK r : /\ capture' = IF r.out = "odd" THEN [capture EXCEPT !.mismatch = TRUE]
                      ELSE [capture EXCEPT !.entries = Append(@,
                               [request |-> Request(a, calls[a].ordinal), answer |-> r,
                                case |-> Case(Now).id, repeat |-> RepeatOf(Now)])]
                 /\ Deliver(a, r)
    BY DEF Capture
  <1>3. a \in AgentsOf(bench) /\ stage.profile = 1
    BY <1>1, RunningKnows, BenchIs DEF Live
  <1> DEFINE e == [request |-> Request(a, calls[a].ordinal), answer |-> r, case |-> Case(Now).id, repeat |-> RepeatOf(Now)]
  <1>4. e.request = Request(a, calls[a].ordinal) /\ e.answer = r
    OBVIOUS
  <1>5. capture' = IF r.out = "odd" THEN [capture EXCEPT !.mismatch = TRUE] ELSE [capture EXCEPT !.entries = Append(@, e)]
    BY <1>2
  <1> HIDE DEF e
  <1>6. /\ capture' = [entries |-> capture'.entries, mismatch |-> capture'.mismatch]
        /\ capture.mismatch => capture'.mismatch
        /\ capture'.entries = IF r.out = "odd" THEN capture.entries ELSE Append(capture.entries, e)
        /\ ~capture'.mismatch => r.out # "odd"
    BY <1>1, <1>5, RunningKnows
  <1>7. IsTuple(capture'.entries)
    BY <1>1, <1>6, RunningKnows, TupleGrows
  <1>8. /\ told' = [told EXCEPT ![stage.profile] = @ \cup {TheAnswer(a, r)}]
        /\ budget' = [used |-> budget'.used, exceeded |-> budget'.exceeded]
        /\ budget.exceeded => budget'.exceeded
    BY <1>1, <1>2, <1>3, RunningKnows, DeliverDoes
  <1>9. told' = [p \in 1 .. Len(bench.profiles) |-> told'[p]]
    BY <1>1, <1>8, RunningKnows
  <1>10. ASSUME Spotless' PROVE RunInv'
    <2>1. Spotless /\ ~budget'.exceeded /\ r.out # "odd" /\ RunInv
      BY <1>1, <1>6, <1>8, <1>10, RunningKnows DEF Spotless
    <2>2. /\ InCase(bench, told'[stage.profile], calls', turn', Len(rows) + 1)
          /\ \A q \in 1 .. Len(bench.profiles) : q # stage.profile => told'[q] = told[q]
          /\ told'[stage.profile] = told[stage.profile] \cup {TheAnswer(a, r)}
          /\ \A t \in told[stage.profile] : t.ordinal # calls[a].ordinal
          /\ Len(rows) # RowCount
      BY <1>1, <1>2, <1>3, <2>1, AnswerStep
    <2>3. CapturedAs(bench, e, TheAnswer(a, r)) /\ TheAnswer(a, r).ordinal = calls[a].ordinal
      BY <1>1, <1>3, <1>4, AskedFor, RunningKnows DEF TheAnswer
    <2>4. PICK S : capture.entries \in Seq(S)
      BY <1>1, RunningKnows DEF IsTuple
    <2>5. TapedAs(bench, told[1], capture.entries)
      BY <1>3, <2>1 DEF RunInv
    <2>6. TapedAs(bench, told[1] \cup {TheAnswer(a, r)}, Append(capture.entries, e))
      BY <1>3, <2>2, <2>3, <2>4, <2>5, CaptureGrows
    <2>7. TapedAs(bench', told'[1], capture'.entries)
      BY <1>1, <1>3, <1>6, <2>1, <2>2, <2>6
    <2>8. InCase(bench', told'[stage'.profile], calls', turn', Len(rows') + 1)
      BY <1>1, <2>2
    <2>9. RowCount' = RowCount /\ Len(rows') # RowCount'
      BY <1>1, <2>2 DEF RowCount
    <2>10. \A q \in 1 .. Len(bench'.profiles) : (q < stage'.profile => told'[q] = told'[1]) /\ (q > stage'.profile => told'[q] = {})
      BY <1>1, <1>3, <2>1, <2>2 DEF RunInv
    <2> QED BY <1>1, <1>3, <2>1, <2>7, <2>8, <2>9, <2>10 DEF RunInv
  <1> QED BY <1>1, <1>3, <1>6, <1>7, <1>8, <1>9, <1>10, GoesOn

LEMMA ReplayStep ==
  ASSUME BenchInv, NEW a \in Agents, Replay(a)
  PROVE  BenchInv'
  <1>1. ~Live /\ Waiting(a) /\ Running /\ UNCHANGED <<bench, stage, rows, results, head>>
    BY DEF Replay, Waiting
  <1>2. PICK r : /\ Deliver(a, r)
                 /\ \/ Expected(a) /\ r = capture.entries[calls[a].ordinal + 1].answer /\ capture' = capture
                    \/ capture' = [capture EXCEPT !.mismatch = TRUE]
    BY DEF Replay
  <1>3. a \in AgentsOf(bench) /\ stage.profile # 1 /\ stage.profile \in 1 .. Len(bench.profiles) /\ Len(bench.profiles) \in Nat \ {0}
    BY <1>1, RunningKnows, BenchIs DEF Live
  <1>4. /\ capture' = [entries |-> capture'.entries, mismatch |-> capture'.mismatch]
        /\ capture'.entries = capture.entries
        /\ ~capture'.mismatch => capture' = capture /\ Expected(a) /\ r = capture.entries[calls[a].ordinal + 1].answer
    BY <1>1, <1>2, RunningKnows
  <1>5. IsTuple(capture'.entries)
    BY <1>1, <1>4, RunningKnows
  <1>6. /\ told' = [told EXCEPT ![stage.profile] = @ \cup {TheAnswer(a, r)}]
        /\ budget' = [used |-> budget'.used, exceeded |-> budget'.exceeded]
        /\ budget' = budget
    BY <1>1, <1>2, <1>3, RunningKnows, DeliverDoes
  <1>7. told' = [p \in 1 .. Len(bench.profiles) |-> told'[p]]
    BY <1>1, <1>6, RunningKnows
  <1>8. ASSUME Spotless' PROVE RunInv'
    <2>1. Spotless /\ ~budget'.exceeded /\ RunInv /\ capture' = capture /\ Expected(a)
          /\ r = capture.entries[calls[a].ordinal + 1].answer
      BY <1>1, <1>4, <1>6, <1>8, RunningKnows DEF Spotless
    <2>2. /\ InCase(bench, told'[stage.profile], calls', turn', Len(rows) + 1)
          /\ \A q \in 1 .. Len(bench.profiles) : q # stage.profile => told'[q] = told[q]
          /\ told'[stage.profile] = told[stage.profile] \cup {TheAnswer(a, r)}
          /\ calls[a].ordinal \in Nat /\ Len(rows) # RowCount
      BY <1>1, <1>2, <1>3, <2>1, AnswerStep
    <2>3. /\ calls[a].ordinal + 1 \in DOMAIN capture.entries
          /\ capture.entries[calls[a].ordinal + 1].request = Request(a, calls[a].ordinal)
      <3>1. Len(capture.entries) \in Nat /\ DOMAIN capture.entries = 1 .. Len(capture.entries)
        BY <1>1, RunningKnows, TupleIs
      <3> QED BY <2>1, <2>2, <3>1 DEF Expected
    <2>4. TheAnswer(a, r).ordinal = calls[a].ordinal
      BY DEF TheAnswer
    <2>5. CapturedAs(bench, capture.entries[calls[a].ordinal + 1], TheAnswer(a, r))
      BY <1>1, <1>3, <2>1, <2>3, AskedFor, RunningKnows
    <2>6. /\ Lawful(bench, told[1], Len(capture.entries), RowCount) /\ Retold(bench, told[1], capture.entries)
          /\ Retold(bench, told[stage.profile], capture.entries)
      BY <1>3, <2>1 DEF RunInv
    <2>7. Retold(bench, told'[stage.profile], capture.entries)
      BY <2>2, <2>3, <2>4, <2>5, <2>6 DEF Retold
    <2>8. told'[1] = told[1]
      BY <1>3, <2>2
    <2>9. RowCount' = RowCount
      BY <1>1 DEF RowCount
    <2>10. \A q \in 1 .. Len(bench'.profiles) : (q < stage'.profile => told'[q] = told'[1]) /\ (q > stage'.profile => told'[q] = {})
      BY <1>1, <1>3, <2>1, <2>2, <2>8 DEF RunInv
    <2>11. InCase(bench', told'[stage'.profile], calls', turn', Len(rows') + 1)
      BY <1>1, <2>2
    <2>12. /\ Lawful(bench', told'[1], Len(capture'.entries), RowCount') /\ Retold(bench', told'[1], capture'.entries)
           /\ Retold(bench', told'[stage'.profile], capture'.entries)
      BY <1>1, <2>1, <2>6, <2>7, <2>8, <2>9
    <2>13. IsTuple(rows') /\ Len(rows') <= RowCount' /\ Len(rows') # RowCount'
      BY <1>1, <2>1, <2>2, <2>9 DEF RunInv
    <2> QED BY <1>1, <1>3, <2>10, <2>11, <2>12, <2>13 DEF RunInv
  <1> QED BY <1>1, <1>4, <1>5, <1>6, <1>7, <1>8, GoesOn

LEMMA CommitStep ==
  ASSUME BenchInv, Commit
  PROVE  BenchInv'
  <1>1. Running /\ UNCHANGED <<bench, stage, calls, turn, budget, capture, rows, results, told>>
    BY DEF Commit
  <1>2. RunInv => RunInv'
    BY <1>1 DEF RunInv, RowCount
  <1>3. Spotless' => Spotless
    BY <1>1 DEF Spotless
  <1> QED BY <1>1, <1>2, <1>3, RunningKnows, GoesOn DEF BenchInv, BenchTypes

LEMMA UnaskedIs == IsCall(Unasked) /\ Unasked.state = "unasked" /\ Unasked.try = 0
  BY DEF IsCall, Unasked

LEMMA CloseCaseStep ==
  ASSUME BenchInv, CloseCase
  PROVE  BenchInv'
  <1>1. /\ Running /\ Now <= RowCount /\ \A s \in Slots : Done(s)
        /\ bench.critic /\ (\E s \in Slots : Finds(s)) => Done(Critic)
        /\ rows' = Append(rows, Row) /\ calls' = [a \in Agents |-> Unasked]
        /\ UNCHANGED <<bench, stage, turn, budget, capture, results, head, told>>
    BY DEF CloseCase
  <1>2. Slots = SlotsOf(bench) /\ Critic = CriticOf(bench) /\ Agents = AgentsOf(bench) /\ RowCount \in Nat
    BY <1>1, RunningKnows, BenchIs
  <1>3. /\ \A s \in SlotsOf(bench) : calls[s].state = "done"
        /\ bench.critic /\ (\E s \in SlotsOf(bench) : Reported(bench, calls[s].answer)) => calls[CriticOf(bench)].state = "done"
    BY <1>1, <1>2, FindsReported DEF Done
  <1>4. ASSUME Spotless' PROVE RunInv'
    <2>1. Spotless /\ RunInv
      BY <1>1, <1>4, RunningKnows DEF Spotless
    <2>2. InCase(bench, told[stage.profile], calls, turn, Len(rows) + 1) /\ IsTuple(rows)
      BY <2>1 DEF RunInv
    <2>3. \A a \in AgentsOf(bench) : calls'[a] = Unasked
      BY <1>1, <1>2
    <2>4. calls' = [a \in AgentsOf(bench) |-> calls'[a]]
      BY <1>1, <1>2
    <2>5. InCase(bench, told[stage.profile], calls', turn, (Len(rows) + 1) + 1)
      BY <1>1, <1>3, <2>2, <2>3, <2>4, NextRow, BenchIs, RunningKnows, UnaskedIs
    <2>6. IsTuple(rows') /\ Len(rows') = Len(rows) + 1
      BY <1>1, <2>2, TupleGrows
    <2>7. RowCount' = RowCount
      BY <1>1 DEF RowCount
    <2>8. Len(rows') <= RowCount'
      BY <1>1, <2>6, <2>7 DEF Now
    <2>9. InCase(bench', told'[stage'.profile], calls', turn', Len(rows') + 1)
      BY <1>1, <2>5, <2>6
    <2>10. \A a \in AgentsOf(bench') : calls'[a].state = "unasked"
      BY <1>1, <2>3, UnaskedIs
    <2> QED BY <1>1, <2>1, <2>6, <2>7, <2>8, <2>9, <2>10 DEF RunInv
  <1> QED BY <1>1, <1>4, RunningKnows, GoesOn DEF BenchInv, BenchTypes

(***************************************************************************)
(* The end of a profile, and of the benchmark.                             *)
(***************************************************************************)

\* Nobody has been asked yet.
LEMMA FirstRow ==
  ASSUME NEW b, b.reviewers \in Seq(Range(b.reviewers)), NEW cs, cs = [a \in AgentsOf(b) |-> cs[a]],
         \A a \in AgentsOf(b) : IsCall(cs[a]) /\ cs[a].state = "unasked" /\ cs[a].try = 0
  PROVE  InCase(b, {}, cs, 0, 1)
  <1>1. Orderly(b, {})
    BY DEF Orderly
  <1>2. Calling(b, cs) /\ CriticLast(b, cs)
    BY AgentsAre DEF Calling, CriticLast
  <1>3. \A a \in AgentsOf(b) : Heard(b, {}, cs[a], a, 1) /\ Pending(b, {}, cs[a], a, 1, 0)
    BY DEF Heard, Pending
  <1>4. NumberedTo(b, {}, cs, 0)
    BY DEF NumberedTo
  <1> QED BY <1>1, <1>2, <1>3, <1>4 DEF InCase

\* All rows are closed.
LEMMA ProfileDone ==
  ASSUME NEW b, NEW H, NEW cs, NEW T, NEW n \in Nat, InCase(b, H, cs, T, n + 1),
         \A a \in AgentsOf(b) : cs[a].state = "unasked"
  PROVE  Lawful(b, H, T, n) /\ T \in Nat
  <1>1. /\ T \in Nat /\ Orderly(b, H) /\ (\A t \in H : t.row \in 1 .. n + 1) /\ NumberedTo(b, H, cs, T)
        /\ \A m \in 1 .. (n + 1) - 1 : RowClosed(b, H, m)
    BY DEF InCase
  <1>2. \A a \in AgentsOf(b) : Heard(b, H, cs[a], a, n + 1)
    BY DEF InCase
  <1>3. ASSUME NEW t \in H PROVE t.row \in 1 .. n
    <2>1. t.row # n + 1
      <3>1. t.agent \in AgentsOf(b)
        BY <1>1 DEF Orderly
      <3> QED BY <1>2, <3>1 DEF Heard
    <2> QED BY <1>1, <2>1
  <1>4. Numbered(H, T)
    BY <1>1 DEF NumberedTo, Numbered
  <1>5. \A m \in 1 .. n : RowClosed(b, H, m)
    BY <1>1
  <1> QED BY <1>1, <1>3, <1>4, <1>5 DEF Lawful

LEMMA GateRefuses ==
  ASSUME NEW rs, GateExit(rs) = 0
  PROVE  ~budget.exceeded
  <1> DEFINE s == Scored(rs) = {} /\ ~budget.exceeded
  <1>1. GateExit(rs) = CASE s -> 3 [] ~s /\ GateReasons(rs) -> 4 [] OTHER -> 0
    BY DEF GateExit
  <1>2. budget.exceeded => ~s /\ GateReasons(rs)
    BY DEF GateReasons
  <1> HIDE DEF s
  <1> QED BY <1>1, <1>2

\* Each reviewer has one slot.
Distinct == \A b \in Benches : \A s, r \in SlotsOf(b) : b.reviewers[s] = b.reviewers[r] => s = r

\* A replay that met everything and left nothing heard what the baseline heard.
LEMMA ProfileAlike ==
  ASSUME Distinct, BenchTypes, RunInv, stage.profile # 1, Len(rows) = RowCount, turn = Len(capture.entries)
  PROVE  told[stage.profile] = told[1]
  <1>1. /\ bench \in Benches /\ RowCount \in Nat /\ bench.reviewers \in Seq(Range(bench.reviewers))
        /\ "critic" \notin Range(bench.reviewers)
    BY BenchIs DEF BenchTypes
  <1>2. /\ InCase(bench, told[stage.profile], calls, turn, RowCount + 1)
        /\ \A a \in AgentsOf(bench) : calls[a].state = "unasked"
        /\ Lawful(bench, told[1], turn, RowCount)
        /\ Retold(bench, told[1], capture.entries) /\ Retold(bench, told[stage.profile], capture.entries)
    BY DEF RunInv
  <1>3. Lawful(bench, told[stage.profile], turn, RowCount) /\ turn \in Nat
    BY <1>1, <1>2, ProfileDone
  <1>4. Orderly(bench, told[1]) /\ Orderly(bench, told[stage.profile])
    BY <1>2, <1>3 DEF Lawful
  <1>5. \A s, r \in SlotsOf(bench) : bench.reviewers[s] = bench.reviewers[r] => s = r
    BY <1>1 DEF Distinct
  <1>6. Agree(told[stage.profile], told[1])
    BY <1>1, <1>2, <1>4, <1>5, RetoldAgree
  <1> QED BY <1>1, <1>2, <1>3, <1>6, OneHistory

LEMMA EndProfileStep ==
  ASSUME Distinct, BenchInv, EndProfile
  PROVE  BenchInv'
  <1> DEFINE spoiled == capture.mismatch \/ (~Live /\ turn # Len(capture.entries))
             result == [rows |-> rows, exit |-> GateExit(rows), commit |-> stage.commit]
  <1>1. /\ Running /\ Now > RowCount
        /\ results' = Append(results, result)
        /\ stage' = CASE spoiled -> [stage EXCEPT !.pc = "refused", !.exit = 4]
                      [] ~spoiled /\ stage.profile = Len(bench.profiles) -> [stage EXCEPT !.pc = "judging"]
                      [] OTHER -> [stage EXCEPT !.profile = @ + 1, !.commit = head]
        /\ capture' = IF Live THEN [capture EXCEPT !.entries = ByOrdinal(@)] ELSE capture
        /\ rows' = <<>> /\ turn' = 0
        /\ UNCHANGED <<bench, calls, budget, head, told>>
    BY DEF EndProfile
  <1>2. /\ BenchTypes /\ stage.pc = "running" /\ (Spotless => RunInv) /\ bench \in Benches
        /\ stage.profile \in 1 .. Len(bench.profiles) /\ Len(bench.profiles) \in Nat \ {0} /\ RowCount \in Nat
        /\ stage = [pc |-> stage.pc, profile |-> stage.profile, commit |-> stage.commit, exit |-> stage.exit]
        /\ IsTuple(results) /\ Len(results) = stage.profile - 1
        /\ (Len(results) > 0 /\ results[1].exit = 0 => ~budget.exceeded)
        /\ capture = [entries |-> capture.entries, mismatch |-> capture.mismatch] /\ IsTuple(capture.entries)
        /\ budget = [used |-> budget.used, exceeded |-> budget.exceeded]
        /\ told = [p \in 1 .. Len(bench.profiles) |-> told[p]]
    BY <1>1, RunningKnows, BenchIs DEF BenchTypes
  <1>3. result.exit = GateExit(rows)
    OBVIOUS
  <1>4. Live <=> stage.profile = 1
    BY DEF Live
  <1>5. /\ capture' = [entries |-> capture'.entries, mismatch |-> capture'.mismatch]
        /\ capture'.mismatch = capture.mismatch
        /\ capture'.entries = IF Live THEN ByOrdinal(capture.entries) ELSE capture.entries
    BY <1>1, <1>2
  <1>6. IsTuple(capture'.entries)
    <2>1. IsTuple(ByOrdinal(capture.entries))
      <3> DEFINE B == ByOrdinal(capture.entries)
      <3>1. DOMAIN capture.entries = 1 .. Len(capture.entries) /\ Len(capture.entries) \in Nat
        BY <1>2, TupleIs
      <3>2. B = [n \in 1 .. Len(capture.entries) |-> B[n]]
        BY <3>1 DEF ByOrdinal
      <3> HIDE DEF B
      <3>3. B \in [1 .. Len(capture.entries) -> {B[n] : n \in 1 .. Len(capture.entries)}]
        BY <3>2
      <3>4. B \in Seq({B[n] : n \in 1 .. Len(capture.entries)})
        BY <3>1, <3>3
      <3> QED BY <3>4 DEF IsTuple, B
    <2> QED BY <1>2, <1>5, <2>1
  <1> HIDE DEF result
  <1>7. /\ IsTuple(results') /\ Len(results') = stage.profile
        /\ results'[1].exit = 0 => ~budget.exceeded
    <2>1. /\ IsTuple(results') /\ Len(results') = Len(results) + 1 /\ Len(results) \in Nat
          /\ \A i \in 1 .. Len(results) : results'[i] = results[i]
          /\ results'[Len(results) + 1] = result
      BY <1>1, <1>2, TupleGrows, TupleIs
    <2>2. CASE Len(results) = 0
      BY <1>2, <1>3, <2>1, <2>2, GateRefuses
    <2>3. CASE Len(results) > 0
      <3>1. 1 \in 1 .. Len(results)
        BY <2>1, <2>3
      <3> QED BY <1>2, <2>1, <2>3, <3>1
    <2> QED BY <1>2, <2>1, <2>2, <2>3
  <1> HIDE DEF spoiled
  <1>8. CASE spoiled
    <2>1. stage' = [stage EXCEPT !.pc = "refused", !.exit = 4]
      BY <1>1, <1>8
    <2>2. /\ stage' = [pc |-> stage'.pc, profile |-> stage'.profile, commit |-> stage'.commit, exit |-> stage'.exit]
          /\ stage'.pc = "refused" /\ stage'.profile = stage.profile
      BY <1>2, <2>1
    <2>3. BenchTypes'
      BY <1>1, <1>2, <1>5, <1>6, <1>7, <2>2 DEF BenchTypes
    <2>4. SameAnswers'
      BY <2>2 DEF SameAnswers
    <2> QED BY <2>2, <2>3, <2>4 DEF BenchInv
  <1>9. ASSUME ~spoiled
        PROVE  ~capture.mismatch /\ (Live \/ turn = Len(capture.entries))
    BY <1>9 DEF spoiled
  <1>10. ASSUME Spotless
         PROVE  RunInv /\ Len(rows) = RowCount /\ \A a \in AgentsOf(bench) : calls[a].state = "unasked"
    <2>1. RunInv /\ IsTuple(rows) /\ Len(rows) <= RowCount
      BY <1>2, <1>10 DEF RunInv
    <2>2. Len(rows) + 1 > RowCount /\ Len(rows) \in Nat
      BY <1>1, <2>1, TupleIs DEF Now
    <2>3. Len(rows) = RowCount
      BY <1>2, <2>1, <2>2
    <2> QED BY <2>1, <2>3 DEF RunInv
  <1>11. ASSUME Spotless, ~spoiled, stage.profile # 1 PROVE told[stage.profile] = told[1]
    BY <1>2, <1>4, <1>9, <1>10, <1>11, ProfileAlike
  <1>12. ASSUME Spotless, ~spoiled, NEW q \in 1 .. stage.profile PROVE told[q] = told[1]
    <2>1. CASE q = stage.profile
      BY <1>11, <1>12, <2>1
    <2>2. CASE q # stage.profile
      <3>1. \A p \in 1 .. Len(bench.profiles) : p < stage.profile => told[p] = told[1]
        BY <1>10, <1>12 DEF RunInv
      <3>2. q \in 1 .. Len(bench.profiles) /\ q < stage.profile
        BY <1>2, <2>2
      <3> QED BY <3>1, <3>2
    <2> QED BY <2>1, <2>2
  <1>13. CASE ~spoiled /\ stage.profile = Len(bench.profiles)
    <2>1. stage' = [stage EXCEPT !.pc = "judging"]
      BY <1>1, <1>13
    <2>2. /\ stage' = [pc |-> stage'.pc, profile |-> stage'.profile, commit |-> stage'.commit, exit |-> stage'.exit]
          /\ stage'.pc = "judging" /\ stage'.profile = stage.profile
      BY <1>2, <2>1
    <2>3. BenchTypes'
      BY <1>1, <1>2, <1>5, <1>6, <1>7, <1>9, <1>13, <2>2 DEF BenchTypes
    <2>4. SameAnswers'
      BY <2>2 DEF SameAnswers
    <2>5. Spotless' => Spotless
      BY <1>1, <1>5 DEF Spotless
    <2>6. Spotless' => \A q \in 1 .. Len(bench'.profiles) : told'[q] = told'[1]
      BY <1>1, <1>12, <1>13, <2>5
    <2> QED BY <2>2, <2>3, <2>4, <2>6 DEF BenchInv
  <1>14. CASE ~spoiled /\ stage.profile # Len(bench.profiles)
    <2>1. stage' = [stage EXCEPT !.profile = @ + 1, !.commit = head]
      BY <1>1, <1>14
    <2>2. /\ stage' = [pc |-> stage'.pc, profile |-> stage'.profile, commit |-> stage'.commit, exit |-> stage'.exit]
          /\ stage'.pc = "running" /\ stage'.profile = stage.profile + 1
      BY <1>2, <2>1
    <2>3. stage'.profile \in 1 .. Len(bench.profiles) /\ stage'.profile # 1
      BY <1>2, <1>14, <2>2
    <2>4. BenchTypes'
      BY <1>1, <1>2, <1>5, <1>6, <1>7, <2>2, <2>3 DEF BenchTypes
    <2>5. SameAnswers'
      BY <2>2 DEF SameAnswers
    <2>6. ASSUME Spotless' PROVE RunInv'
      <3>1. Spotless
        BY <1>1, <1>5, <2>6 DEF Spotless
      <3>2. /\ RunInv /\ Len(rows) = RowCount /\ \A a \in AgentsOf(bench) : calls[a].state = "unasked"
        BY <1>10, <3>1
      <3>3. InCase(bench, told[stage.profile], calls, turn, RowCount + 1)
        BY <3>2 DEF RunInv
      <3>4. /\ told[stage.profile + 1] = {}
            /\ \A q \in 1 .. Len(bench.profiles) : q > stage.profile => told[q] = {}
        <4>1. \A q \in 1 .. Len(bench.profiles) : q > stage.profile => told[q] = {}
          BY <3>2 DEF RunInv
        <4>2. stage.profile + 1 \in 1 .. Len(bench.profiles) /\ stage.profile + 1 > stage.profile
          BY <1>2, <2>2, <2>3
        <4> QED BY <4>1, <4>2
      <3>5. InCase(bench, {}, calls, 0, 1)
        <4>1. /\ calls = [a \in AgentsOf(bench) |-> calls[a]]
              /\ \A a \in AgentsOf(bench) : IsCall(calls[a]) /\ Heard(bench, told[stage.profile], calls[a], a, RowCount + 1)
          BY <3>3 DEF InCase, Calling
        <4>2. \A a \in AgentsOf(bench) : calls[a].try = 0
          BY <3>2, <4>1 DEF Heard
        <4> QED BY <1>2, <3>2, <4>1, <4>2, FirstRow, BenchIs
      <3>6. IsTuple(rows') /\ Len(rows') = 0
        <4>1. <<>> \in Seq({}) /\ Len(<<>>) = 0
          BY EmptySeq
        <4> QED BY <1>1, <4>1 DEF IsTuple
      <3>7. RowCount' = RowCount
        BY <1>1 DEF RowCount
      <3>8. InCase(bench', told'[stage'.profile], calls', turn', Len(rows') + 1)
        <4>1. bench' = bench /\ told'[stage'.profile] = {} /\ calls' = calls /\ turn' = 0 /\ Len(rows') + 1 = 1
          BY <1>1, <2>2, <3>4, <3>6
        <4> QED BY <3>5, <4>1
      <3>9. \A a \in AgentsOf(bench') : calls'[a].state = "unasked"
        BY <1>1, <3>2
      <3>10. \A q \in 1 .. Len(bench'.profiles) :
               (q < stage'.profile => told'[q] = told'[1]) /\ (q > stage'.profile => told'[q] = {})
        <4>1. /\ bench' = bench /\ told' = told /\ stage'.profile = stage.profile + 1
              /\ stage.profile \in Nat /\ Len(bench.profiles) \in Nat
          BY <1>1, <1>2, <2>2
        <4>2. ASSUME NEW q \in 1 .. Len(bench.profiles), q < stage.profile + 1 PROVE told[q] = told[1]
          <5>1. q \in 1 .. stage.profile
            BY <4>1, <4>2
          <5> QED BY <1>12, <1>14, <3>1, <5>1
        <4>3. ASSUME NEW q \in 1 .. Len(bench.profiles), q > stage.profile + 1 PROVE told[q] = {}
          <5>1. q > stage.profile
            BY <4>1, <4>3
          <5> QED BY <3>4, <5>1
        <4> QED BY <4>1, <4>2, <4>3
      <3>11. /\ Lawful(bench, told[1], Len(capture'.entries), RowCount) /\ Retold(bench, told[1], capture'.entries)
        <4>1. CASE stage.profile = 1
          <5>1. TapedAs(bench, told[1], capture.entries) /\ InCase(bench, told[1], calls, turn, RowCount + 1)
            BY <3>2, <3>3, <4>1 DEF RunInv
          <5>2. Lawful(bench, told[1], turn, RowCount) /\ turn \in Nat
            BY <1>2, <3>2, <5>1, ProfileDone
          <5>3. PICK S : capture.entries \in Seq(S)
            BY <1>2 DEF IsTuple
          <5>4. Orderly(bench, told[1]) /\ Numbered(told[1], turn)
            BY <5>2 DEF Lawful
          <5>5. Len(ByOrdinal(capture.entries)) = turn /\ Retold(bench, told[1], ByOrdinal(capture.entries))
            BY <5>1, <5>2, <5>3, <5>4, TapeSorted
          <5> QED BY <1>4, <1>5, <4>1, <5>2, <5>5
        <4>2. CASE stage.profile # 1
          BY <1>4, <1>5, <3>2, <4>2 DEF RunInv
        <4> QED BY <4>1, <4>2
      <3>12. Retold(bench, told[stage'.profile], capture'.entries)
        BY <2>2, <3>4 DEF Retold
      <3>13. /\ Lawful(bench', told'[1], Len(capture'.entries), RowCount') /\ Retold(bench', told'[1], capture'.entries)
             /\ Retold(bench', told'[stage'.profile], capture'.entries)
        BY <1>1, <3>7, <3>11, <3>12
      <3>14. Len(rows') <= RowCount'
        BY <1>2, <3>6, <3>7
      <3> QED BY <2>3, <3>6, <3>8, <3>9, <3>10, <3>13, <3>14 DEF RunInv
    <2> QED BY <2>2, <2>4, <2>5, <2>6 DEF BenchInv
  <1> QED BY <1>8, <1>13, <1>14

LEMMA JudgeStep ==
  ASSUME BenchInv, Judge
  PROVE  BenchInv'
  <1> DEFINE refused == {p \in DOMAIN results :
                           \/ results[p].exit # 0
                           \/ results[p].commit # results[1].commit
                           \/ p > 1 /\ ~Paired(results[1].rows, results[p].rows)}
             exit == CASE results[1].exit # 0 -> results[1].exit
                       [] results[1].exit = 0 /\ refused # {} ->
                            IF results[Min(refused)].exit = 0 THEN 4 ELSE results[Min(refused)].exit
                       [] OTHER -> IF bench.policy /\ \E p \in DOMAIN results : ~Closed(results[p].rows) THEN 4 ELSE 0
  <1>1. /\ stage.pc = "judging"
        /\ stage' = [stage EXCEPT !.pc = IF exit = 0 THEN "accepted" ELSE "refused", !.exit = exit]
        /\ UNCHANGED <<bench, calls, turn, budget, capture, rows, results, head, told>>
    BY DEF Judge
  <1>2. exit = 0 => results[1].exit = 0 /\ refused = {}
    <2> HIDE DEF refused
    <2>1. CASE results[1].exit # 0
      <3>1. exit = results[1].exit
        BY <2>1
      <3> QED BY <2>1, <3>1
    <2>2. CASE results[1].exit = 0 /\ refused # {}
      <3>1. exit = IF results[Min(refused)].exit = 0 THEN 4 ELSE results[Min(refused)].exit
        BY <2>2
      <3> HIDE DEF exit
      <3> QED BY <3>1
    <2> QED BY <2>1, <2>2
  <1>3. refused = {} => \A p \in DOMAIN results : results[p].commit = results[1].commit
    OBVIOUS
  <1> HIDE DEF exit, refused
  <1>4. BenchTypes /\ (Spotless => \A q \in 1 .. Len(bench.profiles) : told[q] = told[1])
    BY <1>1 DEF BenchInv
  <1>5. /\ Len(results) = Len(bench.profiles) /\ ~capture.mismatch /\ Len(bench.profiles) \in Nat \ {0}
        /\ DOMAIN results = 1 .. Len(results) /\ DOMAIN told = 1 .. Len(bench.profiles)
        /\ (results[1].exit = 0 => ~budget.exceeded)
        /\ stage = [pc |-> stage.pc, profile |-> stage.profile, commit |-> stage.commit, exit |-> stage.exit]
    BY <1>1, <1>4, BenchIs, TupleIs DEF BenchTypes
  <1>6. /\ stage' = [pc |-> stage'.pc, profile |-> stage'.profile, commit |-> stage'.commit, exit |-> stage'.exit]
        /\ stage'.pc = (IF exit = 0 THEN "accepted" ELSE "refused") /\ stage'.profile = stage.profile
    BY <1>1, <1>5
  <1>7. BenchTypes'
    BY <1>1, <1>4, <1>6 DEF BenchTypes
  <1>8. ASSUME stage'.pc = "accepted", NEW p \in DOMAIN told' PROVE Said(p)' = Said(1)' /\ results'[p].commit = results'[1].commit
    <2>1. exit = 0
      BY <1>6, <1>8
    <2>2. Spotless
      BY <1>2, <1>5, <2>1 DEF Spotless
    <2>3. told'[p] = told'[1] /\ p \in DOMAIN results
      BY <1>1, <1>4, <1>5, <1>8, <2>2
    <2>4. results'[p].commit = results'[1].commit
      BY <1>1, <1>2, <1>3, <2>1, <2>3
    <2> QED BY <2>3, <2>4 DEF Said
  <1>9. SameAnswers'
    BY <1>8 DEF SameAnswers
  <1> QED BY <1>6, <1>7, <1>9 DEF BenchInv

LEMMA BenchStill ==
  ASSUME BenchInv, UNCHANGED benchVars
  PROVE  BenchInv'
  <1>1. UNCHANGED <<bench, stage, calls, turn, budget, capture, rows, results, head, told>>
    BY DEF benchVars
  <1>2. BenchTypes'
    BY <1>1 DEF BenchInv, BenchTypes
  <1>3. RunInv => RunInv'
    BY <1>1 DEF RunInv, RowCount
  <1>4. Spotless' => Spotless
    BY <1>1 DEF Spotless
  <1>5. SameAnswers'
    <2>1. \A p : Said(p)' = Said(p)
      BY <1>1 DEF Said
    <2> QED BY <1>1, <2>1 DEF BenchInv, SameAnswers, Said
  <1> QED BY <1>1, <1>2, <1>3, <1>4, <1>5 DEF BenchInv

LEMMA BenchStarts == BenchInit => BenchInv
  <1> SUFFICES ASSUME BenchInit PROVE BenchInv
    OBVIOUS
  <1>1. /\ bench \in Benches /\ stage = [pc |-> "running", profile |-> 1, commit |-> 1, exit |-> 0]
        /\ calls = [a \in Agents |-> Unasked] /\ turn = 0 /\ budget = [used |-> 0, exceeded |-> FALSE]
        /\ capture = [entries |-> <<>>, mismatch |-> FALSE] /\ rows = <<>> /\ results = <<>>
        /\ told = [p \in DOMAIN bench.profiles |-> {}]
    BY DEF BenchInit
  <1>2. /\ bench.reviewers \in Seq(Range(bench.reviewers)) /\ Len(bench.profiles) \in Nat \ {0}
        /\ DOMAIN bench.profiles = 1 .. Len(bench.profiles) /\ RowCount \in Nat /\ Agents = AgentsOf(bench)
    BY <1>1, BenchIs
  <1>3. IsTuple(<<>>) /\ Len(<<>>) = 0
    <2>1. <<>> \in Seq({}) /\ Len(<<>>) = 0
      BY EmptySeq
    <2> QED BY <2>1 DEF IsTuple
  <1>4. BenchTypes
    BY <1>1, <1>2, <1>3 DEF BenchTypes
  <1>5. InCase(bench, {}, calls, 0, 1)
    BY <1>1, <1>2, FirstRow, UnaskedIs
  <1>6. TapedAs(bench, {}, <<>>)
    BY DEF TapedAs
  <1>7. RunInv
    <2>1. \A a \in AgentsOf(bench) : calls[a].state = "unasked"
      BY <1>1, <1>2, UnaskedIs
    <2>2. told[1] = {} /\ stage.profile = 1 /\ \A q \in 1 .. Len(bench.profiles) : told[q] = {}
      BY <1>1, <1>2
    <2> QED BY <1>1, <1>2, <1>3, <1>5, <1>6, <2>1, <2>2 DEF RunInv
  <1>8. stage.pc = "running"
    BY <1>1
  <1> QED BY <1>4, <1>7, <1>8 DEF BenchInv, SameAnswers

\* For any reviewers, each in one slot, any cases, attempts and answers, in whatever order
\* they come: a benchmark that is accepted was told in every profile what its baseline was,
\* and ran on one commit.
THEOREM ReplaysTheBaseline ==
  ASSUME Distinct
  PROVE  BenchSpec => []SameAnswers
  <1>1. BenchInv /\ [BenchNext]_benchVars => BenchInv'
    <2>1. SUFFICES ASSUME BenchInv, BenchNext PROVE BenchInv'
      BY BenchStill
    <2>2. CASE \E s \in Slots : OpenSlot(s)
      BY <2>1, <2>2, OpenSlotStep
    <2>3. CASE AskCritic
      BY <2>1, <2>3, AskCriticStep
    <2>4. CASE \E a \in Agents : Capture(a)
      BY <2>1, <2>4, CaptureStep
    <2>5. CASE \E a \in Agents : Replay(a)
      BY <2>1, <2>5, ReplayStep
    <2>6. CASE CloseCase
      BY <2>1, <2>6, CloseCaseStep
    <2>7. CASE EndProfile
      BY <2>1, <2>7, EndProfileStep
    <2>8. CASE Judge
      BY <2>1, <2>8, JudgeStep
    <2>9. CASE Commit
      BY <2>1, <2>9, CommitStep
    <2>10. CASE Ended
      BY <2>1, <2>10, BenchStill DEF Ended
    <2> QED BY <2>1, <2>2, <2>3, <2>4, <2>5, <2>6, <2>7, <2>8, <2>9, <2>10 DEF BenchNext
  <1>2. BenchInv => SameAnswers
    BY DEF BenchInv
  <1> QED BY <1>1, <1>2, BenchStarts, PTL DEF BenchSpec

==============================================================================

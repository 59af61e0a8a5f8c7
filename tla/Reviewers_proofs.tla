--------------------------- MODULE Reviewers_proofs ---------------------------
(***************************************************************************)
(* What holds of one call of a reviewer, for every adapter, every answer   *)
(* and every order of events; and of the project lore, for any pages,      *)
(* scenes and cooldowns, depending on where a gate may be killed; of the   *)
(* verdict, for any reports, settings and memories; and of the panel, for  *)
(* any configurations.                                                     *)
(***************************************************************************)
EXTENDS Reviewer, Lore, Verdict, Panel, FiniteSetTheorems, SequenceTheorems, WellFoundedInduction, TLAPS

\* A file of codex names the attempt that wrote it.
FilesAreOwn ==
    \A n \in 1 .. 2 : lastFile[n] = NoFile \/ lastFile[n].by = n

\* Only agy is probed, and only after a run that came to nothing.
ProbeKeeps ==
    try = 3 => order.p = "gemini" /\ kept \in Results /\ kept.status # "ok" /\ kept.verdict = "ERROR"

RevInv ==
    /\ phase # "done" => result = NoResult
    /\ phase = "done" => result \in Results
    /\ try \in 1 .. 3
    /\ DOMAIN lastFile = 1 .. 2
    /\ FilesAreOwn
    /\ ProbeKeeps
    /\ phase = "request" => order.p \in Http
    /\ ReviewIsWhole
    /\ BlockingIsHeard

(***************************************************************************)
(* What an answer comes to.                                                *)
(***************************************************************************)

LEMMA BlocksSplits ==
  ASSUME NEW answer
  PROVE  Blocks(answer.found) <=> Blocks(Left(answer)) \/ Blocks(Lost(answer))
  BY DEF Blocks, Left, Lost

LEMMA FailureTyped ==
  ASSUME NEW status \in Statuses
  PROVE  Failure(status) \in Results /\ Failure(status).status = status /\ Failure(status).verdict = "ERROR"
  BY DEF Failure, Outcome, Results

LEMMA MappedTyped ==
  ASSUME NEW answer
  PROVE  Mapped(answer) \in Results
  BY DEF Mapped, Failure, Outcome, Results, Statuses

LEMMA CameTyped ==
  ASSUME NEW answer
  PROVE  Came(answer) \in Results
  BY DEF Came, Classified, Banner, BaseStatus, Outcome, Failure, Mapped, Results, Statuses

\* An adapter that counts passes what has nothing blocking in it.
LEMMA MappedPass ==
  ASSUME NEW answer \in Answers, Mapped(answer).verdict = "PASS", order.p \in Counting
  PROVE  answer.verdict = "PASS" /\ ~Blocks(answer.found)
  <1>1. ~Lossy(answer)
    BY DEF Mapped, Failure, Outcome
  <1>2. ~Blocks(Left(answer))
    BY <1>1 DEF Mapped, Outcome
  <1>3. answer.verdict \in {"PASS", "FAIL"}
    BY RevAssumption
  <1>. QED
    BY <1>1, <1>2, <1>3, BlocksSplits DEF Lossy

LEMMA CamePass ==
  ASSUME NEW answer \in Answers, Came(answer).verdict = "PASS"
  PROVE  Came(answer).status = "ok" /\ Mapped(answer).verdict = "PASS"
  BY DEF Came, Mapped, Outcome, Failure

\* What comes to a review ended by itself, and was there.
LEMMA CameWhole ==
  ASSUME NEW answer, Came(answer).status = "ok"
  PROVE  ~Stopped /\ child.code = 0 /\ ReviewThere
  BY DEF Came, Classified, Banner, BaseStatus, Failure, Outcome

\* A run that is probed came to nothing.
LEMMA ProbedFailed ==
  ASSUME NEW answer, Probes
  PROVE  /\ order.p = "gemini"
         /\ Came(answer).status # "ok" /\ Came(answer).verdict = "ERROR"
  BY DEF Probes, Came, Classified, Outcome

LEMMA WrittenByThisTry ==
  ASSUME FilesAreOwn, try \in 1 .. 2, ReviewThere
  PROVE  WrittenBy = try
  BY DEF FilesAreOwn, ReviewThere, WrittenBy, LastMsgFile, NoFile

(***************************************************************************)
(* The steps.                                                              *)
(***************************************************************************)

LEMMA InitInv == RevInit => RevInv
  BY DEF RevInit, RevInv, FilesAreOwn, ProbeKeeps, ReviewIsWhole, BlockingIsHeard

\* As long as nothing is answered, there is nothing to hold of the answer.
LEMMA Unanswered ==
  ASSUME RevInv, phase # "done", phase' # "done", result' = result, order' = order,
         try' \in 1 .. 3, DOMAIN lastFile' = 1 .. 2, FilesAreOwn', ProbeKeeps', phase' = "request" => order.p \in Http
  PROVE  RevInv'
  BY DEF RevInv, ReviewIsWhole, BlockingIsHeard

\* The events before the answer.
LEMMA EventInv ==
  ASSUME RevInv,
         \/ Prints \/ Forks \/ Exits \/ HelperEnds \/ Spawn \/ Data \/ Timeout \/ Watchdog
         \/ Deadline \/ OnExit \/ Settle \/ Request
  PROVE  RevInv'
  <1>1. /\ phase # "done" /\ phase' # "done" /\ result' = result /\ order' = order /\ try' = try /\ kept' = kept
        /\ lastFile' = lastFile /\ (phase' = "request" => order.p \in Http)
    BY DEF RevInv, outside, Prints, Forks, Exits, HelperEnds, Spawn, Data, Timeout, Watchdog, Alarm, Deadline, OnExit,
           Settle, Request
  <1>2. FilesAreOwn' /\ ProbeKeeps' /\ DOMAIN lastFile' = 1 .. 2 /\ try' \in 1 .. 3
    BY <1>1 DEF RevInv, FilesAreOwn, ProbeKeeps
  <1>. QED
    BY <1>1, <1>2, Unanswered

LEMMA WritesLastInv ==
  ASSUME RevInv, WritesLast
  PROVE  RevInv'
  <1>1. /\ phase = "run" /\ phase' = phase /\ result' = result /\ order' = order /\ try' = try /\ kept' = kept
        /\ order.p = "codex"
    BY DEF WritesLast, outside
  <1>2. try \in 1 .. 2
    BY <1>1 DEF RevInv, ProbeKeeps
  <1>3. PICK says \in {"review", "junk"} : lastFile' = [lastFile EXCEPT ![try] = [by |-> try, says |-> says]]
    BY DEF WritesLast, LastMsgFile
  <1>4. FilesAreOwn' /\ DOMAIN lastFile' = 1 .. 2
    BY <1>2, <1>3 DEF RevInv, FilesAreOwn
  <1>. QED
    BY <1>1, <1>4, Unanswered DEF RevInv, ProbeKeeps

\* An answer that is no review.
LEMMA FailureInv ==
  ASSUME RevInv, phase' = "done", result' \in Results, result'.status # "ok", result'.verdict = "ERROR",
         order' = order, try' = try, kept' = kept, lastFile' = lastFile
  PROVE  RevInv'
  BY DEF RevInv, FilesAreOwn, ProbeKeeps, ReviewIsWhole, BlockingIsHeard

LEMMA EndInv ==
  ASSUME RevInv, CannotSpawn \/ ReadProbe \/ NoKey \/ RequestEnds
  PROVE  RevInv'
  <1>1. phase' = "done" /\ order' = order /\ try' = try /\ kept' = kept /\ lastFile' = lastFile
    BY DEF CannotSpawn, ReadProbe, NoKey, RequestEnds, Answer, outside
  <1>2. result' \in Results /\ result'.status # "ok" /\ result'.verdict = "ERROR"
    <2>1. CASE CannotSpawn
      BY <2>1 DEF CannotSpawn, RevInv, ProbeKeeps, Results, Statuses
    <2>2. CASE ReadProbe
      <3>1. kept \in Results /\ kept.status # "ok" /\ kept.verdict = "ERROR"
        BY <2>2 DEF ReadProbe, RevInv, ProbeKeeps
      <3>2. [kept EXCEPT !.inferred = FALSE] \in Results /\ [kept EXCEPT !.inferred = FALSE].status = kept.status
            /\ [kept EXCEPT !.inferred = FALSE].verdict = kept.verdict
        BY <3>1 DEF Results
      <3>. QED
        BY <2>2, <3>1, <3>2 DEF ReadProbe, Answer, Failure, Outcome, Results, Statuses
    <2>3. CASE NoKey \/ RequestEnds
      <3>1. result' = Failure("error")
        BY <2>3 DEF NoKey, RequestEnds, Answer
      <3>. QED
        BY <3>1, FailureTyped DEF Statuses
    <2>. QED
      BY <2>1, <2>2, <2>3
  <1>. QED
    BY <1>1, <1>2, FailureInv

LEMMA ReadInv ==
  ASSUME RevInv, Read
  PROVE  RevInv'
  <1>1. PICK answer \in Answers :
          /\ heard' = IF Came(answer).status = "ok" THEN {[answer |-> answer, by |-> WrittenBy]} ELSE {}
          /\ \/ AsksAgain(Came(answer)) /\ Again(2) /\ UNCHANGED <<kept, result>>
             \/ Probes /\ Again(3) /\ kept' = Came(answer) /\ UNCHANGED result
             \/ ~AsksAgain(Came(answer)) /\ ~Probes /\ Answer(Came(answer)) /\ UNCHANGED <<try, kept>>
    BY DEF Read
  <1>2. phase = "read" /\ try \in 1 .. 2 /\ order' = order /\ child' = child /\ pipe' = pipe /\ lastFile' = lastFile
    BY DEF Read, RevInv
  <1>3. FilesAreOwn' /\ DOMAIN lastFile' = 1 .. 2
    BY <1>2 DEF RevInv, FilesAreOwn
  <1>4. Came(answer) \in Results
    BY CameTyped
  <1>5. CASE AsksAgain(Came(answer)) /\ Again(2) /\ UNCHANGED <<kept, result>>
    BY <1>5, <1>2, <1>3, Unanswered DEF Again, ProbeKeeps
  <1>6. CASE Probes /\ Again(3) /\ kept' = Came(answer) /\ UNCHANGED result
    BY <1>6, <1>2, <1>3, <1>4, ProbedFailed, Unanswered DEF Again, ProbeKeeps
  <1>7. CASE Answer(Came(answer)) /\ UNCHANGED <<try, kept>>
    <2>1. result' = Came(answer) /\ phase' = "done" /\ try' = try
      BY <1>7 DEF Answer
    <2>2. ReviewIsWhole'
      <3>1. SUFFICES ASSUME Came(answer).status = "ok"
                     PROVE  ReviewIsWhole'
        BY <2>1 DEF ReviewIsWhole
      <3>2. WrittenBy = try
        BY <1>2, <3>1, CameWhole, WrittenByThisTry DEF RevInv
      <3>. QED
        BY <1>1, <1>2, <2>1, <3>1, <3>2, CameWhole DEF ReviewIsWhole, ReviewThere, Stopped
    <2>3. BlockingIsHeard'
      <3>1. SUFFICES ASSUME Came(answer).verdict = "PASS", order.p \in Counting
                     PROVE  \A s \in heard' : s.answer.verdict = "PASS" /\ ~Blocks(s.answer.found)
        BY <1>2, <2>1 DEF BlockingIsHeard
      <3>2. answer.verdict = "PASS" /\ ~Blocks(answer.found)
        BY <3>1, CamePass, MappedPass
      <3>. QED
        BY <1>1, <3>2
    <2>. QED
      BY <1>2, <1>3, <1>4, <1>7, <2>1, <2>2, <2>3 DEF RevInv, ProbeKeeps
  <1>. QED
    BY <1>1, <1>5, <1>6, <1>7

LEMMA ResponseInv ==
  ASSUME RevInv, Response
  PROVE  RevInv'
  <1>1. /\ phase' = "done" /\ order' = order /\ try' = try /\ kept' = kept /\ lastFile' = lastFile
        /\ order.p \in Http
    BY DEF Response, Answer, RevInv
  <1>2. result' \in Results
    BY FailureTyped, MappedTyped DEF Response, Answer, Statuses
  <1>3. order.p \notin Counting
    BY <1>1 DEF Http, Counting
  <1>. QED
    BY <1>1, <1>2, <1>3 DEF RevInv, FilesAreOwn, ProbeKeeps, ReviewIsWhole, BlockingIsHeard

LEMMA StepInv == RevInv /\ [RevNext]_revVars => RevInv'
  <1>. SUFFICES ASSUME RevInv, [RevNext]_revVars
                PROVE  RevInv'
    OBVIOUS
  <1>1. CASE RevNext
    BY <1>1, EventInv, WritesLastInv, EndInv, ReadInv, ResponseInv DEF RevNext, Handles
  <1>2. CASE UNCHANGED revVars
    BY <1>2 DEF revVars, RevInv, FilesAreOwn, ProbeKeeps, ReviewIsWhole, BlockingIsHeard
  <1>. QED
    BY <1>1, <1>2

\* Whatever hangs, is killed or keeps a pipe open: what is taken for a review was written
\* by a run of the program that ended by itself with no error, and by no other
\* (spawn.ts:settle, codex.ts:runOnce).
THEOREM OnlyWholeReviews == RevSpec => []ReviewIsWhole
  <1>1. RevInv => ReviewIsWhole
    BY DEF RevInv
  <1>. QED
    BY InitInv, StepInv, <1>1, PTL DEF RevSpec

\* For all that a reviewer can say: the adapters that count what mapping lost never take
\* a FAIL, or a review with a blocking finding, for a PASS (review-output.ts:mappingLooksLossy).
THEOREM NothingBlockingIsLost == RevSpec => []BlockingIsHeard
  <1>1. RevInv => BlockingIsHeard
    BY DEF RevInv
  <1>. QED
    BY InitInv, StepInv, <1>1, PTL DEF RevSpec

(***************************************************************************)
(* The project lore.                                                       *)
(***************************************************************************)

Fields == {"pc", "key", "told", "promotions", "allowed", "candidates", "claimed", "due", "owed"}
Reviewing == visit.pc \in {"reviewing", "written", "green"}

\* The records that are changed field by field.
Shapes ==
    /\ DOMAIN word = {"vouched", "said", "unheard", "heard"}
    /\ DOMAIN decided = {"lore", "defect"}
    /\ DOMAIN desk = {"iter", "claimed", "cool", "last"}
    /\ prompt # NoPrompt => DOMAIN prompt = {"pc", "page", "bytes"}
    /\ Reviewing \/ visit.pc \in {"none", "absorbed"}
    /\ Reviewing => DOMAIN visit = Fields

\* The steps of the gate, and of the people around it.
GateSteps ==
    \/ Absorb \/ AskHuman \/ AsksForDecisions \/ Load \/ Serve \/ Incomplete \/ Book \/ Leave \/ KillGate
    \/ \E how \in {"pass", "fail", "critical"} : Report(how)
OtherSteps ==
    \/ \E n \in DOMAIN pending.lore, how \in {"fixed", "rejected"} : DecideLore(n, how)
    \/ DecideDefect \/ EditAnchored \/ CommitPages \/ NextDay \/ Confirm \/ AppendApproval
    \/ \E e \in Entries, status \in {"absent", "draft", "canon", "broken"} : EditPage(e, status)
    \/ \E e \in Entries : VerifyPage(e) \/ Preflight(e)

LEMMA NextSplits == LoreNext <=> GateSteps \/ OtherSteps
  BY DEF LoreNext, GateSteps, OtherSteps

LEMMA GateShapes ==
  ASSUME Shapes, GateSteps
  PROVE  Shapes'
  <1>1. CASE Absorb
    BY <1>1 DEF Absorb, Shapes, Reviewing
  <1>2. CASE AskHuman \/ AsksForDecisions \/ Leave \/ KillGate \/ Incomplete
    BY <1>2 DEF AskHuman, AsksForDecisions, Leave, KillGate, Incomplete, Shapes, Reviewing, NoGate, NoDecisions
  <1>3. CASE Load
    <2>1. DOMAIN visit' = Fields /\ visit'.pc = "reviewing" /\ UNCHANGED <<word, decided, prompt>>
      BY <1>3 DEF Load, Fields
    <2>2. DOMAIN desk' = DOMAIN desk
      BY <1>3 DEF Load
    <2>. QED
      BY <2>1, <2>2 DEF Shapes, Reviewing
  <1>4. CASE Serve
    BY <1>4 DEF Serve, Passes, Shapes, Reviewing, NoDecisions, Fields
  <1>5. CASE Book
    <2>1. visit.pc = "written" /\ DOMAIN visit = Fields /\ UNCHANGED <<word, prompt>>
      BY <1>5 DEF Book, Shapes, Reviewing
    <2>2. DOMAIN desk' = DOMAIN desk /\ decided' = NoDecisions
      BY <1>5 DEF Book, Passes, Shapes
    <2>3. visit' = NoGate \/ (visit'.pc = "green" /\ DOMAIN visit' = Fields)
      BY <1>5, <2>1 DEF Book, Passes, Fields
    <2>. QED
      BY <2>1, <2>2, <2>3 DEF Shapes, Reviewing, NoDecisions, NoGate
  <1>6. CASE \E how \in {"pass", "fail", "critical"} : Report(how)
    BY <1>6 DEF Report, Shapes, Reviewing, Fields
  <1>. QED
    BY <1>1, <1>2, <1>3, <1>4, <1>5, <1>6 DEF GateSteps

LEMMA OtherShapes ==
  ASSUME Shapes, OtherSteps
  PROVE  Shapes'
  <1>1. CASE \E n \in DOMAIN pending.lore, how \in {"fixed", "rejected"} : DecideLore(n, how)
    BY <1>1 DEF DecideLore, Shapes, Reviewing
  <1>2. CASE DecideDefect \/ EditAnchored \/ CommitPages \/ NextDay
    BY <1>2 DEF DecideDefect, EditAnchored, CommitPages, NextDay, Spends, files, Shapes, Reviewing
  <1>3. CASE Confirm \/ AppendApproval
    BY <1>3 DEF Confirm, AppendApproval, files, Shapes, Reviewing
  <1>4. CASE \E e \in Entries, status \in {"absent", "draft", "canon", "broken"} : EditPage(e, status)
    BY <1>4 DEF EditPage, Spends, Shapes, Reviewing
  <1>5. CASE \E e \in Entries : VerifyPage(e) \/ Preflight(e)
    BY <1>5 DEF VerifyPage, Preflight, files, Shapes, Reviewing
  <1>. QED
    BY <1>1, <1>2, <1>3, <1>4, <1>5 DEF OtherSteps

(***************************************************************************)
(* What is told was vouched for.                                           *)
(***************************************************************************)

\* An answer that is still to be absorbed is an answer to the report that is there; a
\* gate that has just written another one is the only exception.
Vouched ==
    /\ approvals \subseteq word.vouched
    /\ visit.pc # "written" => Confirmed \subseteq word.vouched
    /\ Reviewing => visit.told \subseteq word.vouched
    /\ prompt # NoPrompt /\ prompt.pc = "append" => prompt.page \in word.vouched

LEMMA NothingConfirmed ==
  /\ decided = NoDecisions => \A k, v : About(k, v) = {}
  /\ pending = NoReport => \A k, v : About(k, v) = {}
  BY DEF NoDecisions, NoReport, About, Answered

LEMMA AboutUnchanged ==
  ASSUME UNCHANGED <<pending, decided>>
  PROVE  (\A k, v : About(k, v) = About(k, v)') /\ Confirmed' = Confirmed
  BY DEF About, Answered, Confirmed

LEMMA NothingConfirmedThen ==
  /\ decided' = NoDecisions => Confirmed' = {} /\ \A v : About("reminder", v)' = {}
  /\ pending' = NoReport => Confirmed' = {} /\ \A v : About("reminder", v)' = {}
  BY DEF NoDecisions, NoReport, About, Answered, Confirmed

LEMMA GateVouched ==
  ASSUME Shapes, Vouched, GateSteps, "written" \notin GateDies
  PROVE  Vouched'
  <1>1. CASE Absorb
    <2>1. approvals' = approvals \cup Confirmed /\ word'.vouched = word.vouched /\ visit'.pc = "absorbed"
      BY <1>1 DEF Absorb, Shapes
    <2>2. visit.pc = "none" /\ UNCHANGED <<pending, decided, prompt>>
      BY <1>1 DEF Absorb
    <2>. QED
      BY <2>1, <2>2, AboutUnchanged DEF Vouched, Reviewing
  <1>2. CASE AsksForDecisions \/ Leave
    <2>1. visit.pc # "written" /\ visit' = NoGate /\ UNCHANGED <<approvals, word, pending, decided, prompt>>
      BY <1>2 DEF AsksForDecisions, Leave
    <2>. QED
      BY <2>1, AboutUnchanged DEF Vouched, Reviewing, NoGate
  <1>3. CASE KillGate
    <2>1. visit.pc # "written" /\ visit' = NoGate /\ UNCHANGED <<approvals, word, pending, decided, prompt>>
      BY <1>3 DEF KillGate
    <2>. QED
      BY <2>1, AboutUnchanged DEF Vouched, Reviewing, NoGate
  <1>4. CASE AskHuman \/ Incomplete
    <2>1. visit' = NoGate /\ UNCHANGED <<approvals, word, prompt>> /\ (decided' = NoDecisions \/ pending' = NoReport)
      BY <1>4 DEF AskHuman, Incomplete
    <2>. QED
      BY <2>1, NothingConfirmedThen DEF Vouched, Reviewing, NoGate
  <1>5. CASE Load
    <2>1. visit.pc = "absorbed" /\ visit'.told = Told /\ UNCHANGED <<approvals, word, pending, decided, prompt>>
      BY <1>5 DEF Load
    <2>2. Told \subseteq approvals
      BY DEF Told, Selected
    <2>. QED
      BY <2>1, <2>2, AboutUnchanged DEF Vouched, Reviewing
  <1>6. CASE Serve
    <2>1. visit.pc = "reviewing" /\ visit'.told = visit.told /\ UNCHANGED <<approvals, word, prompt>> /\ pending' = NoReport
      BY <1>6 DEF Serve, Passes, Shapes, Reviewing, Fields
    <2>. QED
      BY <2>1, NothingConfirmedThen DEF Vouched, Reviewing
  <1>7. CASE Book
    <2>1. visit.pc = "written" /\ UNCHANGED <<approvals, word, prompt>> /\ decided' = NoDecisions
      BY <1>7 DEF Book, Passes
    <2>2. visit' = NoGate \/ visit'.told = visit.told
      BY <1>7 DEF Book, Passes, Shapes, Reviewing, Fields
    <2>. QED
      BY <2>1, <2>2, NothingConfirmedThen DEF Vouched, Reviewing, NoGate
  <1>8. CASE \E how \in {"pass", "fail", "critical"} : Report(how)
    <2>1. visit.pc = "reviewing" /\ visit'.pc = "written" /\ visit'.told = visit.told /\ UNCHANGED <<approvals, word, prompt>>
      BY <1>8 DEF Report, Shapes, Reviewing, Fields
    <2>. QED
      BY <2>1 DEF Vouched, Reviewing
  <1>. QED
    BY <1>1, <1>2, <1>3, <1>4, <1>5, <1>6, <1>7, <1>8 DEF GateSteps

LEMMA OtherVouched ==
  ASSUME Shapes, Vouched, OtherSteps
  PROVE  Vouched'
  <1>1. CASE \E n \in DOMAIN pending.lore, how \in {"fixed", "rejected"} : DecideLore(n, how)
    <2>1. PICK n \in DOMAIN pending.lore, how \in {"fixed", "rejected"} : DecideLore(n, how)
      BY <1>1
    <2>2. /\ decided'.lore = [k \in DOMAIN decided.lore \cup {n} |-> IF k = n THEN how ELSE decided.lore[k]]
          /\ UNCHANGED <<approvals, pending, visit, prompt>> /\ visit.pc = "none"
      BY <2>1 DEF DecideLore, Shapes
    <2>3. word'.vouched = IF pending.lore[n].kind = "canon-promotion" /\ how = "fixed"
                          THEN word.vouched \cup {pending.lore[n].page} ELSE word.vouched
      BY <2>1 DEF DecideLore, Shapes
    <2>4. \A e \in Confirmed' : e \in Confirmed \/ (e = pending.lore[n].page /\ pending.lore[n].kind = "canon-promotion" /\ how = "fixed")
      <3>1. SUFFICES ASSUME NEW e \in Confirmed', e \notin Confirmed
                     PROVE  e = pending.lore[n].page /\ pending.lore[n].kind = "canon-promotion" /\ how = "fixed"
        OBVIOUS
      <3>2. PICK m \in DOMAIN pending.lore \cap DOMAIN decided'.lore :
              pending.lore[m].kind = "canon-promotion" /\ decided'.lore[m] = "fixed" /\ e = pending.lore[m].page
        BY <2>2, <3>1 DEF Confirmed, About, Answered
      <3>3. m \in DOMAIN decided.lore /\ decided.lore[m] = "fixed" => e \in Confirmed
        BY <3>2 DEF Confirmed, About, Answered
      <3>4. m = n
        BY <2>2, <3>1, <3>2, <3>3
      <3>. QED
        BY <2>2, <3>2, <3>4
    <2>. QED
      BY <2>2, <2>3, <2>4 DEF Vouched, Reviewing
  <1>2. CASE Confirm
    <2>1. UNCHANGED <<approvals, pending, decided, visit>> /\ prompt # NoPrompt
      BY <1>2 DEF Confirm
    <2>2. CASE prompt' = [prompt EXCEPT !.pc = "append"] /\ word' = [word EXCEPT !.vouched = @ \cup {prompt.page}]
      <3>1. prompt'.page = prompt.page /\ word'.vouched = word.vouched \cup {prompt.page}
        BY <2>1, <2>2 DEF Shapes
      <3>. QED
        BY <2>1, <3>1, AboutUnchanged DEF Vouched, Reviewing
    <2>3. CASE prompt' = NoPrompt /\ word' = word
      BY <2>1, <2>3, AboutUnchanged DEF Vouched, Reviewing
    <2>. QED
      BY <1>2, <2>2, <2>3 DEF Confirm
  <1>3. CASE AppendApproval
    <2>1. /\ approvals' = approvals \cup {prompt.page} /\ prompt # NoPrompt /\ prompt.pc = "append" /\ prompt' = NoPrompt
          /\ UNCHANGED <<pending, decided, visit, word>>
      BY <1>3 DEF AppendApproval
    <2>. QED
      BY <2>1, AboutUnchanged DEF Vouched, Reviewing
  <1>4. CASE \E e \in Entries : Preflight(e)
    <2>1. prompt'.pc = "shown" /\ UNCHANGED <<approvals, pending, decided, visit, word>>
      BY <1>4 DEF Preflight
    <2>. QED
      BY <2>1, AboutUnchanged DEF Vouched, Reviewing
  <1>5. CASE DecideDefect
    <2>1. decided'.lore = decided.lore /\ UNCHANGED <<approvals, pending, visit, word, prompt>>
      BY <1>5 DEF DecideDefect, Shapes
    <2>. QED
      BY <2>1 DEF Vouched, Reviewing, Confirmed, About, Answered
  <1>6. CASE \/ EditAnchored \/ CommitPages \/ NextDay
             \/ \E e \in Entries, status \in {"absent", "draft", "canon", "broken"} : EditPage(e, status)
             \/ \E e \in Entries : VerifyPage(e)
    <2>1. word'.vouched = word.vouched /\ UNCHANGED <<approvals, pending, decided, visit, prompt>>
      BY <1>6 DEF EditAnchored, CommitPages, NextDay, EditPage, VerifyPage, Spends, files, Shapes
    <2>. QED
      BY <2>1, AboutUnchanged DEF Vouched, Reviewing
  <1>. QED
    BY <1>1, <1>2, <1>3, <1>4, <1>5, <1>6 DEF OtherSteps

(***************************************************************************)
(* A rejection holds for its days and no longer, and a claim is remembered *)
(* while it is open.                                                       *)
(***************************************************************************)

Days ==
    /\ date \in Nat \ {0}
    /\ DOMAIN desk.cool = Entries /\ DOMAIN word.heard = Entries
    /\ \A e \in Entries : desk.cool[e] \in Nat /\ word.heard[e] \in Nat /\ word.heard[e] <= date

\* A rejection is absorbed once: whoever finds it again has heard it, or still knows of it.
CoolsDown ==
    /\ \A e \in Entries : desk.cool[e] > date => word.heard[e] # 0 /\ desk.cool[e] <= word.heard[e] + CooldownDays
    /\ visit.pc \notin {"reviewing", "written"} =>
         \A e \in About("reminder", "rejected") : e \in word.unheard \/ desk.cool[e] # 0

Claims ==
    /\ word.said \subseteq desk.claimed /\ word.said \subseteq Entries
    /\ \A e \in word.said : Parses(e) /\ Stale(e)

\* Reminders are about pages that are there.
Named ==
    /\ IsFiniteSet(Entries)
    /\ \A n \in DOMAIN pending.lore : pending.lore[n].kind = "reminder" => pending.lore[n].page \in Entries
    /\ Reviewing => visit.candidates \subseteq Entries /\ visit.promotions \subseteq Entries

LEMMA NamedPages ==
  ASSUME Named, NEW v
  PROVE  About("reminder", v) \subseteq Entries
  BY DEF Named, About, Answered

LEMMA EntriesStay ==
  ASSUME LoreNext
  PROVE  Entries' = Entries
  <1>1. CASE GateSteps
    BY <1>1 DEF GateSteps, Absorb, AskHuman, AsksForDecisions, Load, Serve, Incomplete, Book, Leave, KillGate, Report, files, Entries
  <1>2. CASE OtherSteps
    BY <1>2 DEF OtherSteps, DecideLore, DecideDefect, EditAnchored, CommitPages, NextDay, Confirm, AppendApproval, EditPage,
                VerifyPage, Preflight, files, Entries
  <1>. QED
    BY <1>1, <1>2, NextSplits

LEMMA ReportedLore ==
  ASSUME Named, Reviewing, NEW how, NEW r \in Reminders(how)
  PROVE  /\ \A n \in DOMAIN (r \o Guard) : (r \o Guard)[n].kind = "reminder" => (r \o Guard)[n].page \in visit.candidates
         /\ r \o Guard = <<>> => r = <<>> /\ visit.promotions = {}
  <1>1. PICK count : count = Cardinality(visit.promotions)
    OBVIOUS
  <1>2. IsFiniteSet(visit.promotions) /\ count \in Nat /\ (count = 0 => visit.promotions = {})
    BY <1>1, FS_Subset, FS_CardinalityType, FS_EmptySet DEF Named
  <1>3. PICK g : g = Guard
    OBVIOUS
  <1>4. DOMAIN g = 1 .. count /\ \A n \in 1 .. count : g[n].kind = "canon-promotion"
    BY <1>1, <1>3 DEF Guard
  <1>5. PICK S : S = {g[n] : n \in 1 .. count} \cup {[kind |-> "reminder", page |-> e] : e \in visit.candidates}
    OBVIOUS
  <1>6. g \in Seq(S) /\ Len(g) = count
    <2>1. g = [n \in 1 .. count |-> g[n]]
      BY <1>1, <1>3 DEF Guard
    <2>. QED
      BY <1>2, <1>4, <1>5, <2>1
  <1>7. r = <<>> \/ \E e \in visit.candidates : r = <<[kind |-> "reminder", page |-> e]>>
    BY DEF Reminders
  <1>8. r \in Seq(S) /\ Len(r) \in {0, 1} /\ \A n \in 1 .. Len(r) : r[n].page \in visit.candidates
    <2>1. CASE r = <<>>
      BY <2>1
    <2>2. CASE r # <<>>
      <3>1. PICK e \in visit.candidates : r = <<[kind |-> "reminder", page |-> e]>>
        BY <1>7, <2>2
      <3>2. PICK a : a = [kind |-> "reminder", page |-> e]
        OBVIOUS
      <3>3. a \in S /\ a.page \in visit.candidates /\ r = <<a>>
        BY <1>5, <3>1, <3>2
      <3>. QED
        BY <3>3
    <2>. QED
      BY <2>1, <2>2
  <1>9. r \o g \in Seq(S) /\ Len(r \o g) = Len(r) + count
    BY <1>2, <1>6, <1>8
  <1>10. \A n \in 1 .. Len(r) + count : (r \o g)[n] = IF n <= Len(r) THEN r[n] ELSE g[n - Len(r)]
    BY <1>2, <1>6, <1>8
  <1>11. ASSUME NEW n \in DOMAIN (r \o g), (r \o g)[n].kind = "reminder"
         PROVE  (r \o g)[n].page \in visit.candidates
    <2>1. n \in 1 .. Len(r) + count
      BY <1>9, <1>11
    <2>2. CASE n <= Len(r)
      BY <1>8, <1>10, <2>1, <2>2
    <2>3. CASE ~(n <= Len(r))
      BY <1>2, <1>4, <1>8, <1>10, <1>11, <2>1, <2>3
    <2>. QED
      BY <2>2, <2>3
  <1>12. r \o g = <<>> => r = <<>> /\ visit.promotions = {}
    BY <1>2, <1>7, <1>8, <1>9
  <1>. QED
    BY <1>3, <1>11, <1>12

LEMMA NamedStep ==
  ASSUME Shapes, Named, LoreNext
  PROVE  Named'
  <1>0. Entries' = Entries
    BY EntriesStay
  <1>1. CASE Load
    <2>1. visit'.candidates = Candidates /\ visit'.promotions = Promotions /\ UNCHANGED pending
      BY <1>1 DEF Load
    <2>. QED
      BY <1>0, <2>1 DEF Named, Candidates, Selected, Promotions
  <1>2. CASE \E how \in {"pass", "fail", "critical"} : Report(how)
    <2>0. PICK how \in {"pass", "fail", "critical"} : Report(how)
      BY <1>2
    <2>1. PICK r \in Reminders(how) : pending' = [lore |-> r \o Guard, defect |-> how # "pass"]
      BY <2>0 DEF Report
    <2>2. Reviewing /\ visit'.candidates = visit.candidates /\ visit'.promotions = visit.promotions
      BY <1>2 DEF Report, Shapes, Reviewing, Fields
    <2>3. \A n \in DOMAIN pending'.lore : pending'.lore[n].kind = "reminder" => pending'.lore[n].page \in Entries
      <3>1. PICK lore : lore = r \o Guard
        OBVIOUS
      <3>2. \A n \in DOMAIN lore : lore[n].kind = "reminder" => lore[n].page \in visit.candidates
        BY <2>2, <3>1, ReportedLore
      <3>3. pending'.lore = lore
        BY <2>1, <3>1
      <3>. QED
        BY <2>2, <3>2, <3>3 DEF Named
    <2>. QED
      BY <1>0, <2>2, <2>3 DEF Named
  <1>3. CASE Serve \/ Incomplete
    <2>1. pending' = NoReport
      BY <1>3 DEF Serve, Incomplete
    <2>2. Reviewing' => Reviewing /\ visit'.candidates = visit.candidates /\ visit'.promotions = visit.promotions
      BY <1>3 DEF Serve, Incomplete, Passes, Shapes, Reviewing, Fields, NoGate
    <2>. QED
      BY <1>0, <2>1, <2>2 DEF Named, NoReport
  <1>4. CASE Book
    <2>1. Reviewing' => Reviewing /\ visit'.candidates = visit.candidates /\ visit'.promotions = visit.promotions
      BY <1>4 DEF Book, Passes, Shapes, Reviewing, Fields, NoGate
    <2>2. pending' = pending
      BY <1>4 DEF Book
    <2>. QED
      BY <1>0, <2>1, <2>2 DEF Named
  <1>5. CASE Absorb \/ AskHuman \/ AsksForDecisions \/ Leave \/ KillGate
    <2>1. ~Reviewing' /\ pending' = pending
      BY <1>5 DEF Absorb, AskHuman, AsksForDecisions, Leave, KillGate, NoGate, Reviewing
    <2>. QED
      BY <1>0, <2>1 DEF Named
  <1>6. CASE OtherSteps
    <2>1. UNCHANGED <<pending, visit>>
      BY <1>6 DEF OtherSteps, DecideLore, DecideDefect, EditAnchored, CommitPages, NextDay, Confirm, AppendApproval, EditPage,
                VerifyPage, Preflight, files
    <2>. QED
      BY <1>0, <2>1 DEF Named, Reviewing
  <1>. QED
    BY <1>1, <1>2, <1>3, <1>4, <1>5, <1>6, NextSplits DEF GateSteps

LEMMA DaysStep ==
  ASSUME Shapes, Days, LoreNext
  PROVE  Days'
  <1>0. Entries' = Entries
    BY EntriesStay
  <1>c. CooldownDays \in Nat \ {0}
    BY LoreAssumption
  <1>1. CASE Absorb
    <2>1. PICK rejected : rejected = About("reminder", "rejected")
      OBVIOUS
    <2>2. date' = date
      BY <1>1 DEF Absorb
    <2>3. desk'.cool = [e \in Entries |-> IF e \in rejected /\ desk.cool[e] = 0 THEN date + CooldownDays ELSE desk.cool[e]]
      BY <1>1, <2>1 DEF Absorb, Shapes
    <2>4. word'.heard = [e \in Entries |-> IF e \in rejected \cap word.unheard THEN date ELSE word.heard[e]]
      BY <1>1, <2>1 DEF Absorb, Shapes
    <2>. QED
      BY <1>0, <1>c, <2>2, <2>3, <2>4 DEF Days
  <1>2. CASE Load
    <2>1. date' = date /\ word' = word /\ desk'.cool = [e \in Entries |-> IF e \in Cooling THEN desk.cool[e] ELSE 0]
      BY <1>2 DEF Load, Shapes
    <2>. QED
      BY <1>0, <2>1 DEF Days
  <1>3. CASE NextDay
    <2>1. date' = date + 1 /\ word' = word /\ desk' = desk
      BY <1>3 DEF NextDay
    <2>. QED
      BY <1>0, <2>1 DEF Days
  <1>4. CASE date' = date /\ desk'.cool = desk.cool /\ word'.heard = word.heard
    BY <1>0, <1>4 DEF Days
  <1>5. CASE \/ AskHuman \/ AsksForDecisions \/ Serve \/ Incomplete \/ Book \/ Leave \/ KillGate
             \/ \E how \in {"pass", "fail", "critical"} : Report(how)
    BY <1>4, <1>5 DEF AskHuman, AsksForDecisions, Serve, Incomplete, Book, Leave, KillGate, Report, Passes, Shapes
  <1>6. CASE OtherSteps /\ ~NextDay
    BY <1>4, <1>6 DEF OtherSteps, DecideLore, DecideDefect, EditAnchored, CommitPages, Confirm, AppendApproval, EditPage,
                      VerifyPage, Preflight, files, Shapes
  <1>. QED
    BY <1>1, <1>2, <1>3, <1>5, <1>6, NextSplits DEF GateSteps

LEMMA CoolsDownStep ==
  ASSUME Shapes, Named, Days, CoolsDown, LoreNext, GateDies \subseteq {"absorbed"}
  PROVE  CoolsDown'
  <1>0. Entries' = Entries
    BY EntriesStay
  <1>c. CooldownDays \in Nat \ {0} /\ date \in Nat \ {0}
    BY LoreAssumption DEF Days
  <1>1. CASE Absorb
    <2>1. PICK rejected : rejected = About("reminder", "rejected")
      OBVIOUS
    <2>2. date' = date /\ About("reminder", "rejected")' = rejected /\ visit.pc = "none" /\ rejected \subseteq Entries
      BY <1>1, <2>1, AboutUnchanged, NamedPages DEF Absorb
    <2>3. desk'.cool = [e \in Entries |-> IF e \in rejected /\ desk.cool[e] = 0 THEN date + CooldownDays ELSE desk.cool[e]]
      BY <1>1, <2>1 DEF Absorb, Shapes
    <2>4. word'.heard = [e \in Entries |-> IF e \in rejected \cap word.unheard THEN date ELSE word.heard[e]]
      BY <1>1, <2>1 DEF Absorb, Shapes
    <2>5. ASSUME NEW e \in Entries, desk'.cool[e] > date
          PROVE  word'.heard[e] # 0 /\ desk'.cool[e] <= word'.heard[e] + CooldownDays
      <3>1. desk.cool[e] \in Nat /\ word.heard[e] \in Nat /\ word.heard[e] <= date
        BY DEF Days
      <3>2. CASE e \in rejected /\ desk.cool[e] = 0
        <4>1. e \in word.unheard
          BY <2>1, <2>2, <3>2 DEF CoolsDown
        <4>. QED
          BY <1>c, <2>3, <2>4, <3>2, <4>1
      <3>3. CASE ~(e \in rejected /\ desk.cool[e] = 0)
        <4>1. word.heard[e] # 0 /\ desk.cool[e] <= word.heard[e] + CooldownDays /\ desk'.cool[e] = desk.cool[e]
          BY <2>3, <2>5, <3>3 DEF CoolsDown
        <4>. QED
          BY <1>c, <2>4, <3>1, <4>1
      <3>. QED
        BY <3>2, <3>3
    <2>6. \A e \in rejected : desk'.cool[e] # 0
      BY <1>c, <2>2, <2>3 DEF Days
    <2>. QED
      BY <1>0, <2>2, <2>5, <2>6 DEF CoolsDown
  <1>2. CASE Load
    <2>1. date' = date /\ word' = word /\ desk'.cool = [e \in Entries |-> IF e \in Cooling THEN desk.cool[e] ELSE 0]
          /\ visit'.pc = "reviewing"
      BY <1>2 DEF Load, Shapes
    <2>. QED
      BY <1>0, <1>c, <2>1 DEF CoolsDown
  <1>3. CASE NextDay
    <2>1. date' = date + 1 /\ word' = word /\ desk' = desk /\ UNCHANGED <<visit, pending, decided>>
      BY <1>3 DEF NextDay
    <2>2. About("reminder", "rejected")' = About("reminder", "rejected")
      BY <2>1, AboutUnchanged
    <2>3. \A e \in Entries : desk.cool[e] \in Nat
      BY DEF Days
    <2>. QED
      BY <1>0, <1>c, <2>1, <2>2, <2>3 DEF CoolsDown
  <1>4. CASE \E n \in DOMAIN pending.lore, how \in {"fixed", "rejected"} : DecideLore(n, how)
    <2>1. PICK n \in DOMAIN pending.lore, how \in {"fixed", "rejected"} : DecideLore(n, how)
      BY <1>4
    <2>2. /\ decided'.lore = [k \in DOMAIN decided.lore \cup {n} |-> IF k = n THEN how ELSE decided.lore[k]]
          /\ UNCHANGED <<date, desk, pending, visit>> /\ visit.pc = "none"
      BY <2>1 DEF DecideLore, Shapes
    <2>3. word'.heard = word.heard /\ word.unheard \subseteq word'.unheard
      BY <2>1 DEF DecideLore, Shapes
    <2>4. pending.lore[n].kind = "reminder" /\ how = "rejected" => pending.lore[n].page \in word'.unheard
      BY <2>1 DEF DecideLore, Shapes
    <2>5. ASSUME NEW e \in About("reminder", "rejected")'
          PROVE  e \in word'.unheard \/ e \in About("reminder", "rejected")
      <3>1. PICK m \in DOMAIN pending.lore \cap DOMAIN decided'.lore :
              pending.lore[m].kind = "reminder" /\ decided'.lore[m] = "rejected" /\ e = pending.lore[m].page
        BY <2>2, <2>5 DEF About, Answered
      <3>2. m \in DOMAIN decided.lore /\ decided.lore[m] = "rejected" => e \in About("reminder", "rejected")
        BY <3>1 DEF About, Answered
      <3>. QED
        BY <2>2, <2>4, <3>1, <3>2
    <2>. QED
      BY <1>0, <2>2, <2>3, <2>5 DEF CoolsDown
  <1>5. CASE AskHuman \/ Serve \/ Incomplete \/ Book
    <2>1. decided' = NoDecisions \/ pending' = NoReport
      BY <1>5 DEF AskHuman, Serve, Incomplete, Book, Passes
    <2>2. About("reminder", "rejected")' = {}
      BY <2>1, NothingConfirmedThen
    <2>3. date' = date /\ word' = word /\ desk'.cool = desk.cool
      BY <1>5 DEF AskHuman, Serve, Incomplete, Book, Passes, Shapes
    <2>. QED
      BY <1>0, <2>2, <2>3 DEF CoolsDown
  <1>6. CASE AsksForDecisions \/ Leave \/ KillGate
    <2>1. visit.pc \notin {"reviewing", "written"} /\ UNCHANGED <<date, word, desk, pending, decided>>
      BY <1>6 DEF AsksForDecisions, Leave, KillGate
    <2>2. About("reminder", "rejected")' = About("reminder", "rejected")
      BY <2>1, AboutUnchanged
    <2>. QED
      BY <1>0, <2>1, <2>2 DEF CoolsDown
  <1>7. CASE \E how \in {"pass", "fail", "critical"} : Report(how)
    <2>1. visit'.pc = "written" /\ UNCHANGED <<date, word, desk>>
      BY <1>7 DEF Report, Shapes, Reviewing, Fields
    <2>. QED
      BY <1>0, <2>1 DEF CoolsDown
  <1>8. CASE OtherSteps /\ ~NextDay /\ ~(\E n \in DOMAIN pending.lore, how \in {"fixed", "rejected"} : DecideLore(n, how))
    <2>1. /\ word'.heard = word.heard /\ word'.unheard = word.unheard /\ decided'.lore = decided.lore
          /\ UNCHANGED <<date, desk, pending, visit>>
      BY <1>8 DEF OtherSteps, DecideDefect, EditAnchored, CommitPages, Confirm, AppendApproval, EditPage, VerifyPage,
                  Preflight, files, Spends, Shapes
    <2>2. About("reminder", "rejected")' = About("reminder", "rejected")
      BY <2>1 DEF About, Answered
    <2>. QED
      BY <1>0, <2>1, <2>2 DEF CoolsDown
  <1>. QED
    BY <1>1, <1>2, <1>3, <1>4, <1>5, <1>6, <1>7, <1>8, NextSplits DEF GateSteps

LEMMA ClaimsStep ==
  ASSUME Shapes, Named, Claims, LoreNext
  PROVE  Claims'
  <1>0. Entries' = Entries
    BY EntriesStay
  <1>1. CASE Absorb
    <2>1. PICK fixed : fixed = About("reminder", "fixed")
      OBVIOUS
    <2>2. /\ desk'.claimed = desk.claimed \cup fixed /\ word'.said = word.said \cup {e \in fixed : Parses(e) /\ Stale(e)}
          /\ UNCHANGED files
      BY <1>1, <2>1 DEF Absorb, Shapes
    <2>3. fixed \subseteq Entries
      BY <2>1, NamedPages
    <2>. QED
      BY <1>0, <2>2, <2>3 DEF Claims, files, Parses, Stale
  <1>2. CASE Load
    <2>1. desk'.claimed = StillStale /\ word' = word /\ UNCHANGED files
      BY <1>2 DEF Load, Shapes
    <2>. QED
      BY <1>0, <2>1 DEF Claims, StillStale, files, Parses, Stale
  <1>3. CASE EditAnchored
    <2>1. word'.said = {e \in word.said : pages[e].verified # code'} /\ UNCHANGED <<desk, pages>>
      BY <1>3 DEF EditAnchored, Shapes
    <2>. QED
      BY <1>0, <2>1 DEF Claims, Parses, Stale
  <1>4. CASE \E e \in Entries, status \in {"absent", "draft", "canon", "broken"} : EditPage(e, status)
    <2>1. PICK e \in Entries, status \in {"absent", "draft", "canon", "broken"} : EditPage(e, status)
      BY <1>4
    <2>2. word'.said = word.said \ {e} /\ UNCHANGED <<desk, code>> /\ \A f \in Entries \ {e} : pages'[f] = pages[f]
      BY <2>1 DEF EditPage, Shapes, Entries
    <2>. QED
      BY <1>0, <2>2 DEF Claims, Parses, Stale
  <1>5. CASE \E e \in Entries : VerifyPage(e)
    <2>1. PICK e \in Entries : VerifyPage(e)
      BY <1>5
    <2>2. word'.said = word.said \ {e} /\ UNCHANGED <<desk, code>> /\ \A f \in Entries \ {e} : pages'[f] = pages[f]
      BY <2>1 DEF VerifyPage, Shapes, Entries
    <2>. QED
      BY <1>0, <2>2 DEF Claims, Parses, Stale
  <1>6. CASE word'.said = word.said /\ desk'.claimed = desk.claimed /\ UNCHANGED <<pages, code>>
    BY <1>0, <1>6 DEF Claims, Parses, Stale
  <1>7. CASE \/ AskHuman \/ AsksForDecisions \/ Serve \/ Incomplete \/ Book \/ Leave \/ KillGate
             \/ \E how \in {"pass", "fail", "critical"} : Report(how)
    BY <1>6, <1>7 DEF AskHuman, AsksForDecisions, Serve, Incomplete, Book, Leave, KillGate, Report, Passes, files, Shapes
  <1>8. CASE \/ DecideDefect \/ CommitPages \/ NextDay \/ Confirm \/ AppendApproval \/ \E e \in Entries : Preflight(e)
             \/ \E n \in DOMAIN pending.lore, how \in {"fixed", "rejected"} : DecideLore(n, how)
    BY <1>6, <1>8 DEF DecideDefect, CommitPages, NextDay, Confirm, AppendApproval, Preflight, DecideLore, files, Shapes
  <1>. QED
    BY <1>1, <1>2, <1>3, <1>4, <1>5, <1>7, <1>8, NextSplits DEF GateSteps, OtherSteps

(***************************************************************************)
(* A pass leaves nothing unsaid.                                           *)
(***************************************************************************)

Said == visit.promotions = {} /\ visit.owed = {}

\* What was kept waited for nobody, and what a review owes it is going to say.
Asking ==
    /\ \A key \in served : key.waits = {}
    /\ Reviewing =>
         /\ visit.key.waits = {} => visit.promotions = {}
         /\ visit.promotions = {} => visit.key.waits = {}
         /\ visit.owed # {} => visit.due
         /\ visit.due => visit.allowed /\ visit.candidates # {}
    /\ visit.pc = "written" /\ ~DecisionRequired => Said
    /\ visit.pc = "green" => Said

\* A page that is owed is a candidate of a review that may remind.
LEMMA OwedIsDue ==
  ASSUME Named, Days, CoolsDown, Claims, Owed # {}
  PROVE  ReminderDue
  <1>1. PICK e \in Selected :
          /\ Stale(e)
          /\ word.heard[e] = 0 \/ date >= word.heard[e] + CooldownDays
          /\ desk.last # date \/ \E f \in word.said : Parses(f) /\ Stale(f)
    BY DEF Owed
  <1>2. e \in Entries
    BY DEF Selected
  <1>3. desk.cool[e] \in Nat /\ word.heard[e] \in Nat /\ date \in Nat /\ CooldownDays \in Nat
    BY <1>2, LoreAssumption DEF Days
  <1>4. ~(desk.cool[e] > date)
    BY <1>1, <1>2, <1>3 DEF CoolsDown
  <1>5. e \in Candidates
    BY <1>1, <1>4 DEF Candidates, Cooling
  <1>6. Allowed
    BY <1>1 DEF Allowed, StillStale, Claims
  <1>. QED
    BY <1>5, <1>6 DEF ReminderDue

LEMMA ReportAsks ==
  ASSUME Named, Asking, visit.pc = "reviewing", NEW how \in {"pass", "fail", "critical"}, NEW r \in Reminders(how),
         r \o Guard = <<>>, how = "pass"
  PROVE  Said
  <1>1. r = <<>> /\ visit.promotions = {}
    BY ReportedLore DEF Reviewing
  <1>2. ~visit.due
    <2>1. SUFFICES ASSUME visit.due
                   PROVE  FALSE
      OBVIOUS
    <2>2. visit.allowed /\ visit.candidates # {}
      BY <2>1 DEF Asking, Reviewing
    <2>3. \E e \in visit.candidates : r = <<[kind |-> "reminder", page |-> e]>>
      BY <2>2 DEF Reminders
    <2>. QED
      BY <1>1, <2>3
  <1>. QED
    BY <1>1, <1>2 DEF Asking, Reviewing, Said

LEMMA AskingStep ==
  ASSUME Shapes, Named, Days, CoolsDown, Claims, Asking, LoreNext
  PROVE  Asking'
  <1>1. CASE Load
    <2>1. /\ visit'.pc = "reviewing" /\ visit'.key = Key /\ visit'.promotions = Promotions /\ visit'.allowed = Allowed
          /\ visit'.candidates = Candidates /\ visit'.due = ReminderDue /\ visit'.owed = Owed /\ served' = served
      BY <1>1 DEF Load
    <2>2. Key.waits = {} <=> Promotions = {}
      BY DEF Key
    <2>3. ReminderDue => Allowed /\ Candidates # {}
      BY DEF ReminderDue
    <2>. QED
      BY <2>1, <2>2, <2>3, OwedIsDue DEF Asking, Reviewing
  <1>2. CASE \E how \in {"pass", "fail", "critical"} : Report(how)
    <2>0. PICK how \in {"pass", "fail", "critical"} : Report(how)
      BY <1>2
    <2>1. PICK r \in Reminders(how) : pending' = [lore |-> r \o Guard, defect |-> how # "pass"]
      BY <2>0 DEF Report
    <2>2. visit.pc = "reviewing" /\ DOMAIN visit = Fields /\ visit' = [visit EXCEPT !.pc = "written"]
      BY <2>0 DEF Report, Shapes, Reviewing
    <2>3. /\ visit'.pc = "written" /\ visit'.key = visit.key /\ visit'.promotions = visit.promotions
          /\ visit'.allowed = visit.allowed /\ visit'.candidates = visit.candidates /\ visit'.due = visit.due
          /\ visit'.owed = visit.owed
      BY <2>2 DEF Fields
    <2>4. PICK lore : lore = r \o Guard
      OBVIOUS
    <2>5. pending'.lore = lore /\ pending'.defect = (how # "pass")
      BY <2>1, <2>4
    <2>6. lore = <<>> /\ how = "pass" => Said
      BY <2>2, <2>4, ReportAsks
    <2>7. \A key \in served' : key \in served \/ (key = visit.key /\ lore = <<>> /\ how = "pass")
      BY <2>0, <2>5 DEF Report
    <2>8. \A key \in served' : key.waits = {}
      BY <2>2, <2>6, <2>7 DEF Asking, Reviewing, Said
    <2>9. ~DecisionRequired' => Said'
      BY <2>3, <2>5, <2>6 DEF DecisionRequired, Said
    <2>. QED
      BY <2>2, <2>3, <2>8, <2>9 DEF Asking, Reviewing
  <1>3. CASE Serve
    <2>1. visit.pc = "reviewing" /\ DOMAIN visit = Fields /\ visit' = [visit EXCEPT !.pc = "green"] /\ served' = served
      BY <1>3 DEF Serve, Passes, Shapes, Reviewing
    <2>2. /\ visit'.pc = "green" /\ visit'.key = visit.key /\ visit'.promotions = visit.promotions
          /\ visit'.allowed = visit.allowed /\ visit'.candidates = visit.candidates /\ visit'.due = visit.due
          /\ visit'.owed = visit.owed
      BY <2>1 DEF Fields
    <2>3. visit.key \in served /\ ~visit.due
      BY <1>3 DEF Serve, CacheHit
    <2>4. Said
      BY <2>1, <2>3 DEF Asking, Reviewing, Said
    <2>. QED
      BY <2>1, <2>2, <2>4 DEF Asking, Reviewing, Said
  <1>4. CASE Book
    <2>1. visit.pc = "written" /\ DOMAIN visit = Fields /\ served' = served
      BY <1>4 DEF Book, Shapes, Reviewing
    <2>2. CASE DecisionRequired
      <3>1. visit'.pc = "none"
        BY <1>4, <2>2 DEF Book, NoGate
      <3>. QED
        BY <2>1, <3>1 DEF Asking, Reviewing
    <2>3. CASE ~DecisionRequired
      <3>1. visit' = [visit EXCEPT !.pc = "green"]
        BY <1>4, <2>3 DEF Book, Passes
      <3>2. /\ visit'.pc = "green" /\ visit'.key = visit.key /\ visit'.promotions = visit.promotions
            /\ visit'.allowed = visit.allowed /\ visit'.candidates = visit.candidates /\ visit'.due = visit.due
            /\ visit'.owed = visit.owed
        BY <2>1, <3>1 DEF Fields
      <3>. QED
        BY <2>1, <2>3, <3>2 DEF Asking, Reviewing, Said
    <2>. QED
      BY <2>2, <2>3
  <1>5. CASE Absorb \/ AskHuman \/ AsksForDecisions \/ Leave \/ KillGate \/ Incomplete
    <2>1. visit'.pc \in {"none", "absorbed"} /\ served' = served
      BY <1>5 DEF Absorb, AskHuman, AsksForDecisions, Leave, KillGate, Incomplete, NoGate
    <2>. QED
      BY <2>1 DEF Asking, Reviewing
  <1>6. CASE OtherSteps
    <2>1. UNCHANGED <<pending, visit, served>>
      BY <1>6 DEF OtherSteps, DecideLore, DecideDefect, EditAnchored, CommitPages, NextDay, Confirm, AppendApproval, EditPage,
                VerifyPage, Preflight, files
    <2>. QED
      BY <2>1 DEF Asking, Reviewing, DecisionRequired, Said
  <1>. QED
    BY <1>1, <1>2, <1>3, <1>4, <1>5, <1>6, NextSplits DEF GateSteps

(***************************************************************************)
(* The theorems.                                                           *)
(***************************************************************************)

AskInv == Named /\ Days /\ CoolsDown /\ Claims /\ Asking

LEMMA LoreStart ==
  ASSUME LoreInit
  PROVE  Shapes /\ Vouched /\ AskInv
  <1>1. /\ visit = NoGate /\ decided = NoDecisions /\ prompt = NoPrompt /\ pending = NoReport /\ date = 1 /\ served = {}
        /\ desk = [iter |-> 0, claimed |-> {}, cool |-> [e \in Entries |-> 0], last |-> 0]
        /\ word = [vouched |-> approvals, said |-> {}, unheard |-> {}, heard |-> [e \in Entries |-> 0]]
    BY DEF LoreInit
  <1>2. Shapes
    BY <1>1 DEF Shapes, Reviewing, NoGate, NoDecisions
  <1>3. Confirmed = {} /\ About("reminder", "rejected") = {}
    BY <1>1, NothingConfirmed DEF Confirmed
  <1>4. visit.pc = "none"
    BY <1>1 DEF NoGate
  <1>5. Vouched
    BY <1>1, <1>3, <1>4 DEF Vouched, Reviewing
  <1>6. Named
    <2>1. IsFiniteSet(Entries)
      BY LoreAssumption DEF LoreInit, Entries
    <2>. QED
      BY <1>1, <1>4, <2>1 DEF Named, Reviewing, NoReport
  <1>7. Days
    BY <1>1 DEF Days
  <1>8. CoolsDown
    BY <1>1, <1>3 DEF CoolsDown
  <1>9. Claims /\ Asking
    BY <1>1, <1>4 DEF Claims, Asking, Reviewing
  <1>. QED
    BY <1>2, <1>5, <1>6, <1>7, <1>8, <1>9 DEF AskInv

LEMMA AskStutter ==
  ASSUME AskInv, UNCHANGED loreVars
  PROVE  AskInv'
  <1>0. /\ UNCHANGED <<pages, code, desk, word, date, pending, decided, visit, served>> /\ Entries' = Entries
        /\ About("reminder", "rejected")' = About("reminder", "rejected")
    BY DEF loreVars, files, Entries, About, Answered
  <1>. QED
    BY <1>0 DEF AskInv, Named, Days, CoolsDown, Claims, Asking, Reviewing, Parses, Stale, DecisionRequired, Said

LEMMA StutterUnchanged ==
  ASSUME Shapes, UNCHANGED loreVars
  PROVE  Shapes' /\ (Vouched => Vouched')
  BY DEF loreVars, files, Shapes, Vouched, Reviewing, Confirmed, About, Answered

\* When no gate dies between its report and its state, what reviewers are told as
\* approved was vouched for (absorbLoreDecisions, lore approve).
THEOREM OnlyVouchedIsTold ==
  ASSUME "written" \notin GateDies
  PROVE  LoreSpec => []ToldIsVouched
  <1>1. LoreInit => Shapes /\ Vouched
    BY LoreStart
  <1>2. Shapes /\ Vouched /\ [LoreNext]_loreVars => (Shapes /\ Vouched)'
    BY NextSplits, GateShapes, OtherShapes, GateVouched, OtherVouched, StutterUnchanged
  <1>3. Shapes /\ Vouched => ToldIsVouched
    BY DEF Shapes, Vouched, Reviewing, ToldIsVouched
  <1>. QED
    BY <1>1, <1>2, <1>3, PTL DEF LoreSpec

\* When a gate dies only before its review, a pass leaves nothing unsaid: no page waits for
\* an approval and no reminder is owed (computeLoreReminderBudget, the cache of passes).
THEOREM NothingLeftUnsaid ==
  ASSUME GateDies \subseteq {"absorbed"}
  PROVE  LoreSpec => []GreenSaysAll
  <1>1. LoreInit => Shapes /\ AskInv
    BY LoreStart
  <1>2. Shapes /\ AskInv /\ [LoreNext]_loreVars => (Shapes /\ AskInv)'
    <2>1. ASSUME Shapes, AskInv, LoreNext
          PROVE  Shapes' /\ AskInv'
      BY <2>1, NextSplits, GateShapes, OtherShapes, NamedStep, DaysStep, CoolsDownStep, ClaimsStep, AskingStep DEF AskInv
    <2>. QED
      BY <2>1, StutterUnchanged, AskStutter
  <1>3. Shapes /\ AskInv => GreenSaysAll
    BY DEF AskInv, Asking, Said, GreenSaysAll
  <1>. QED
    BY <1>1, <1>2, <1>3, PTL DEF LoreSpec

(***************************************************************************)
(* The verdict.  Before the clusters: what a finding on its own may have   *)
(* become.                                                                 *)
(***************************************************************************)

Names == {"sig", "by", "file", "line", "topic", "sev", "cat", "raw", "from", "refuted", "recurred", "effects",
          "hit", "anchor", "confirmed", "consensus", "members"}

Reportable == {"CRITICAL", "WARN", "INFO"}
OutOfIt == Disproved \cup Scoping \cup Recorded
Floored(sev, from) == sev = "CRITICAL" \/ (sev = "WARN" /\ from)

Alone(f) ==
    /\ DOMAIN f = Names /\ f.members = {} /\ f.sev \in Reportable
    /\ f.file \in Nat /\ f.line \in Nat /\ f.topic \in Nat
    /\ f.refuted => f.sev = "INFO"
    /\ f.raw = "CRITICAL" /\ f.effects \cap Disproved = {} => Floored(f.sev, f.from)

EarlyStages == {"facts", "refuted", "hypothetical", "tokens", "judge", "redaction", "cluster"}

LEMMA LoweredFields ==
  ASSUME NEW f, DOMAIN f = Names, NEW sev, NEW pass
  PROVE  LET g == Lowered(f, sev, pass) IN
         /\ DOMAIN g = Names /\ g.sev = sev /\ g.effects = f.effects \cup {pass}
         /\ g.from = f.from /\ g.members = f.members /\ g.sig = f.sig /\ g.raw = f.raw /\ g.recurred = f.recurred
         /\ g.consensus = f.consensus /\ g.cat = f.cat /\ g.refuted = f.refuted
         /\ g.file = f.file /\ g.line = f.line /\ g.topic = f.topic
  BY DEF Lowered, Names

LEMMA ToWarnFields ==
  ASSUME NEW f, DOMAIN f = Names, NEW pass
  PROVE  LET g == ToWarn(f, pass) IN
         /\ DOMAIN g = Names /\ g.sev = "WARN" /\ g.effects = f.effects \cup {pass}
         /\ g.from = TRUE /\ g.members = f.members /\ g.sig = f.sig /\ g.raw = f.raw /\ g.recurred = f.recurred
         /\ g.refuted = f.refuted /\ g.file = f.file /\ g.line = f.line /\ g.topic = f.topic
  <1> DEFINE l == Lowered(f, "WARN", pass)
  <1>1. /\ DOMAIN l = Names /\ l.sev = "WARN" /\ l.effects = f.effects \cup {pass}
        /\ l.members = f.members /\ l.sig = f.sig /\ l.raw = f.raw /\ l.recurred = f.recurred /\ l.refuted = f.refuted
        /\ l.file = f.file /\ l.line = f.line /\ l.topic = f.topic
    BY LoweredFields
  <1>2. ToWarn(f, pass) = [l EXCEPT !.from = TRUE]
    BY DEF ToWarn
  <1> HIDE DEF l
  <1> QED BY <1>1, <1>2 DEF Names

LEMMA AloneWarn ==
  ASSUME NEW f, Alone(f), f.sev = "CRITICAL", NEW pass
  PROVE  Alone(ToWarn(f, pass))
  <1> DEFINE g == ToWarn(f, pass)
  <1>1. /\ DOMAIN g = Names /\ g.sev = "WARN" /\ g.from = TRUE /\ g.members = {} /\ ~g.refuted
        /\ g.file \in Nat /\ g.line \in Nat /\ g.topic \in Nat
    <2>0. DOMAIN f = Names
      BY DEF Alone
    <2>1. ~f.refuted /\ DOMAIN f = Names /\ f.members = {} /\ f.file \in Nat /\ f.line \in Nat /\ f.topic \in Nat
      BY DEF Alone
    <2>2. DOMAIN g = Names /\ g.sev = "WARN" /\ g.from = TRUE /\ g.members = f.members /\ g.refuted = f.refuted
      BY ONLY <2>0, ToWarnFields
    <2>3. g.file = f.file /\ g.line = f.line /\ g.topic = f.topic
      BY ONLY <2>0, ToWarnFields
    <2> HIDE DEF g
    <2> QED BY <2>1, <2>2, <2>3
  <1>2. Alone(g)
    <2> HIDE DEF g
    <2> QED BY <1>1 DEF Alone, Reportable, Floored
  <1> QED BY <1>2

LEMMA AloneInfo ==
  ASSUME NEW f, Alone(f), NEW pass \in Disproved
  PROVE  Alone(ToInfo(f, pass))
  <1> DEFINE g == ToInfo(f, pass)
  <1>1. /\ DOMAIN g = Names /\ g.sev = "INFO" /\ pass \in g.effects /\ g.members = {}
        /\ g.file \in Nat /\ g.line \in Nat /\ g.topic \in Nat
    BY LoweredFields DEF Alone, ToInfo
  <1>2. g.effects \cap Disproved # {}
    BY <1>1
  <1>3. Alone(g)
    <2> HIDE DEF g
    <2> QED BY <1>1, <1>2 DEF Alone, Reportable
  <1> QED BY <1>3

LEMMA AloneRefuted ==
  ASSUME NEW f, Alone(f)
  PROVE  /\ f.sev = "INFO" => Alone([f EXCEPT !.refuted = TRUE])
         /\ \A line \in Nat : Alone([f EXCEPT !.line = line])
  <1>1. f.sev = "INFO" => Alone([f EXCEPT !.refuted = TRUE])
    BY DEF Alone, Names
  <1>2. \A line \in Nat : Alone([f EXCEPT !.line = line])
    BY DEF Alone, Names
  <1> QED BY <1>1, <1>2

Image(s) == {s[i] : i \in DOMAIN s}
EarlyStep == FactCheck \/ SelfRefute \/ Hypothetical \/ GroundTokens \/ JudgeGrounding \/ DemoteRedaction

LEMMA EarlyAlone ==
  ASSUME \A i \in DOMAIN fs : Alone(fs[i]), EarlyStep
  PROVE  /\ stage \in EarlyStages \ {"cluster"} /\ stage' \in EarlyStages /\ verdict' = verdict
         /\ DOMAIN fs' = DOMAIN fs /\ fs' = [i \in DOMAIN fs |-> fs'[i]]
         /\ \A i \in DOMAIN fs' : Alone(fs'[i])
  <1>1. CASE FactCheck
    <2>1. PICK gone \in SUBSET DOMAIN fs : \E found \in [gone -> Lines \cup {None}] : fs' = [i \in DOMAIN fs |->
              Transition("fact-location", fs[i], i \in gone, "none",
                         IF found[i] # None THEN [fs[i] EXCEPT !.line = found[i]] ELSE ToInfo(fs[i], "fact-location"))]
      BY <1>1 DEF FactCheck, Pass
    <2>2. PICK found \in [gone -> Lines \cup {None}] : fs' = [i \in DOMAIN fs |->
              Transition("fact-location", fs[i], i \in gone, "none",
                         IF found[i] # None THEN [fs[i] EXCEPT !.line = found[i]] ELSE ToInfo(fs[i], "fact-location"))]
      BY <2>1
    <2>3. ASSUME NEW i \in DOMAIN fs PROVE Alone(fs'[i])
      <3>1. \/ fs'[i] = fs[i]
            \/ i \in gone /\ found[i] # None /\ fs'[i] = [fs[i] EXCEPT !.line = found[i]]
            \/ fs'[i] = ToInfo(fs[i], "fact-location")
        BY <2>2 DEF Transition
      <3>2. Alone(fs[i]) /\ "fact-location" \in Disproved
        BY DEF Disproved
      <3>3. Alone(ToInfo(fs[i], "fact-location")) /\ \A line \in Nat : Alone([fs[i] EXCEPT !.line = line])
        BY <3>2, AloneInfo, AloneRefuted
      <3>4. i \in gone /\ found[i] # None => found[i] \in Nat
        BY VerdictAssumption
      <3> QED BY <3>1, <3>2, <3>3, <3>4
    <2> QED BY <1>1, <2>2, <2>3 DEF FactCheck, Pass, EarlyStages
  <1>2. CASE SelfRefute
    <2>1. PICK says \in SUBSET DOMAIN fs : fs' = [i \in DOMAIN fs |->
              Transition("self-refutation", fs[i], Blocking(fs[i]) /\ i \in says, HighStakesGround(fs[i]),
                         [ToInfo(fs[i], "self-refutation") EXCEPT !.refuted = TRUE])]
      BY <1>2 DEF SelfRefute, Pass
    <2>3. ASSUME NEW i \in DOMAIN fs PROVE Alone(fs'[i])
      <3>1. fs'[i] = fs[i] \/ fs'[i] = [ToInfo(fs[i], "self-refutation") EXCEPT !.refuted = TRUE]
        BY <2>1 DEF Transition
      <3> DEFINE g == ToInfo(fs[i], "self-refutation")
      <3>2. Alone(g) /\ g.sev = "INFO"
        BY AloneInfo, LoweredFields DEF Disproved, ToInfo, Alone
      <3> HIDE DEF g
      <3>3. Alone([g EXCEPT !.refuted = TRUE])
        BY <3>2, AloneRefuted
      <3> QED BY <3>1, <3>3 DEF g
    <2> QED BY <1>2, <2>1, <2>3 DEF SelfRefute, Pass, EarlyStages
  <1>3. CASE Hypothetical
    <2>1. PICK says \in SUBSET DOMAIN fs : fs' = [i \in DOMAIN fs |->
              Transition("hypothetical", fs[i], fs[i].sev = "CRITICAL" /\ i \in says, HighStakesGround(fs[i]),
                         ToWarn(fs[i], "hypothetical"))]
      BY <1>3 DEF Hypothetical, Pass
    <2>3. ASSUME NEW i \in DOMAIN fs PROVE Alone(fs'[i])
      BY <2>1, AloneWarn DEF Transition
    <2> QED BY <1>3, <2>1, <2>3 DEF Hypothetical, Pass, EarlyStages
  <1>4. CASE GroundTokens
    <2>1. PICK absent \in SUBSET DOMAIN fs : fs' = [i \in DOMAIN fs |->
              Transition("grounding-token", fs[i], fs[i].sev = "CRITICAL" /\ i \in absent, HighStakesGround(fs[i]),
                         ToWarn(fs[i], "grounding"))]
      BY <1>4 DEF GroundTokens, Pass
    <2>3. ASSUME NEW i \in DOMAIN fs PROVE Alone(fs'[i])
      BY <2>1, AloneWarn DEF Transition
    <2> QED BY <1>4, <2>1, <2>3 DEF GroundTokens, Pass, EarlyStages
  <1>5. CASE JudgeGrounding
    <2>1. PICK unfounded \in SUBSET AllSigs : fs' = [i \in DOMAIN fs |->
              Transition("grounding-llm", fs[i], fs[i].sev = "CRITICAL" /\ fs[i].sig \in unfounded, HighStakesGround(fs[i]),
                         ToWarn(fs[i], "grounding"))]
      BY <1>5 DEF JudgeGrounding, Pass
    <2>3. ASSUME NEW i \in DOMAIN fs PROVE Alone(fs'[i])
      BY <2>1, AloneWarn DEF Transition
    <2> QED BY <1>5, <2>1, <2>3 DEF JudgeGrounding, Pass, EarlyStages
  <1>6. CASE DemoteRedaction
    <2>1. PICK names \in SUBSET DOMAIN fs : \E leads \in SUBSET names : fs' = [i \in DOMAIN fs |->
              Transition("redaction", fs[i], Blocking(fs[i]) /\ i \in names,
                         IF fs[i].cat = "security" THEN "security-correctness-floor"
                         ELSE IF i \in leads THEN "secret-evidence-backstop" ELSE "none", ToInfo(fs[i], "redaction"))]
      BY <1>6 DEF DemoteRedaction, Pass
    <2>2. \A i \in DOMAIN fs : fs'[i] \in {fs[i], ToInfo(fs[i], "redaction")}
      BY <2>1 DEF Transition
    <2>3. ASSUME NEW i \in DOMAIN fs PROVE Alone(fs'[i])
      BY <2>1, <2>2, AloneInfo DEF Disproved
    <2> QED BY <1>6, <2>1, <2>3 DEF DemoteRedaction, Pass, EarlyStages
  <1> QED BY <1>1, <1>2, <1>3, <1>4, <1>5, <1>6 DEF EarlyStep

\* Induction over the numbers, with a set for the predicate.
LEMMA Induct ==
  ASSUME NEW T, 0 \in T, \A n \in Nat : n \in T => n + 1 \in T, NEW m \in Nat
  PROVE  m \in T
  <1> DEFINE All == 0 .. m
             Without == {X \in SUBSET All : \E k \in All : X = 0 .. k /\ k \notin T}
  <1>1. SUFFICES ASSUME m \notin T PROVE FALSE
    OBVIOUS
  <1>2. IsFiniteSet(All)
    BY FS_Interval
  <1>3. Without \subseteq FiniteSubsetsOf(All)
    BY <1>2, FS_Subset DEF FiniteSubsetsOf
  <1>4. All \in Without
    <2>1. m \in All
      OBVIOUS
    <2> QED BY <1>1, <2>1
  <1>5. PICK X \in Without : \A Y \in Without : <<Y, X>> \notin StrictSubsetOrdering(All)
    <2> HIDE DEF Without, All
    <2>1. IsWellFoundedOn(StrictSubsetOrdering(All), FiniteSubsetsOf(All))
      BY FS_StrictSubsetOrderingWellFounded
    <2> QED BY <1>3, <1>4, <2>1, WFMin
  <1>6. PICK k \in All : X = 0 .. k /\ k \notin T
    OBVIOUS
  <1>7. k # 0 /\ k - 1 \in All /\ k - 1 \notin T
    <2>1. k # 0 /\ k - 1 \in Nat /\ (k - 1) + 1 = k
      BY <1>6
    <2> QED BY <1>6, <2>1
  <1>8. 0 .. (k - 1) \subseteq X /\ k \in X /\ k \notin 0 .. (k - 1) /\ 0 .. (k - 1) \subseteq All
    BY <1>6, <1>7
  <1>9. 0 .. (k - 1) \in Without
    <2>1. 0 .. (k - 1) \in SUBSET All
      BY <1>8
    <2> QED BY <1>7, <2>1
  <1>10. <<0 .. (k - 1), X>> \in StrictSubsetOrdering(All)
    BY <1>8, <1>9 DEF StrictSubsetOrdering
  <1> QED BY <1>5, <1>9, <1>10

\* The clusters after each finding, as `Clusters` builds them.
Grown(in, ord, n, g) == g = [k \in 0 .. n |-> IF k = 0 THEN <<>> ELSE Join(g[k - 1], in[ord[k]])]

LEMMA GrownExists ==
  ASSUME NEW in, NEW ord, NEW m \in Nat
  PROVE  \E g : Grown(in, ord, m, g)
  <1> DEFINE T == {n \in Nat : \E g : Grown(in, ord, n, g)}
  <1>1. 0 \in T
    <2> DEFINE g == [k \in 0 .. 0 |-> <<>>]
    <2>1. g = [k \in 0 .. 0 |-> IF k = 0 THEN <<>> ELSE Join(g[k - 1], in[ord[k]])]
      OBVIOUS
    <2> QED BY <2>1 DEF Grown
  <1>2. ASSUME NEW n \in Nat, n \in T PROVE n + 1 \in T
    <2>1. PICK g : Grown(in, ord, n, g)
      BY <1>2
    <2> DEFINE h == [k \in 0 .. n + 1 |-> IF k = n + 1 THEN Join(g[n], in[ord[n + 1]]) ELSE g[k]]
    <2>2. ASSUME NEW k \in 0 .. n + 1
          PROVE  h[k] = IF k = 0 THEN <<>> ELSE Join(h[k - 1], in[ord[k]])
      <3>1. CASE k = n + 1
        <4>1. h[k] = Join(g[n], in[ord[n + 1]]) /\ h[n] = g[n] /\ k # 0 /\ k - 1 = n
          BY <3>1
        <4> QED BY <3>1, <4>1
      <3>2. CASE k \in 0 .. n /\ k # 0
        <4>1. h[k] = g[k] /\ h[k - 1] = g[k - 1]
          BY <3>2
        <4>2. g[k] = Join(g[k - 1], in[ord[k]])
          <5> HIDE DEF h
          <5> QED BY <2>1, <3>2 DEF Grown
        <4> HIDE DEF h
        <4> QED BY <3>2, <4>1, <4>2
      <3>3. CASE k = 0
        <4>1. h[k] = g[k] /\ k \in 0 .. n
          BY <3>3
        <4>2. g[0] = <<>>
          <5> HIDE DEF h
          <5> QED BY <2>1 DEF Grown
        <4> HIDE DEF h
        <4> QED BY <3>3, <4>1, <4>2
      <3> QED BY <3>1, <3>2, <3>3
    <2>3. h = [k \in 0 .. n + 1 |-> h[k]]
      OBVIOUS
    <2>4. h = [k \in 0 .. n + 1 |-> IF k = 0 THEN <<>> ELSE Join(h[k - 1], in[ord[k]])]
      <3> HIDE DEF h
      <3> QED BY <2>2, <2>3
    <2> HIDE DEF h
    <2>5. Grown(in, ord, n + 1, h)
      BY <2>4 DEF Grown
    <2> QED BY <2>5
  <1> HIDE DEF T
  <1>3. m \in T
    BY <1>1, <1>2, Induct
  <1> QED BY <1>3 DEF T

LEMMA ClustersGrow ==
  ASSUME NEW in, NEW ord, Len(in) \in Nat
  PROVE  \E g : Grown(in, ord, Len(in), g) /\ Clusters(in, ord) = g[Len(in)]
  <1> DEFINE c == CHOOSE g : Grown(in, ord, Len(in), g)
  <1>1. Grown(in, ord, Len(in), c)
    BY GrownExists
  <1>2. Clusters(in, ord) = c[Len(in)]
    BY DEF Clusters, Grown
  <1> QED BY <1>1, <1>2

(***************************************************************************)
(* Clusters.                                                               *)
(***************************************************************************)

LEMMA LeastExists ==
  ASSUME NEW S, S # {}, \A x \in S : x \in Nat
  PROVE  Min(S) \in S /\ \A x \in S : Min(S) <= x
  <1> DEFINE T == {n \in Nat : \A x \in S : n <= x}
  <1>1. PICK y \in S : TRUE
    OBVIOUS
  <1>2. y \in Nat /\ y + 1 \notin T
    BY <1>1
  <1>3. 0 \in T
    OBVIOUS
  <1>4. PICK n \in Nat : n \in T /\ n + 1 \notin T
    <2>1. SUFFICES ASSUME \A n \in Nat : n \in T => n + 1 \in T PROVE FALSE
      OBVIOUS
    <2> HIDE DEF T
    <2>2. y + 1 \in Nat
      BY <1>2
    <2> QED BY <1>2, <1>3, <2>1, <2>2, Induct
  <1>5. PICK x \in S : ~(n + 1 <= x)
    BY <1>4
  <1>6. x \in S /\ \A z \in S : x <= z
    BY <1>4, <1>5
  <1> QED BY <1>6 DEF Min

Stands(m) == m.raw = "CRITICAL" /\ m.effects \cap Disproved = {} => Floored(m.sev, m.from)

\* A cluster is as severe as the worst of its members.
Gathered(c) ==
    /\ DOMAIN c = Names /\ c.sev \in Reportable
    /\ c.refuted => c.sev = "INFO"
    /\ \A m \in c.members : m.sev \in Reportable /\ Rank(m.sev) <= Rank(c.sev) /\ Stands(m)

AllGathered(cs) == cs \in Seq(Image(cs)) /\ \A k \in DOMAIN cs : Gathered(cs[k])

LEMMA RankNat ==
  ASSUME NEW sev
  PROVE  Rank(sev) \in 0 .. 3
  BY DEF Rank

LEMMA SeedGathered ==
  ASSUME NEW f, Alone(f)
  PROVE  Gathered(Seed(f)) /\ Seed(f).members = {MemberOf(f)}
  <1> DEFINE a == [file |-> f.file, line |-> f.line, topic |-> f.topic]
             m == MemberOf(f)
             c == [f EXCEPT !.anchor = a, !.confirmed = {f.by}, !.members = {m}]
  <1>1. Seed(f) = c
    BY DEF Seed
  <1>2. m.sev = f.sev /\ m.raw = f.raw /\ m.effects = f.effects /\ m.from = f.from
    BY DEF MemberOf
  <1>3. DOMAIN c = Names /\ c.sev = f.sev /\ c.members = {m} /\ (c.refuted => c.sev = "INFO")
    <2> HIDE DEF a, m
    <2> QED BY DEF Alone, Names
  <1>4. Rank(f.sev) <= Rank(f.sev)
    BY RankNat
  <1>5. f.sev \in Reportable /\ Stands(m)
    <2> HIDE DEF m
    <2> QED BY <1>2 DEF Alone, Stands
  <1> HIDE DEF c, m
  <1> QED BY <1>1, <1>2, <1>3, <1>4, <1>5 DEF Gathered, m

LEMMA MergeGathered ==
  ASSUME NEW f, Alone(f), NEW c, Gathered(c)
  PROVE  Gathered(Merge(c, f)) /\ Merge(c, f).members = c.members \cup {MemberOf(f)}
  <1> DEFINE m == MemberOf(f)
             g == [f EXCEPT !.anchor = c.anchor]
             b == IF Rank(f.sev) > Rank(c.sev) THEN g ELSE c
             r == [b EXCEPT !.confirmed = c.confirmed \cup {f.by}, !.members = c.members \cup {m}]
  <1>1. Merge(c, f) = r
    BY DEF Merge
  <1>2. m.sev = f.sev /\ m.raw = f.raw /\ m.effects = f.effects /\ m.from = f.from
    BY DEF MemberOf
  <1>3. DOMAIN g = Names /\ g.sev = f.sev /\ (g.refuted => g.sev = "INFO")
    BY DEF Alone, Names
  <1>4. /\ DOMAIN b = Names /\ b.sev \in Reportable /\ (b.refuted => b.sev = "INFO")
        /\ Rank(f.sev) <= Rank(b.sev) /\ Rank(c.sev) <= Rank(b.sev)
    <2>1. Rank(f.sev) \in 0 .. 3 /\ Rank(c.sev) \in 0 .. 3
      BY RankNat
    <2>2. f.sev \in Reportable /\ c.sev \in Reportable /\ DOMAIN c = Names /\ (c.refuted => c.sev = "INFO")
      BY DEF Alone, Gathered
    <2>3. CASE Rank(f.sev) > Rank(c.sev)
      <3>1. b = g
        BY <2>3
      <3> HIDE DEF b, g
      <3> QED BY <1>3, <2>1, <2>2, <2>3, <3>1
    <2>4. CASE ~(Rank(f.sev) > Rank(c.sev))
      <3>1. b = c
        BY <2>4
      <3> HIDE DEF b
      <3> QED BY <2>1, <2>2, <2>4, <3>1
    <2> QED BY <2>3, <2>4
  <1>5. DOMAIN r = Names /\ r.sev = b.sev /\ r.members = c.members \cup {m} /\ (r.refuted => r.sev = "INFO")
    <2> HIDE DEF b, m
    <2> QED BY <1>4 DEF Names
  <1>6. m.sev \in Reportable /\ Stands(m)
    <2> HIDE DEF m
    <2> QED BY <1>2 DEF Alone, Stands
  <1>7. ASSUME NEW x \in r.members
        PROVE  x.sev \in Reportable /\ Rank(x.sev) <= Rank(r.sev) /\ Stands(x)
    <2>1. Rank(x.sev) \in 0 .. 3 /\ Rank(c.sev) \in 0 .. 3 /\ Rank(b.sev) \in 0 .. 3 /\ Rank(f.sev) \in 0 .. 3
      BY RankNat
    <2>2. CASE x = m
      <3> HIDE DEF r, b, m
      <3> QED BY <1>2, <1>4, <1>5, <1>6, <2>2
    <2>3. CASE x \in c.members
      <3>1. x.sev \in Reportable /\ Rank(x.sev) <= Rank(c.sev) /\ Stands(x)
        BY <2>3 DEF Gathered
      <3> HIDE DEF r, b
      <3> QED BY <1>4, <1>5, <2>1, <3>1
    <2> HIDE DEF r, m
    <2> QED BY <1>5, <2>2, <2>3
  <1>8. Gathered(r)
    <2> HIDE DEF r, b
    <2> QED BY <1>4, <1>5, <1>7 DEF Gathered
  <1> HIDE DEF r, m
  <1> QED BY <1>1, <1>5, <1>8 DEF m

\* Joining one finding keeps what the clusters are, and everybody who is in one.
LEMMA JoinGathers ==
  ASSUME NEW cs, AllGathered(cs), NEW f, Alone(f)
  PROVE  /\ AllGathered(Join(cs, f))
         /\ \E k \in DOMAIN Join(cs, f) : MemberOf(f) \in Join(cs, f)[k].members
         /\ \A k \in DOMAIN cs : k \in DOMAIN Join(cs, f) /\ cs[k].members \subseteq Join(cs, f)[k].members
  <1> DEFINE near == {k \in DOMAIN cs : Joins(cs[k], f)}
             new == Join(cs, f)
             x == Seed(f)
  <1>0. cs \in Seq(Image(cs)) /\ Len(cs) \in Nat /\ DOMAIN cs = 1 .. Len(cs)
    BY DEF AllGathered
  <1>1. CASE near = {}
    <2>1. new = Append(cs, x)
      BY <1>1 DEF Join
    <2>2. Gathered(x) /\ x.members = {MemberOf(f)}
      BY SeedGathered
    <2> HIDE DEF x, new, near
    <2>3. /\ DOMAIN new = 1 .. Len(cs) + 1 /\ new[Len(cs) + 1] = x
          /\ \A k \in 1 .. Len(cs) : new[k] = cs[k]
          /\ new \in Seq(Image(cs) \cup {x})
      <3>1. cs \in Seq(Image(cs) \cup {x})
        BY <1>0
      <3> QED BY <2>1, <3>1
    <2>4. new \in Seq(Image(new))
      <3>1. Len(new) = Len(cs) + 1
        BY <2>3, <1>0
      <3>2. \A k \in 1 .. Len(new) : new[k] \in Image(new)
        BY <2>3, <3>1 DEF Image
      <3> QED BY <2>3, <3>1, <3>2, <1>0, IsASeq
    <2>5. \A k \in DOMAIN new : Gathered(new[k])
      BY <1>0, <2>2, <2>3 DEF AllGathered
    <2>6. Len(cs) + 1 \in DOMAIN new
      BY <1>0, <2>3
    <2>7. \A k \in DOMAIN cs : k \in DOMAIN new /\ cs[k].members \subseteq new[k].members
      BY <1>0, <2>3
    <2>8. MemberOf(f) \in new[Len(cs) + 1].members
      BY <2>2, <2>3
    <2> QED BY <2>4, <2>5, <2>6, <2>7, <2>8 DEF AllGathered, new
  <1>2. CASE near # {}
    <2> DEFINE n == Min(near)
               y == Merge(cs[n], f)
    <2>0. \A k \in near : k \in Nat
      BY <1>0
    <2>1. n \in near
      <3> HIDE DEF near
      <3> QED BY <2>0, <1>2, LeastExists
    <2>2. new = [cs EXCEPT ![n] = y]
      BY <1>2 DEF Join
    <2>3. n \in DOMAIN cs
      BY <2>1
    <2>4. Gathered(y) /\ y.members = cs[n].members \cup {MemberOf(f)}
      BY <2>3, MergeGathered DEF AllGathered
    <2> HIDE DEF near, n, y, new
    <2>5. DOMAIN new = DOMAIN cs /\ new[n] = y /\ \A k \in DOMAIN cs : k # n => new[k] = cs[k]
      BY <2>2, <2>3
    <2>6. new \in Seq(Image(new))
      <3>1. \A k \in 1 .. Len(cs) : new[k] \in Image(new)
        BY <2>5, <1>0 DEF Image
      <3>2. new = [k \in 1 .. Len(cs) |-> new[k]]
        BY <2>2, <1>0
      <3> QED BY <1>0, <3>1, <3>2, IsASeq
    <2>7. \A k \in DOMAIN new : Gathered(new[k])
      BY <2>4, <2>5 DEF AllGathered
    <2>8. \A k \in DOMAIN cs : k \in DOMAIN new /\ cs[k].members \subseteq new[k].members
      BY <2>4, <2>5
    <2>9. MemberOf(f) \in new[n].members
      BY <2>4, <2>5
    <2> QED BY <2>3, <2>5, <2>6, <2>7, <2>8, <2>9 DEF AllGathered, new
  <1> QED BY <1>1, <1>2

\* A run through all findings: whatever the order, no cluster is less severe than a
\* member, and nobody is lost.
LEMMA ClustersGather ==
  ASSUME NEW in, in \in Seq(Image(in)), \A i \in DOMAIN in : Alone(in[i]), NEW ord \in [DOMAIN in -> DOMAIN in]
  PROVE  /\ AllGathered(Clusters(in, ord))
         /\ \A i \in DOMAIN in : \E k \in DOMAIN Clusters(in, ord) :
                MemberOf(in[ord[i]]) \in Clusters(in, ord)[k].members
  <1>0. Len(in) \in Nat /\ DOMAIN in = 1 .. Len(in)
    OBVIOUS
  <1>1. PICK g : Grown(in, ord, Len(in), g) /\ Clusters(in, ord) = g[Len(in)]
    BY <1>0, ClustersGrow
  <1>2. g[0] = <<>> /\ \A n \in 1 .. Len(in) : g[n] = Join(g[n - 1], in[ord[n]])
    BY <1>0, <1>1 DEF Grown
  <1> DEFINE Has(n) == \A i \in 1 .. n : \E k \in DOMAIN g[n] : MemberOf(in[ord[i]]) \in g[n][k].members
             T == {n \in Nat : n <= Len(in) => AllGathered(g[n]) /\ Has(n)}
  <1>3. 0 \in T
    <2> DEFINE e == <<>>
    <2>1. e \in Seq(Image(e)) /\ DOMAIN e = {} /\ g[0] = e
      BY <1>2
    <2> HIDE DEF e
    <2>2. AllGathered(e)
      BY <2>1 DEF AllGathered
    <2>3. Has(0)
      OBVIOUS
    <2> QED BY <2>1, <2>2, <2>3
  <1>4. ASSUME NEW n \in Nat, n \in T PROVE n + 1 \in T
    <2>1. SUFFICES ASSUME n + 1 <= Len(in) PROVE AllGathered(g[n + 1]) /\ Has(n + 1)
      OBVIOUS
    <2> DEFINE f == in[ord[n + 1]]
    <2>2. AllGathered(g[n]) /\ Has(n)
      BY <1>0, <1>4, <2>1
    <2>3. Alone(f)
      BY <1>0, <2>1
    <2>4. g[n + 1] = Join(g[n], f)
      BY <1>0, <1>2, <2>1
    <2> HIDE DEF f
    <2>5. /\ AllGathered(g[n + 1])
          /\ \E k \in DOMAIN g[n + 1] : MemberOf(f) \in g[n + 1][k].members
          /\ \A k \in DOMAIN g[n] : k \in DOMAIN g[n + 1] /\ g[n][k].members \subseteq g[n + 1][k].members
      BY <2>2, <2>3, <2>4, JoinGathers
    <2>6. ASSUME NEW i \in 1 .. n + 1
          PROVE  \E k \in DOMAIN g[n + 1] : MemberOf(in[ord[i]]) \in g[n + 1][k].members
      <3>1. CASE i \in 1 .. n
        <4>1. PICK k \in DOMAIN g[n] : MemberOf(in[ord[i]]) \in g[n][k].members
          BY <2>2, <3>1
        <4> QED BY <2>5, <4>1
      <3>2. CASE i = n + 1
        BY <2>5, <3>2 DEF f
      <3> QED BY <3>1, <3>2
    <2> QED BY <2>5, <2>6
  <1> HIDE DEF T
  <1>5. Len(in) \in T
    BY <1>0, <1>3, <1>4, Induct
  <1>6. AllGathered(g[Len(in)]) /\ Has(Len(in))
    BY <1>0, <1>5 DEF T
  <1> QED BY <1>0, <1>1, <1>6

\* Merging loses no finding: each one that is reported is a member of some cluster
\* ("preserve every reviewer's wording so nothing is lost when findings merge").
THEOREM NobodyIsMergedAway ==
  ASSUME NEW in, in \in Seq(Image(in)), \A i \in DOMAIN in : Alone(in[i]), NEW ord \in Sorted(in), NEW i \in DOMAIN in
  PROVE  \E k \in DOMAIN Clusters(in, ord) : MemberOf(in[i]) \in Clusters(in, ord)[k].members
  <1>1. ord \in [DOMAIN in -> DOMAIN in] /\ \E j \in DOMAIN in : ord[j] = i
    BY DEF Sorted, Bijection, Injection, Surjection
  <1> QED BY <1>1, ClustersGather

LEMMA ClusterKeeps ==
  ASSUME fs \in Seq(Image(fs)), \A i \in DOMAIN fs : Alone(fs[i]), Cluster
  PROVE  \A k \in DOMAIN fs' : \E c : Gathered(c) /\ fs'[k] = Representative(c)
  <1>1. PICK ord \in Sorted(fs) : fs' = [k \in DOMAIN Clusters(fs, ord) |-> Representative(Clusters(fs, ord)[k])]
    BY DEF Cluster
  <1>2. ord \in [DOMAIN fs -> DOMAIN fs]
    BY DEF Sorted, Bijection, Injection, Surjection
  <1>3. AllGathered(Clusters(fs, ord))
    BY <1>2, ClustersGather
  <1> QED BY <1>1, <1>3 DEF AllGathered

(***************************************************************************)
(* After the clusters.                                                     *)
(***************************************************************************)

LateStages == Stages \ EarlyStages
Known == {"fp-signature", "fp-cluster"}

Claimed(f) == Sigs(f) \cap memory.claimed # {} /\ Sigs(f) \cap memory.rejected = {}

\* A CRITICAL among the members keeps the whole at the floor ...
CriticalKept(f) ==
    \A m \in f.members :
        m.raw = "CRITICAL" /\ (m.effects \cup f.effects) \cap OutOfIt = {} => Floored(f.sev, f.from)

\* ... and a claimed fix keeps it blocking.
FixKept(f) ==
    /\ Claimed(f)
    /\ \E m \in f.members : m.sev \in {"CRITICAL", "WARN"}
    /\ f.effects \cap (Scoping \cup Known) = {}
    => Blocking(f)

Kept(f) == DOMAIN f = Names /\ CriticalKept(f) /\ FixKept(f)
Pinned(f) == Claimed(f) => f.recurred

Judged ==
    /\ (\E i \in DOMAIN fs : FailsAlone(fs[i])) => verdict = "FAIL"
    /\ (\E i \in DOMAIN fs : Blocking(fs[i])) => verdict # "PASS"

VerdictInv ==
    /\ stage \in Stages
    /\ stage \in EarlyStages => fs \in Seq(Image(fs)) /\ \A i \in DOMAIN fs : Alone(fs[i])
    /\ stage \in LateStages => \A i \in DOMAIN fs : Kept(fs[i])
    /\ stage \in LateStages \ {"pin"} => \A i \in DOMAIN fs : Pinned(fs[i])
    /\ stage = "done" => Judged

\* What a pass may do to a finding.
LEMMA LoweredKeeps ==
  ASSUME NEW f, Kept(f), Pinned(f), NEW g,
         DOMAIN g = Names, g.members = f.members, g.sig = f.sig, g.recurred = f.recurred, f.effects \subseteq g.effects,
         g.effects \cap OutOfIt # {} \/ (Floored(f.sev, f.from) => Floored(g.sev, g.from)),
         g.effects \cap (Scoping \cup Known) # {} \/ ~Claimed(f) \/ (Blocking(f) => Blocking(g))
  PROVE  Kept(g) /\ Pinned(g)
  <1>1. Claimed(g) <=> Claimed(f)
    BY DEF Claimed, Sigs
  <1>2. CriticalKept(g)
    <2>1. SUFFICES ASSUME NEW m \in g.members, m.raw = "CRITICAL", (m.effects \cup g.effects) \cap OutOfIt = {}
                   PROVE  Floored(g.sev, g.from)
      BY DEF CriticalKept
    <2>2. (m.effects \cup f.effects) \cap OutOfIt = {} /\ g.effects \cap OutOfIt = {}
      BY <2>1
    <2> QED BY <2>1, <2>2 DEF Kept, CriticalKept
  <1>3. FixKept(g)
    <2>1. f.effects \cap (Scoping \cup Known) # {} => g.effects \cap (Scoping \cup Known) # {}
      OBVIOUS
    <2> QED BY <1>1, <2>1 DEF Kept, FixKept
  <1> QED BY <1>1, <1>2, <1>3 DEF Kept, Pinned

\* Out of scope, or known to the ledger.
LEMMA InfoKeeps ==
  ASSUME NEW f, Kept(f), Pinned(f), NEW pass \in Scoping \cup Recorded, pass \in Scoping \cup Known \/ ~Claimed(f)
  PROVE  Kept(ToInfo(f, pass)) /\ Pinned(ToInfo(f, pass))
  <1> DEFINE g == ToInfo(f, pass)
  <1>1. /\ DOMAIN g = Names /\ g.members = f.members /\ g.sig = f.sig /\ g.recurred = f.recurred
        /\ g.effects = f.effects \cup {pass}
    BY LoweredFields DEF ToInfo, Kept
  <1> HIDE DEF g
  <1>2. pass \in g.effects /\ pass \in OutOfIt
    BY <1>1 DEF OutOfIt
  <1>3. g.effects \cap OutOfIt # {} /\ (g.effects \cap (Scoping \cup Known) # {} \/ ~Claimed(f))
    BY <1>2
  <1>4. f.effects \subseteq g.effects
    BY <1>1
  <1>5. Kept(g) /\ Pinned(g)
    BY <1>1, <1>3, <1>4, LoweredKeeps
  <1> QED BY <1>5 DEF g

\* One step down from CRITICAL, marked.
LEMMA WarnKeeps ==
  ASSUME NEW f, Kept(f), Pinned(f), NEW pass
  PROVE  Kept(ToWarn(f, pass)) /\ Pinned(ToWarn(f, pass))
  <1> DEFINE g == ToWarn(f, pass)
  <1>1. /\ DOMAIN g = Names /\ g.members = f.members /\ g.sig = f.sig /\ g.recurred = f.recurred
        /\ g.effects = f.effects \cup {pass} /\ g.sev = "WARN" /\ g.from = TRUE
    BY ToWarnFields DEF Kept
  <1> HIDE DEF g
  <1>2. Floored(g.sev, g.from) /\ Blocking(g) /\ f.effects \subseteq g.effects
    BY <1>1 DEF Floored, Blocking
  <1>3. Kept(g) /\ Pinned(g)
    BY <1>1, <1>2, LoweredKeeps
  <1> QED BY <1>3 DEF g

\* A judgment of value lowers no finding below the floor, nor a claimed fix.
LEMMA JudgmentKeeps ==
  ASSUME NEW f, Kept(f), Pinned(f), NEW sev, NEW pass, ~Claimed(f), ~Floored(f.sev, f.from)
  PROVE  Kept(Lowered(f, sev, pass)) /\ Pinned(Lowered(f, sev, pass))
  <1> DEFINE g == Lowered(f, sev, pass)
  <1>1. /\ DOMAIN g = Names /\ g.members = f.members /\ g.sig = f.sig /\ g.recurred = f.recurred
        /\ g.effects = f.effects \cup {pass}
    BY LoweredFields DEF Kept
  <1> HIDE DEF g
  <1>2. f.effects \subseteq g.effects
    BY <1>1
  <1>3. Kept(g) /\ Pinned(g)
    BY <1>1, <1>2, LoweredKeeps
  <1> QED BY <1>3 DEF g

LEMMA StepDownKeeps ==
  ASSUME NEW f, Kept(f), Pinned(f), NEW pass, f.sev = "CRITICAL" \/ ~f.recurred, ~AtFloor(f)
  PROVE  Kept(DemoteOneStep(f, pass)) /\ Pinned(DemoteOneStep(f, pass))
  <1>1. CASE Blocking(f) /\ (f.sev = "CRITICAL" \/ f.from)
    BY <1>1, WarnKeeps DEF DemoteOneStep
  <1>2. CASE ~(Blocking(f) /\ (f.sev = "CRITICAL" \/ f.from))
    <2>1. f.sev # "CRITICAL" /\ ~Floored(f.sev, f.from)
      BY <1>2 DEF AtFloor, Floored, Blocking
    <2>2. ~Claimed(f)
      BY <2>1 DEF Pinned
    <2>3. \E sev : DemoteOneStep(f, pass) = Lowered(f, sev, pass)
      BY <1>2 DEF DemoteOneStep
    <2> QED BY <2>1, <2>2, <2>3, JudgmentKeeps
  <1> QED BY <1>1, <1>2

\* A cluster stands for its members.
LEMMA RepresentativeKept ==
  ASSUME NEW c, Gathered(c)
  PROVE  Kept(Representative(c))
  <1> DEFINE r == Representative(c)
  <1>1. DOMAIN r = Names /\ r.members = c.members /\ r.sev = c.sev /\ r.effects = {}
    BY DEF Representative, Gathered, Names
  <1>2. (\E m \in c.members : m.from) => r.from
    BY DEF Representative, Gathered, Names
  <1> HIDE DEF r
  <1>3. ASSUME NEW m \in c.members, m.sev \in {"CRITICAL", "WARN"}
        PROVE  r.sev \in {"CRITICAL", "WARN"} /\ (m.sev = "CRITICAL" => r.sev = "CRITICAL")
    <2>1. Rank(m.sev) <= Rank(c.sev) /\ c.sev \in Reportable
      BY DEF Gathered
    <2> QED BY <1>1, <1>3, <2>1 DEF Rank, Reportable
  <1>4. CriticalKept(r)
    <2>1. SUFFICES ASSUME NEW m \in c.members, m.raw = "CRITICAL", m.effects \cap OutOfIt = {}
                   PROVE  Floored(r.sev, r.from)
      BY <1>1 DEF CriticalKept
    <2>2. m.effects \cap Disproved = {}
      BY <2>1 DEF OutOfIt
    <2>3. Floored(m.sev, m.from)
      BY <2>1, <2>2 DEF Gathered, Stands
    <2> QED BY <1>2, <1>3, <2>3 DEF Floored
  <1>5. FixKept(r)
    BY <1>1, <1>3 DEF FixKept, Blocking
  <1>6. Kept(r)
    BY <1>1, <1>4, <1>5 DEF Kept
  <1> QED BY <1>6 DEF r

LEMMA PinKeeps ==
  ASSUME \A i \in DOMAIN fs : Kept(fs[i]), PinClaimedFixed
  PROVE  \A i \in DOMAIN fs' : Kept(fs'[i]) /\ Pinned(fs'[i])
  <1>1. fs' = [i \in DOMAIN fs |->
        [fs[i] EXCEPT !.recurred = Sigs(fs[i]) \cap memory.claimed # {} /\ Sigs(fs[i]) \cap memory.rejected = {}]]
    BY DEF PinClaimedFixed
  <1>2. SUFFICES ASSUME NEW i \in DOMAIN fs PROVE Kept(fs'[i]) /\ Pinned(fs'[i])
    BY <1>1
  <1> DEFINE f == fs[i]
             b == Sigs(f) \cap memory.claimed # {} /\ Sigs(f) \cap memory.rejected = {}
             g == [f EXCEPT !.recurred = b]
  <1>3. fs'[i] = g /\ Kept(f)
    BY <1>1
  <1> HIDE DEF f, b
  <1>4. /\ DOMAIN g = Names /\ g.members = f.members /\ g.sig = f.sig /\ g.effects = f.effects
        /\ g.sev = f.sev /\ g.from = f.from /\ g.recurred = b
    BY <1>3 DEF Kept, Names
  <1> HIDE DEF g
  <1>5. Sigs(g) = Sigs(f)
    BY <1>4 DEF Sigs
  <1>6. Claimed(g) <=> b
    BY <1>5 DEF Claimed, b
  <1>7. Claimed(g) <=> Claimed(f)
    BY <1>5 DEF Claimed
  <1>8. Blocking(g) <=> Blocking(f)
    BY <1>4 DEF Blocking
  <1>9. Kept(g)
    BY <1>3, <1>4, <1>7, <1>8 DEF Kept, CriticalKept, FixKept
  <1> QED BY <1>3, <1>4, <1>6, <1>9 DEF Pinned

\* Critic, scope and the earlier decisions.
ScopeStep == ScopeDiff \/ ScopeDelta \/ ScopeSession
RecordStep == SuppressFp \/ SuppressRejected \/ SuppressFpCluster \/ SuppressRegion
JudgeStep == Critic \/ Confidence \/ Reputation \/ CapDocs
LateStep == JudgeStep \/ ScopeStep \/ RecordStep \/ TestSecurity

LEMMA JudgesKeep ==
  ASSUME \A i \in DOMAIN fs : Kept(fs[i]) /\ Pinned(fs[i]), JudgeStep
  PROVE  \A i \in DOMAIN fs' : Kept(fs'[i]) /\ Pinned(fs'[i])
  <1>1. CASE Critic
    <2>1. PICK fp \in SUBSET AllSigs : fs' = [i \in DOMAIN fs |->
              Transition("critic", fs[i], Sigs(fs[i]) \cap fp # {}, CriticGround(fs[i]), DemoteOneStep(fs[i], "critic"))]
      BY <1>1 DEF Critic, Pass
    <2>2. SUFFICES ASSUME NEW i \in DOMAIN fs PROVE Kept(fs'[i]) /\ Pinned(fs'[i])
      BY <2>1
    <2>3. fs'[i] = fs[i] \/ (CriticGround(fs[i]) = "none" /\ fs'[i] = DemoteOneStep(fs[i], "critic"))
      BY <2>1 DEF Transition
    <2>4. CriticGround(fs[i]) = "none" => ~fs[i].recurred /\ ~AtFloor(fs[i])
      BY DEF CriticGround
    <2> QED BY <2>3, <2>4, StepDownKeeps
  <1>2. CASE Confidence
    <2>1. PICK unsure \in SUBSET DOMAIN fs : fs' = [i \in DOMAIN fs |->
            Transition("confidence", fs[i],
                       Blocking(fs[i]) /\ ~Corroborated(fs[i]) /\ ~AtFloor(fs[i]) /\ i \in unsure,
                       ConfidenceGround(fs[i]),
                       IF fs[i].sev = "CRITICAL" THEN ToWarn(fs[i], "confidence") ELSE ToInfo(fs[i], "confidence"))]
      BY <1>2 DEF Confidence, Pass
    <2>2. SUFFICES ASSUME NEW i \in DOMAIN fs PROVE Kept(fs'[i]) /\ Pinned(fs'[i])
      BY <2>1
    <2>3. \/ fs'[i] = fs[i] \/ fs'[i] = ToWarn(fs[i], "confidence")
          \/ ConfidenceGround(fs[i]) = "none" /\ ~AtFloor(fs[i]) /\ fs[i].sev # "CRITICAL"
             /\ fs'[i] = ToInfo(fs[i], "confidence")
      BY <2>1 DEF Transition
    <2>4. ConfidenceGround(fs[i]) = "none" => ~Claimed(fs[i])
      BY DEF ConfidenceGround, PinnedByName, Pinned
    <2>5. ~AtFloor(fs[i]) /\ fs[i].sev # "CRITICAL" => ~Floored(fs[i].sev, fs[i].from)
      BY DEF AtFloor, Floored
    <2> QED BY <2>3, <2>4, <2>5, WarnKeeps, JudgmentKeeps DEF ToInfo
  <1>3. CASE Reputation
    <2>1. PICK bad \in SUBSET UNION {fs[i].confirmed : i \in DOMAIN fs} : fs' = [i \in DOMAIN fs |->
            Transition("reputation", fs[i], Blocking(fs[i]) /\ ~Corroborated(fs[i]) /\ fs[i].confirmed \subseteq bad,
                       ReputationGround(fs[i]), DemoteOneStep(fs[i], "reputation"))]
      BY <1>3 DEF Reputation, Pass
    <2>2. SUFFICES ASSUME NEW i \in DOMAIN fs PROVE Kept(fs'[i]) /\ Pinned(fs'[i])
      BY <2>1
    <2>3. fs'[i] = fs[i] \/ (ReputationGround(fs[i]) = "none" /\ fs'[i] = DemoteOneStep(fs[i], "reputation"))
      BY <2>1 DEF Transition
    <2>4. ReputationGround(fs[i]) = "none" => ~fs[i].recurred /\ ~AtFloor(fs[i])
      BY DEF ReputationGround, PinnedByName
    <2> QED BY <2>3, <2>4, StepDownKeeps
  <1>4. CASE CapDocs
    <2>1. fs' = [i \in DOMAIN fs |->
            Transition("docs-cap", fs[i],
                       setting.capDocs /\ fs[i].sev = "CRITICAL" /\ setting.class[fs[i].file] = "docs",
                       IF TouchesHighStakes(fs[i]) THEN "security-correctness-floor" ELSE "none",
                       DemoteOneStep(fs[i], "docs-cap"))]
      BY <1>4 DEF CapDocs, Pass
    <2>2. SUFFICES ASSUME NEW i \in DOMAIN fs PROVE Kept(fs'[i]) /\ Pinned(fs'[i])
      BY <2>1
    <2>3. fs'[i] = fs[i] \/ (fs[i].sev = "CRITICAL" /\ fs'[i] = DemoteOneStep(fs[i], "docs-cap"))
      BY <2>1 DEF Transition
    <2>4. fs[i].sev = "CRITICAL" => ~AtFloor(fs[i])
      BY DEF AtFloor
    <2> QED BY <2>3, <2>4, StepDownKeeps
  <1> QED BY <1>1, <1>2, <1>3, <1>4 DEF JudgeStep

LEMMA ScopesKeep ==
  ASSUME \A i \in DOMAIN fs : Kept(fs[i]) /\ Pinned(fs[i]), ScopeStep \/ TestSecurity
  PROVE  \A i \in DOMAIN fs' : Kept(fs'[i]) /\ Pinned(fs'[i])
  <1>1. \E pass \in Scoping : \A i \in DOMAIN fs : i \in DOMAIN fs' /\ fs'[i] \in {fs[i], ToInfo(fs[i], pass)}
    <2>1. CASE ScopeDiff
      BY <2>1 DEF ScopeDiff, Pass, Transition, Scoping
    <2>2. CASE ScopeDelta
      BY <2>2 DEF ScopeDelta, Pass, Transition, Scoping
    <2>3. CASE ScopeSession
      BY <2>3 DEF ScopeSession, Pass, Transition, Scoping
    <2>4. CASE TestSecurity
      BY <2>4 DEF TestSecurity, Pass, Transition, Scoping
    <2> QED BY <2>1, <2>2, <2>3, <2>4 DEF ScopeStep
  <1>2. DOMAIN fs' = DOMAIN fs
    BY DEF ScopeStep, ScopeDiff, ScopeDelta, ScopeSession, TestSecurity, Pass
  <1> QED BY <1>1, <1>2, InfoKeeps

LEMMA RecordsKeep ==
  ASSUME \A i \in DOMAIN fs : Kept(fs[i]) /\ Pinned(fs[i]), RecordStep
  PROVE  \A i \in DOMAIN fs' : Kept(fs'[i]) /\ Pinned(fs'[i])
  <1>1. CASE SuppressFp
    <2>1. PICK active \in SUBSET AllSigs : fs' = [i \in DOMAIN fs |->
              Transition("fp-signature", fs[i], Blocking(fs[i]) /\ Sigs(fs[i]) \cap active # {}, "none",
                         [ToInfo(fs[i], "fp-signature") EXCEPT !.hit = Sigs(fs[i]) \cap active])]
      BY <1>1 DEF SuppressFp, Pass
    <2>2. SUFFICES ASSUME NEW i \in DOMAIN fs PROVE Kept(fs'[i]) /\ Pinned(fs'[i])
      BY <2>1
    <2> DEFINE g == ToInfo(fs[i], "fp-signature")
               h == [g EXCEPT !.hit = Sigs(fs[i]) \cap active]
    <2>3. fs'[i] = fs[i] \/ fs'[i] = h
      BY <2>1 DEF Transition
    <2>4. Kept(g) /\ Pinned(g)
      BY InfoKeeps DEF Scoping, Recorded, Known
    <2> HIDE DEF g
    <2>5. /\ DOMAIN h = Names /\ h.members = g.members /\ h.sig = g.sig /\ h.recurred = g.recurred
          /\ h.effects = g.effects /\ h.sev = g.sev /\ h.from = g.from
      BY <2>4 DEF Kept, Names
    <2> HIDE DEF h
    <2>6. (Blocking(g) => Blocking(h)) /\ (Floored(g.sev, g.from) => Floored(h.sev, h.from)) /\ g.effects \subseteq h.effects
      BY <2>5 DEF Blocking
    <2>7. Kept(h) /\ Pinned(h)
      BY <2>4, <2>5, <2>6, LoweredKeeps
    <2> QED BY <2>3, <2>7
  <1>2. CASE SuppressRejected
    <2>1. fs' = [i \in DOMAIN fs |->
            Transition("cycle-rejected", fs[i], Blocking(fs[i]) /\ Sigs(fs[i]) \cap memory.rejected # {},
                       CycleGround(fs[i]), ToInfo(fs[i], "cycle-rejected"))]
      BY <1>2 DEF SuppressRejected, Pass
    <2>2. SUFFICES ASSUME NEW i \in DOMAIN fs PROVE Kept(fs'[i]) /\ Pinned(fs'[i])
      BY <2>1
    <2>3. fs'[i] = fs[i] \/ (Sigs(fs[i]) \cap memory.rejected # {} /\ fs'[i] = ToInfo(fs[i], "cycle-rejected"))
      BY <2>1 DEF Transition
    <2>4. Sigs(fs[i]) \cap memory.rejected # {} => ~Claimed(fs[i])
      BY DEF Claimed
    <2>5. "cycle-rejected" \in Scoping \cup Recorded
      BY DEF Recorded
    <2> QED BY <2>3, <2>4, <2>5, InfoKeeps
  <1>3. CASE SuppressFpCluster
    <2>1. PICK known \in SUBSET DOMAIN fs : fs' = [i \in DOMAIN fs |->
              Transition("fp-cluster", fs[i], Blocking(fs[i]) /\ i \in known, "none", ToInfo(fs[i], "fp-cluster"))]
      BY <1>3 DEF SuppressFpCluster, Pass
    <2>2. SUFFICES ASSUME NEW i \in DOMAIN fs PROVE Kept(fs'[i]) /\ Pinned(fs'[i])
      BY <2>1
    <2>3. fs'[i] = fs[i] \/ fs'[i] = ToInfo(fs[i], "fp-cluster")
      BY <2>1 DEF Transition
    <2> QED BY <2>3, InfoKeeps DEF Recorded, Known
  <1>4. CASE SuppressRegion
    <2>1. PICK r \in Regions \cup {None} : fs' = [i \in DOMAIN fs |->
            Transition("region-rejected", fs[i], r # None /\ Blocking(fs[i]) /\ Near(r, fs[i]),
                       RegionGround(r, fs[i]), ToInfo(fs[i], "region-rejected"))]
      BY <1>4 DEF SuppressRegion, Pass
    <2>2. SUFFICES ASSUME NEW i \in DOMAIN fs PROVE Kept(fs'[i]) /\ Pinned(fs'[i])
      BY <2>1
    <2>3. fs'[i] = fs[i] \/ (RegionGround(r, fs[i]) = "none" /\ fs'[i] = ToInfo(fs[i], "region-rejected"))
      BY <2>1 DEF Transition
    <2>6. RegionGround(r, fs[i]) = "none" => ~fs[i].recurred /\ fs[i].sev # "CRITICAL" /\ ~fs[i].from
      BY DEF RegionGround
    <2>4. ~fs[i].recurred => ~Claimed(fs[i])
      BY DEF Pinned
    <2>5. fs[i].sev # "CRITICAL" /\ ~fs[i].from => ~Floored(fs[i].sev, fs[i].from)
      BY DEF Floored
    <2> QED BY <2>3, <2>4, <2>5, <2>6, JudgmentKeeps DEF ToInfo
  <1> QED BY <1>1, <1>2, <1>3, <1>4 DEF RecordStep

LEMMA LateKeeps ==
  ASSUME VerdictInv, LateStep
  PROVE  VerdictInv'
  <1>1. stage \in LateStages \ {"pin"} /\ stage' \in LateStages \ {"pin", "done"}
    BY DEF LateStep, JudgeStep, ScopeStep, RecordStep, Critic, ScopeDiff, ScopeDelta, ScopeSession, SuppressFp,
           SuppressRejected, SuppressFpCluster, Confidence, Reputation, SuppressRegion, TestSecurity, CapDocs, Pass,
           LateStages, EarlyStages, Stages
  <1>2. \A i \in DOMAIN fs : Kept(fs[i]) /\ Pinned(fs[i])
    BY <1>1 DEF VerdictInv
  <1>3. \A i \in DOMAIN fs' : Kept(fs'[i]) /\ Pinned(fs'[i])
    BY <1>2, JudgesKeep, ScopesKeep, RecordsKeep DEF LateStep
  <1>4. memory' = memory
    BY DEF LateStep, JudgeStep, ScopeStep, RecordStep, Critic, ScopeDiff, ScopeDelta, ScopeSession, SuppressFp,
           SuppressRejected, SuppressFpCluster, Confidence, Reputation, SuppressRegion, TestSecurity, CapDocs, Pass
  <1>5. \A i \in DOMAIN fs' : Kept(fs[i])' /\ Pinned(fs[i])'
    BY <1>3, <1>4 DEF Kept, Pinned, CriticalKept, FixKept, Claimed
  <1>6. stage' \in Stages /\ stage' \notin EarlyStages /\ stage' # "done"
    BY <1>1 DEF LateStages
  <1> QED BY <1>5, <1>6 DEF VerdictInv

LEMMA VerdictStarts ==
  ASSUME VerdictInit
  PROVE  VerdictInv
  <1>1. stage = "facts" /\ fs \in Inputs
    BY DEF VerdictInit
  <1>2. fs \in Seq(Image(fs))
    BY <1>1, InputsAssumption DEF Image
  <1>3. ASSUME NEW i \in DOMAIN fs PROVE Alone(fs[i])
    <2> DEFINE f == fs[i]
    <2>1. /\ f = Finding(f.sig, f.by, f.file, f.line, f.topic, f.sev, f.cat) /\ f.sev \in Reportable
          /\ f.file \in Nat /\ f.line \in Nat /\ f.topic \in Nat
      BY <1>1, InputsAssumption DEF Reportable
    <2> HIDE DEF f
    <2>2. DOMAIN f = Names /\ f.members = {} /\ f.raw = f.sev /\ ~f.refuted
      BY <2>1 DEF Finding, Names
    <2>3. Alone(f)
      BY <2>1, <2>2 DEF Alone, Floored
    <2> QED BY <2>3 DEF f
  <1> QED BY <1>1, <1>2, <1>3 DEF VerdictInv, Stages, LateStages, EarlyStages

LEMMA VerdictSteps ==
  ASSUME VerdictInv, [VerdictNext]_findingVars
  PROVE  VerdictInv'
  <1>1. CASE EarlyStep
    <2>1. stage \in EarlyStages
      BY <1>1 DEF EarlyStep, FactCheck, SelfRefute, Hypothetical, GroundTokens, JudgeGrounding, DemoteRedaction, Pass, EarlyStages
    <2>2. fs \in Seq(Image(fs)) /\ \A i \in DOMAIN fs : Alone(fs[i])
      BY <2>1 DEF VerdictInv
    <2>3. /\ stage' \in EarlyStages /\ DOMAIN fs' = DOMAIN fs
          /\ fs' = [i \in DOMAIN fs |-> fs'[i]] /\ \A i \in DOMAIN fs' : Alone(fs'[i])
      BY <1>1, <2>2, EarlyAlone
    <2>4. fs' \in Seq(Image(fs'))
      <3>1. Len(fs) \in Nat /\ DOMAIN fs = 1 .. Len(fs)
        BY <2>2
      <3>2. PICK new : new = fs'
        OBVIOUS
      <3>3. new = [i \in 1 .. Len(fs) |-> new[i]] /\ \A i \in 1 .. Len(fs) : new[i] \in Image(new)
        BY <2>3, <3>1, <3>2 DEF Image
      <3>4. new \in Seq(Image(new))
        BY <3>1, <3>3, IsASeq
      <3> QED BY <3>2, <3>4
    <2>5. \A i \in DOMAIN fs' : Alone(fs[i])'
      BY <2>3 DEF Alone
    <2>6. stage' \in Stages /\ stage' \notin LateStages /\ stage' # "done"
      BY <2>3 DEF EarlyStages, LateStages, Stages
    <2>7. (fs \in Seq(Image(fs)))'
      BY <2>4 DEF Image
    <2> QED BY <2>5, <2>6, <2>7 DEF VerdictInv
  <1>2. CASE Cluster
    <2>1. stage = "cluster" /\ stage' = "pin"
      BY <1>2 DEF Cluster
    <2>2. fs \in Seq(Image(fs)) /\ \A i \in DOMAIN fs : Alone(fs[i])
      BY <2>1 DEF VerdictInv, EarlyStages
    <2>3. \A k \in DOMAIN fs' : Kept(fs'[k])
      BY <1>2, <2>2, ClusterKeeps, RepresentativeKept
    <2>4. memory' = memory
      BY <1>2 DEF Cluster
    <2>5. \A k \in DOMAIN fs' : Kept(fs[k])'
      BY <2>3, <2>4 DEF Kept, CriticalKept, FixKept, Claimed
    <2> QED BY <2>1, <2>5 DEF VerdictInv, Stages, LateStages, EarlyStages
  <1>3. CASE PinClaimedFixed
    <2>1. stage = "pin" /\ stage' = "critic" /\ memory' = memory
      BY <1>3 DEF PinClaimedFixed
    <2>2. \A i \in DOMAIN fs : Kept(fs[i])
      BY <2>1 DEF VerdictInv, LateStages, EarlyStages, Stages
    <2>3. \A i \in DOMAIN fs' : Kept(fs'[i]) /\ Pinned(fs'[i])
      BY <1>3, <2>2, PinKeeps
    <2>4. \A i \in DOMAIN fs' : Kept(fs[i])' /\ Pinned(fs[i])'
      BY <2>1, <2>3 DEF Kept, Pinned, CriticalKept, FixKept, Claimed
    <2> QED BY <2>1, <2>4 DEF VerdictInv, Stages, LateStages, EarlyStages
  <1>4. CASE LateStep
    BY <1>4, LateKeeps
  <1>5. CASE Compute
    <2>1. stage = "verdict" /\ stage' = "done" /\ fs' = fs /\ memory' = memory /\ setting' = setting
      BY <1>5 DEF Compute
    <2>2. /\ (\E i \in DOMAIN fs : FailsAlone(fs[i])) => verdict' = "FAIL"
          /\ (\E i \in DOMAIN fs : Blocking(fs[i])) => verdict' # "PASS"
      BY <1>5 DEF Compute
    <2>3. \A i \in DOMAIN fs : Kept(fs[i]) /\ Pinned(fs[i])
      BY <2>1 DEF VerdictInv, LateStages, EarlyStages, Stages
    <2>4. \A i \in DOMAIN fs' : Kept(fs[i])' /\ Pinned(fs[i])'
      BY <2>1, <2>3 DEF Kept, Pinned, CriticalKept, FixKept, Claimed
    <2>5. Judged'
      BY <2>1, <2>2 DEF Judged, FailsAlone, HardCritical, CorroboratedWarn
    <2> QED BY <2>1, <2>4, <2>5 DEF VerdictInv, Stages, LateStages, EarlyStages
  <1>6. CASE UNCHANGED findingVars
    BY <1>6 DEF findingVars, VerdictInv, Kept, Pinned, CriticalKept, FixKept, Claimed, Judged, FailsAlone, HardCritical,
                CorroboratedWarn, Alone, Image
  <1> QED BY <1>1, <1>2, <1>3, <1>4, <1>5, <1>6 DEF VerdictNext, EarlyStep, LateStep, JudgeStep, ScopeStep, RecordStep

LEMMA VerdictHolds == VerdictSpec => []VerdictInv
  BY VerdictStarts, VerdictSteps, PTL DEF VerdictSpec

\* For any reviewers, findings and configuration: a finding reported as CRITICAL, and not
\* disproved, out of scope or decided before, still blocks at the end (the G0 floor).
THEOREM CriticalIsKept == VerdictSpec => []CriticalStaysOpen
  <1>1. VerdictInv => CriticalStaysOpen
    <2>1. SUFFICES ASSUME VerdictInv, stage = "done", NEW i \in DOMAIN fs, NEW m \in fs[i].members, m.raw = "CRITICAL",
                          (m.effects \cup fs[i].effects) \cap (Disproved \cup Scoping \cup Recorded) = {}
                   PROVE  Blocking(fs[i]) /\ verdict # "PASS"
      BY DEF CriticalStaysOpen
    <2>2. Kept(fs[i]) /\ Judged
      BY <2>1 DEF VerdictInv, LateStages, EarlyStages, Stages
    <2>3. Floored(fs[i].sev, fs[i].from)
      BY <2>1, <2>2 DEF Kept, CriticalKept, OutOfIt
    <2>4. Blocking(fs[i])
      BY <2>3 DEF Floored, Blocking
    <2> QED BY <2>2, <2>4 DEF Judged
  <1> QED BY <1>1, VerdictHolds, PTL

\* For any reviewers, findings and claims: a fix that was claimed and did not help fails
\* the review, whoever alone still sees the problem.
THEOREM FixesAreChecked == VerdictSpec => []ClaimedFixIsChecked
  <1>1. VerdictInv => ClaimedFixIsChecked
    <2>1. SUFFICES ASSUME VerdictInv, stage = "done", NEW i \in DOMAIN fs,
                          Sigs(fs[i]) \cap memory.claimed # {}, Sigs(fs[i]) \cap memory.rejected = {},
                          \E m \in fs[i].members : m.sev \in {"CRITICAL", "WARN"},
                          fs[i].effects \cap (Scoping \cup {"fp-signature", "fp-cluster"}) = {}
                   PROVE  verdict = "FAIL"
      BY DEF ClaimedFixIsChecked
    <2>2. Kept(fs[i]) /\ Pinned(fs[i]) /\ Judged
      BY <2>1 DEF VerdictInv, LateStages, EarlyStages, Stages
    <2>3. Claimed(fs[i])
      BY <2>1 DEF Claimed
    <2>4. Blocking(fs[i]) /\ fs[i].recurred
      BY <2>1, <2>2, <2>3 DEF Kept, FixKept, Pinned, Known
    <2>5. FailsAlone(fs[i])
      BY <2>4 DEF FailsAlone, Blocking
    <2> QED BY <2>2, <2>5 DEF Judged
  <1> QED BY <1>1, VerdictHolds, PTL

(***************************************************************************)
(* The order in which the reviewers' findings come.  Two findings that     *)
(* come at the same place in the order may change places; what follows is  *)
(* the same, but for two clusters of a wording with no word that counts,   *)
(* which may have changed places, too, and no finding joins them both.     *)
(***************************************************************************)

\* In an order of findings, before their number counts.
Ahead(f, g) ==
    \/ f.file < g.file
    \/ /\ f.file = g.file
       /\ \/ f.line < g.line
          \/ f.line = g.line /\ Rank(f.sev) > Rank(g.sev)
          \/ f.line = g.line /\ Rank(f.sev) = Rank(g.sev) /\ f.topic < g.topic

Tied(f, g) == f.file = g.file /\ f.line = g.line /\ f.sev = g.sev /\ f.topic = g.topic

LEMMA ReportableRank ==
  ASSUME NEW s \in Reportable, NEW t \in Reportable, Rank(s) = Rank(t)
  PROVE  s = t
  BY DEF Reportable, Rank

LEMMA AheadOrders ==
  ASSUME NEW f, Alone(f), NEW g, Alone(g), NEW h, Alone(h)
  PROVE  /\ ~Ahead(f, f)
         /\ ~(Ahead(f, g) /\ Ahead(g, f))
         /\ Ahead(f, g) /\ Ahead(g, h) => Ahead(f, h)
         /\ ~Ahead(f, g) /\ ~Ahead(g, h) => ~Ahead(f, h)
         /\ ~Ahead(f, g) /\ ~Ahead(g, f) <=> Tied(f, g)
  <1>1. \A x \in {f, g, h} : x.file \in Nat /\ x.line \in Nat /\ x.topic \in Nat /\ x.sev \in Reportable
    BY DEF Alone
  <1>2. \A x \in {f, g, h} : Rank(x.sev) \in 0 .. 3
    BY RankNat
  <1>3. Rank(f.sev) = Rank(g.sev) <=> f.sev = g.sev
    BY <1>1, ReportableRank
  <1> QED BY <1>1, <1>2, <1>3 DEF Ahead, Tied

\* What `Before` says, in so many words.
LEMMA BeforeIs ==
  ASSUME NEW in, NEW i, NEW j, Alone(in[i]), Alone(in[j])
  PROVE  Before(in, i, j) <=> Ahead(in[i], in[j]) \/ (Tied(in[i], in[j]) /\ i < j)
  <1> DEFINE a == <<in[i].file, in[i].line, 3 - Rank(in[i].sev), in[i].topic>>
             b == <<in[j].file, in[j].line, 3 - Rank(in[j].sev), in[j].topic>>
             d == {k \in 1 .. 4 : a[k] # b[k]}
             n == Min(d)
  <1>1. Before(in, i, j) <=> IF d = {} THEN i < j ELSE a[n] < b[n]
    BY DEF Before
  <1>2. /\ a[1] = in[i].file /\ a[2] = in[i].line /\ a[3] = 3 - Rank(in[i].sev) /\ a[4] = in[i].topic
        /\ b[1] = in[j].file /\ b[2] = in[j].line /\ b[3] = 3 - Rank(in[j].sev) /\ b[4] = in[j].topic
    OBVIOUS
  <1>3. Rank(in[i].sev) \in 0 .. 3 /\ Rank(in[j].sev) \in 0 .. 3
    BY RankNat
  <1>4. Rank(in[i].sev) = Rank(in[j].sev) <=> in[i].sev = in[j].sev
    BY ReportableRank DEF Alone
  <1>5. /\ in[i].file \in Nat /\ in[i].line \in Nat /\ in[i].topic \in Nat
        /\ in[j].file \in Nat /\ in[j].line \in Nat /\ in[j].topic \in Nat
    BY DEF Alone
  <1>6. d # {} => n \in d /\ \A k \in d : n <= k
    <2>1. \A k \in d : k \in Nat
      OBVIOUS
    <2> HIDE DEF d
    <2> QED BY <2>1, LeastExists
  <1>7. \A k \in 1 .. 4 : k \in d <=> a[k] # b[k]
    OBVIOUS
  <1>8. d \subseteq 1 .. 4
    OBVIOUS
  <1> HIDE DEF a, b, d, n
  <1>9. d = {} <=> Tied(in[i], in[j])
    BY <1>2, <1>3, <1>4, <1>7, <1>8 DEF Tied
  <1>10. ASSUME d # {} PROVE a[n] < b[n] <=> Ahead(in[i], in[j])
    <2>1. n \in 1 .. 4 /\ a[n] # b[n] /\ \A k \in 1 .. 4 : k < n => a[k] = b[k]
      <3>1. n \in d /\ n \in 1 .. 4 /\ \A k \in d : n <= k
        BY <1>6, <1>8, <1>10
      <3>2. \A k \in 1 .. 4 : k < n => k \notin d
        BY <3>1
      <3> QED BY <1>7, <3>1, <3>2
    <2>2. CASE n = 1
      BY <1>2, <1>5, <2>1, <2>2 DEF Ahead
    <2>3. CASE n = 2
      BY <1>2, <1>5, <2>1, <2>3 DEF Ahead
    <2>4. CASE n = 3
      BY <1>2, <1>3, <1>5, <2>1, <2>4 DEF Ahead
    <2>5. CASE n = 4
      BY <1>2, <1>3, <1>5, <2>1, <2>5 DEF Ahead
    <2> QED BY <2>1, <2>2, <2>3, <2>4, <2>5
  <1>11. d = {} => ~Ahead(in[i], in[j])
    BY <1>9, <1>3, <1>5 DEF Tied, Ahead
  <1> QED BY <1>1, <1>9, <1>10, <1>11

(***************************************************************************)
(* One cluster.                                                            *)
(***************************************************************************)

Same(c, d) == c.anchor = d.anchor /\ c.members = d.members /\ c.sev = d.sev

\* Of two kinds, and of wordings that are like none: no finding joins both.
Mute(topic) == \A t : <<topic, t>> \notin Similar
Rivals(c, d) ==
    /\ Mute(c.anchor.topic) /\ Mute(d.anchor.topic)
    /\ \A m \in c.members, n \in d.members : HighStakes(m.cat) # HighStakes(n.cat)

Laid(cs) == AllGathered(cs) /\ \A k \in DOMAIN cs : cs[k].members # {}

PlaceOf(f) == [file |-> f.file, line |-> f.line, topic |-> f.topic]

LEMMA SeedFields ==
  ASSUME NEW f, Alone(f)
  PROVE  Seed(f).anchor = PlaceOf(f) /\ Seed(f).members = {MemberOf(f)} /\ Seed(f).sev = f.sev
  BY DEF Seed, PlaceOf, Alone, Names

LEMMA MergeFields ==
  ASSUME NEW f, Alone(f), NEW c, Gathered(c)
  PROVE  /\ Merge(c, f).anchor = c.anchor
         /\ Merge(c, f).members = c.members \cup {MemberOf(f)}
         /\ Merge(c, f).sev = IF Rank(f.sev) > Rank(c.sev) THEN f.sev ELSE c.sev
  <1> DEFINE m == MemberOf(f)
             g == [f EXCEPT !.anchor = c.anchor]
             b == IF Rank(f.sev) > Rank(c.sev) THEN g ELSE c
             r == [b EXCEPT !.confirmed = c.confirmed \cup {f.by}, !.members = c.members \cup {m}]
  <1>1. Merge(c, f) = r
    BY DEF Merge
  <1>2. DOMAIN g = Names /\ g.sev = f.sev /\ g.anchor = c.anchor
    BY DEF Alone, Names
  <1>3. DOMAIN c = Names
    BY DEF Gathered
  <1>4. DOMAIN b = Names /\ b.anchor = c.anchor /\ b.sev = IF Rank(f.sev) > Rank(c.sev) THEN f.sev ELSE c.sev
    <2>1. CASE Rank(f.sev) > Rank(c.sev)
      <3>1. b = g
        BY <2>1
      <3> HIDE DEF b, g
      <3> QED BY <1>2, <2>1, <3>1
    <2>2. CASE ~(Rank(f.sev) > Rank(c.sev))
      <3>1. b = c
        BY <2>2
      <3> HIDE DEF b
      <3> QED BY <1>3, <2>2, <3>1
    <2> QED BY <2>1, <2>2
  <1>5. r.anchor = b.anchor /\ r.sev = b.sev /\ r.members = c.members \cup {m}
    <2> HIDE DEF b, m
    <2> QED BY <1>4 DEF Names
  <1> HIDE DEF r, b
  <1> QED BY <1>1, <1>4, <1>5 DEF m

LEMMA SameJoins ==
  ASSUME NEW c, NEW d, Same(c, d), NEW f
  PROVE  Joins(c, f) <=> Joins(d, f)
  BY DEF Same, Joins, WordedAlike, Near

LEMMA SameMerge ==
  ASSUME NEW c, Gathered(c), NEW d, Gathered(d), Same(c, d), NEW f, Alone(f)
  PROVE  Same(Merge(c, f), Merge(d, f))
  BY MergeFields DEF Same

LEMMA MergeNarrows ==
  ASSUME NEW c, Gathered(c), NEW f, Alone(f), NEW g, Joins(Merge(c, f), g)
  PROVE  Joins(c, g)
  <1> DEFINE e == Merge(c, f)
  <1>1. e.anchor = c.anchor /\ c.members \subseteq e.members
    BY MergeFields
  <1>2. Joins(e, g)
    OBVIOUS
  <1> HIDE DEF e
  <1>3. CASE WordedAlike(e.anchor, g)
    BY <1>1, <1>3 DEF Joins
  <1>4. CASE Near(e.anchor, g) /\ \A m \in e.members : HighStakes(m.cat) = HighStakes(g.cat)
    BY <1>1, <1>4 DEF Joins
  <1> QED BY <1>2, <1>3, <1>4 DEF Joins

LEMMA NoneJoinsRivals ==
  ASSUME NEW c, c.members # {}, NEW d, d.members # {}, Rivals(c, d), NEW f, Joins(c, f)
  PROVE  ~Joins(d, f)
  <1>1. ~WordedAlike(c.anchor, f) /\ ~WordedAlike(d.anchor, f)
    BY DEF Rivals, Mute, WordedAlike
  <1>2. \A m \in c.members : HighStakes(m.cat) = HighStakes(f.cat)
    BY <1>1 DEF Joins
  <1>3. ASSUME Joins(d, f) PROVE FALSE
    <2>1. \A m \in d.members : HighStakes(m.cat) = HighStakes(f.cat)
      BY <1>1, <1>3 DEF Joins
    <2>2. PICK m \in c.members, n \in d.members : TRUE
      OBVIOUS
    <2>3. HighStakes(m.cat) # HighStakes(n.cat)
      BY <2>2 DEF Rivals
    <2> QED BY <1>2, <2>1, <2>2, <2>3
  <1> QED BY <1>3

LEMMA RivalsStay ==
  ASSUME NEW c, Gathered(c), c.members # {}, NEW d, Rivals(c, d), NEW f, Alone(f), Joins(c, f)
  PROVE  Rivals(Merge(c, f), d) /\ Rivals(d, Merge(c, f))
  <1> DEFINE e == Merge(c, f)
  <1>1. e.anchor = c.anchor /\ e.members = c.members \cup {MemberOf(f)}
    BY MergeFields
  <1>2. ~WordedAlike(c.anchor, f)
    BY DEF Rivals, Mute, WordedAlike
  <1>3. \A m \in c.members : HighStakes(m.cat) = HighStakes(f.cat)
    BY <1>2 DEF Joins
  <1>4. MemberOf(f).cat = f.cat
    BY DEF MemberOf
  <1>5. PICK m \in c.members : TRUE
    OBVIOUS
  <1> HIDE DEF e
  <1>6. \A x \in e.members, n \in d.members : HighStakes(x.cat) # HighStakes(n.cat)
    <2>1. SUFFICES ASSUME NEW x \in e.members, NEW n \in d.members PROVE HighStakes(x.cat) # HighStakes(n.cat)
      OBVIOUS
    <2>2. HighStakes(m.cat) # HighStakes(n.cat)
      BY <1>5 DEF Rivals
    <2>3. CASE x \in c.members
      BY <2>3 DEF Rivals
    <2>4. CASE x = MemberOf(f)
      <3>1. HighStakes(x.cat) = HighStakes(m.cat)
        BY <1>3, <1>4, <1>5, <2>4
      <3> QED BY <2>2, <3>1
    <2> QED BY <1>1, <2>3, <2>4
  <1>7. Rivals(e, d) /\ Rivals(d, e)
    BY <1>1, <1>6 DEF Rivals
  <1> QED BY <1>7 DEF e

(***************************************************************************)
(* One finding joins the clusters.                                         *)
(***************************************************************************)

\* The one that a finding joins.
First(cs, f, n) == n \in DOMAIN cs /\ Joins(cs[n], f) /\ \A k \in DOMAIN cs : k < n => ~Joins(cs[k], f)

LEMMA LaidDomain ==
  ASSUME NEW cs, Laid(cs)
  PROVE  Len(cs) \in Nat /\ DOMAIN cs = 1 .. Len(cs)
  BY DEF Laid, AllGathered

LEMMA FirstOrNone ==
  ASSUME NEW cs, Laid(cs), NEW f, \E k \in DOMAIN cs : Joins(cs[k], f)
  PROVE  \E n : First(cs, f, n)
  <1> DEFINE near == {k \in DOMAIN cs : Joins(cs[k], f)}
  <1>1. DOMAIN cs = 1 .. Len(cs) /\ Len(cs) \in Nat
    BY LaidDomain
  <1>2. near # {} /\ \A k \in near : k \in Nat
    BY <1>1
  <1>3. \A k \in DOMAIN cs : k \in near <=> Joins(cs[k], f)
    OBVIOUS
  <1>4. near \subseteq DOMAIN cs
    OBVIOUS
  <1> HIDE DEF near
  <1>5. Min(near) \in near /\ \A k \in near : Min(near) <= k
    BY <1>2, LeastExists
  <1>6. PICK n : n = Min(near)
    OBVIOUS
  <1>7. n \in DOMAIN cs /\ Joins(cs[n], f)
    BY <1>3, <1>4, <1>5, <1>6
  <1>8. ASSUME NEW k \in DOMAIN cs, k < n PROVE ~Joins(cs[k], f)
    <2>1. k \in Nat /\ n \in Nat /\ ~(n <= k)
      BY <1>1, <1>7, <1>8
    <2> QED BY <1>3, <1>5, <1>6, <2>1
  <1>9. First(cs, f, n)
    BY <1>7, <1>8 DEF First
  <1> QED BY <1>9

LEMMA JoinFirst ==
  ASSUME NEW cs, Laid(cs), NEW f, NEW n, First(cs, f, n)
  PROVE  /\ DOMAIN Join(cs, f) = DOMAIN cs
         /\ Join(cs, f)[n] = Merge(cs[n], f)
         /\ \A k \in DOMAIN cs : k # n => Join(cs, f)[k] = cs[k]
  <1> DEFINE near == {k \in DOMAIN cs : Joins(cs[k], f)}
             least == Min(near)
  <1>1. DOMAIN cs = 1 .. Len(cs) /\ Len(cs) \in Nat /\ n \in DOMAIN cs /\ Joins(cs[n], f)
    BY LaidDomain DEF First
  <1>2. near # {} /\ n \in near /\ \A k \in near : k \in Nat
    BY <1>1
  <1>3. \A k \in near : k \in DOMAIN cs /\ Joins(cs[k], f)
    OBVIOUS
  <1>4. Join(cs, f) = [cs EXCEPT ![least] = Merge(cs[least], f)]
    BY <1>2 DEF Join
  <1>5. least \in near /\ \A k \in near : least <= k
    <2> HIDE DEF near
    <2> QED BY <1>2, LeastExists
  <1> HIDE DEF near, least
  <1>6. least = n
    <2>1. least \in Nat /\ n \in Nat /\ least <= n /\ least \in DOMAIN cs /\ Joins(cs[least], f)
      BY <1>2, <1>3, <1>5
    <2>2. ~(least < n)
      BY <2>1 DEF First
    <2> QED BY <2>1, <2>2
  <1>7. PICK e : e = Merge(cs[n], f)
    OBVIOUS
  <1>8. Join(cs, f) = [cs EXCEPT ![n] = e]
    BY <1>4, <1>6, <1>7
  <1> QED BY <1>1, <1>7, <1>8

LEMMA JoinNone ==
  ASSUME NEW cs, Laid(cs), NEW f, \A k \in DOMAIN cs : ~Joins(cs[k], f)
  PROVE  /\ DOMAIN Join(cs, f) = 1 .. Len(cs) + 1
         /\ Len(Join(cs, f)) = Len(cs) + 1
         /\ Join(cs, f)[Len(cs) + 1] = Seed(f)
         /\ \A k \in DOMAIN cs : Join(cs, f)[k] = cs[k]
  <1>1. Join(cs, f) = Append(cs, Seed(f))
    BY DEF Join
  <1>2. cs \in Seq(Image(cs)) /\ Len(cs) \in Nat /\ DOMAIN cs = 1 .. Len(cs)
    BY LaidDomain DEF Laid, AllGathered
  <1>3. PICK x : x = Seed(f)
    OBVIOUS
  <1>4. cs \in Seq(Image(cs) \cup {x})
    BY <1>2
  <1>5. PICK new : new = Append(cs, x)
    OBVIOUS
  <1>6. /\ new \in Seq(Image(cs) \cup {x}) /\ Len(new) = Len(cs) + 1 /\ new[Len(cs) + 1] = x
        /\ \A k \in 1 .. Len(cs) : new[k] = cs[k]
    BY <1>2, <1>4, <1>5
  <1>7. DOMAIN new = 1 .. Len(cs) + 1
    BY <1>2, <1>6
  <1> QED BY <1>1, <1>2, <1>3, <1>5, <1>6, <1>7

LEMMA JoinLaid ==
  ASSUME NEW cs, Laid(cs), NEW f, Alone(f)
  PROVE  Laid(Join(cs, f))
  <1>1. AllGathered(Join(cs, f))
    BY JoinGathers DEF Laid
  <1>2. DOMAIN cs = 1 .. Len(cs) /\ Len(cs) \in Nat /\ \A k \in DOMAIN cs : cs[k].members # {} /\ Gathered(cs[k])
    BY LaidDomain DEF Laid, AllGathered
  <1> DEFINE new == Join(cs, f)
  <1>3. ASSUME NEW k \in DOMAIN new PROVE new[k].members # {}
    <2>1. CASE \E n \in DOMAIN cs : Joins(cs[n], f)
      <3>1. PICK n : First(cs, f, n)
        BY <2>1, FirstOrNone
      <3>2. DOMAIN new = DOMAIN cs /\ new[n] = Merge(cs[n], f) /\ \A j \in DOMAIN cs : j # n => new[j] = cs[j]
        BY <3>1, JoinFirst
      <3>3. n \in DOMAIN cs /\ Merge(cs[n], f).members = cs[n].members \cup {MemberOf(f)}
        BY <1>2, <3>1, MergeFields DEF First
      <3> HIDE DEF new
      <3> QED BY <1>2, <1>3, <3>2, <3>3
    <2>2. CASE ~\E n \in DOMAIN cs : Joins(cs[n], f)
      <3>1. DOMAIN new = 1 .. Len(cs) + 1 /\ new[Len(cs) + 1] = Seed(f) /\ \A j \in DOMAIN cs : new[j] = cs[j]
        BY <2>2, JoinNone
      <3>2. Seed(f).members = {MemberOf(f)}
        BY SeedFields
      <3> HIDE DEF new
      <3>3. k \in 1 .. Len(cs) \/ k = Len(cs) + 1
        BY <1>2, <1>3, <3>1
      <3> QED BY <1>2, <3>1, <3>2, <3>3
    <2> QED BY <2>1, <2>2
  <1> QED BY <1>1, <1>3 DEF Laid

(***************************************************************************)
(* Clusters that differ in no more than the places of rivals.              *)
(***************************************************************************)

Paired(cs, ds, p) ==
    /\ p \in [DOMAIN cs -> DOMAIN ds]
    /\ \A j \in DOMAIN ds : \E k \in DOMAIN cs : p[k] = j
    /\ \A k \in DOMAIN cs : Same(cs[k], ds[p[k]])
    /\ \A j, k \in DOMAIN cs : j < k => p[j] < p[k] \/ (p[j] # p[k] /\ Rivals(cs[j], cs[k]))

Alike(cs, ds) == \E p : Paired(cs, ds, p)

Matched(cs, ds) == DOMAIN cs = DOMAIN ds /\ \A k \in DOMAIN cs : Same(cs[k], ds[k])

LEMMA MatchedAlike ==
  ASSUME NEW cs, NEW ds, Matched(cs, ds)
  PROVE  Alike(cs, ds)
  <1> DEFINE p == [k \in DOMAIN cs |-> k]
  <1>1. DOMAIN cs = DOMAIN ds /\ \A k \in DOMAIN cs : Same(cs[k], ds[k])
    BY DEF Matched
  <1>2. p \in [DOMAIN cs -> DOMAIN ds] /\ \A k \in DOMAIN cs : p[k] = k
    BY <1>1
  <1> HIDE DEF p
  <1>3. Paired(cs, ds, p)
    BY <1>1, <1>2 DEF Paired
  <1> QED BY <1>3 DEF Alike

LEMMA AlikeShape ==
  ASSUME NEW cs, NEW ds, Alike(cs, ds)
  PROVE  Shape(cs) = Shape(ds)
  <1> DEFINE S(c) == [members |-> c.members, sev |-> c.sev]
  <1>1. PICK p : Paired(cs, ds, p)
    BY DEF Alike
  <1>2. /\ p \in [DOMAIN cs -> DOMAIN ds]
        /\ \A j \in DOMAIN ds : \E k \in DOMAIN cs : p[k] = j
        /\ \A k \in DOMAIN cs : Same(cs[k], ds[p[k]])
    BY <1>1 DEF Paired
  <1>3. \A k \in DOMAIN cs : S(cs[k]) = S(ds[p[k]])
    BY <1>2 DEF Same
  <1>4. Shape(cs) = {S(cs[k]) : k \in DOMAIN cs} /\ Shape(ds) = {S(ds[k]) : k \in DOMAIN ds}
    BY DEF Shape
  <1> HIDE DEF S
  <1>5. ASSUME NEW x \in Shape(cs) PROVE x \in Shape(ds)
    <2>1. PICK k \in DOMAIN cs : x = S(cs[k])
      BY <1>4
    <2> QED BY <1>2, <1>3, <1>4, <2>1
  <1>6. ASSUME NEW x \in Shape(ds) PROVE x \in Shape(cs)
    <2>1. PICK j \in DOMAIN ds : x = S(ds[j])
      BY <1>4
    <2>2. PICK k \in DOMAIN cs : p[k] = j
      BY <1>2
    <2> QED BY <1>3, <1>4, <2>1, <2>2
  <1> QED BY <1>5, <1>6

LEMMA SameRivals ==
  ASSUME NEW c, NEW d, NEW e, NEW g, Same(c, d), Same(e, g), Rivals(c, e)
  PROVE  Rivals(d, g) /\ Rivals(g, d)
  BY DEF Same, Rivals

LEMMA SameSame ==
  ASSUME NEW c, NEW d, NEW e, Same(c, d), Same(d, e)
  PROVE  Same(c, e) /\ Same(d, c)
  BY DEF Same

LEMMA AlikeTrans ==
  ASSUME NEW cs, NEW ds, NEW es, Laid(cs), Laid(ds), Laid(es), Alike(cs, ds), Alike(ds, es)
  PROVE  Alike(cs, es)
  <1>1. PICK p : Paired(cs, ds, p)
    BY DEF Alike
  <1>2. PICK q : Paired(ds, es, q)
    BY DEF Alike
  <1>3. DOMAIN cs \subseteq Nat /\ DOMAIN ds \subseteq Nat /\ DOMAIN es \subseteq Nat
    BY LaidDomain
  <1> DEFINE r == [k \in DOMAIN cs |-> q[p[k]]]
  <1>4. p \in [DOMAIN cs -> DOMAIN ds] /\ q \in [DOMAIN ds -> DOMAIN es]
    BY <1>1, <1>2 DEF Paired
  <1>5. r \in [DOMAIN cs -> DOMAIN es] /\ \A k \in DOMAIN cs : r[k] = q[p[k]]
    BY <1>4
  <1> HIDE DEF r
  <1>6. \A j \in DOMAIN es : \E k \in DOMAIN cs : r[k] = j
    BY <1>1, <1>2, <1>5 DEF Paired
  <1>7. ASSUME NEW k \in DOMAIN cs PROVE Same(cs[k], es[r[k]])
    <2>1. Same(cs[k], ds[p[k]]) /\ Same(ds[p[k]], es[q[p[k]]])
      BY <1>1, <1>2, <1>4 DEF Paired
    <2> QED BY <1>5, <2>1, SameSame
  <1>8. ASSUME NEW j \in DOMAIN cs, NEW k \in DOMAIN cs, j < k
        PROVE  r[j] < r[k] \/ (r[j] # r[k] /\ Rivals(cs[j], cs[k]))
    <2>1. /\ p[j] \in DOMAIN ds /\ p[k] \in DOMAIN ds /\ p[j] \in Nat /\ p[k] \in Nat
          /\ r[j] = q[p[j]] /\ r[k] = q[p[k]] /\ r[j] \in Nat /\ r[k] \in Nat
      BY <1>3, <1>4, <1>5
    <2>2. Same(cs[j], ds[p[j]]) /\ Same(cs[k], ds[p[k]]) /\ Same(ds[p[j]], cs[j]) /\ Same(ds[p[k]], cs[k])
      <3>1. Same(cs[j], ds[p[j]]) /\ Same(cs[k], ds[p[k]])
        BY <1>1 DEF Paired
      <3> QED BY <3>1 DEF Same
    <2>3. CASE p[j] < p[k]
      <3>1. q[p[j]] < q[p[k]] \/ (q[p[j]] # q[p[k]] /\ Rivals(ds[p[j]], ds[p[k]]))
        BY <1>2, <2>1, <2>3 DEF Paired
      <3>2. Rivals(ds[p[j]], ds[p[k]]) => Rivals(cs[j], cs[k])
        BY <2>2, SameRivals
      <3> QED BY <2>1, <3>1, <3>2
    <2>4. CASE p[j] # p[k] /\ Rivals(cs[j], cs[k])
      <3>1. q[p[j]] # q[p[k]]
        <4>1. p[j] < p[k] \/ p[k] < p[j]
          BY <2>1, <2>4
        <4>2. p[j] < p[k] => q[p[j]] < q[p[k]] \/ q[p[j]] # q[p[k]]
          BY <1>2, <2>1 DEF Paired
        <4>3. p[k] < p[j] => q[p[k]] < q[p[j]] \/ q[p[k]] # q[p[j]]
          BY <1>2, <2>1 DEF Paired
        <4> QED BY <2>1, <4>1, <4>2, <4>3
      <3> QED BY <2>1, <2>4, <3>1
    <2>5. p[j] < p[k] \/ (p[j] # p[k] /\ Rivals(cs[j], cs[k]))
      BY <1>1, <1>8 DEF Paired
    <2> QED BY <2>3, <2>4, <2>5
  <1>9. Paired(cs, es, r)
    BY <1>5, <1>6, <1>7, <1>8 DEF Paired
  <1> QED BY <1>9 DEF Alike

\* One finding more keeps them so.
LEMMA JoinAlike ==
  ASSUME NEW cs, Laid(cs), NEW ds, Laid(ds), Alike(cs, ds), NEW f, Alone(f)
  PROVE  Alike(Join(cs, f), Join(ds, f))
  <1>1. PICK p : Paired(cs, ds, p)
    BY DEF Alike
  <1>2. DOMAIN cs = 1 .. Len(cs) /\ Len(cs) \in Nat /\ DOMAIN ds = 1 .. Len(ds) /\ Len(ds) \in Nat
    BY LaidDomain
  <1>3. /\ \A k \in DOMAIN cs : cs[k].members # {} /\ Gathered(cs[k])
        /\ \A k \in DOMAIN ds : ds[k].members # {} /\ Gathered(ds[k])
    BY DEF Laid, AllGathered
  <1>4. p \in [DOMAIN cs -> DOMAIN ds] /\ \A k \in DOMAIN cs : Same(cs[k], ds[p[k]])
    BY <1>1 DEF Paired
  <1>5. \A k \in DOMAIN cs : Joins(cs[k], f) <=> Joins(ds[p[k]], f)
    BY <1>4, SameJoins
  <1>6. \A j \in DOMAIN ds : \E k \in DOMAIN cs : p[k] = j
    BY <1>1 DEF Paired
  <1>7. \A j, k \in DOMAIN cs : j < k => p[j] < p[k] \/ (p[j] # p[k] /\ Rivals(cs[j], cs[k]))
    BY <1>1 DEF Paired
  <1> DEFINE new == Join(cs, f)
             dew == Join(ds, f)
  <1>8. CASE \E k \in DOMAIN cs : Joins(cs[k], f)
    <2>1. PICK n : First(cs, f, n)
      BY <1>8, FirstOrNone
    <2>2. n \in DOMAIN cs /\ Joins(cs[n], f) /\ p[n] \in DOMAIN ds /\ Joins(ds[p[n]], f)
      BY <1>4, <1>5, <2>1 DEF First
    <2>3. ASSUME NEW i \in DOMAIN ds, i < p[n] PROVE ~Joins(ds[i], f)
      <3>1. PICK k \in DOMAIN cs : p[k] = i
        BY <1>6
      <3>2. CASE k < n
        <4>1. ~Joins(cs[k], f)
          BY <2>1, <3>1, <3>2 DEF First
        <4> QED BY <1>5, <3>1, <4>1
      <3>3. CASE n < k
        <4>1. p[n] < p[k] \/ Rivals(cs[n], cs[k])
          BY <1>7, <2>2, <3>1, <3>3
        <4>2. Rivals(cs[n], cs[k])
          BY <1>2, <2>2, <2>3, <3>1, <4>1
        <4>3. ~Joins(cs[k], f)
          BY <1>3, <2>2, <3>1, <4>2, NoneJoinsRivals
        <4> QED BY <1>5, <3>1, <4>3
      <3>4. k # n
        BY <1>2, <2>2, <2>3, <3>1
      <3>5. k \in Nat /\ n \in Nat
        BY <1>2, <2>2, <3>1
      <3> QED BY <3>2, <3>3, <3>4, <3>5
    <2>4. First(ds, f, p[n])
      BY <2>2, <2>3 DEF First
    <2>5. /\ DOMAIN new = DOMAIN cs /\ new[n] = Merge(cs[n], f)
          /\ \A k \in DOMAIN cs : k # n => new[k] = cs[k]
      BY <2>1, JoinFirst
    <2>6. /\ DOMAIN dew = DOMAIN ds /\ dew[p[n]] = Merge(ds[p[n]], f)
          /\ \A k \in DOMAIN ds : k # p[n] => dew[k] = ds[k]
      BY <2>4, JoinFirst
    <2>7. Same(Merge(cs[n], f), Merge(ds[p[n]], f))
      BY <1>3, <1>4, <2>2, SameMerge
    <2>8. \A k \in DOMAIN cs : k # n => p[k] # p[n] /\ p[k] \in DOMAIN ds
      <3>1. SUFFICES ASSUME NEW k \in DOMAIN cs, k # n PROVE p[k] # p[n] /\ p[k] \in DOMAIN ds
        OBVIOUS
      <3>2. k \in Nat /\ n \in Nat /\ p[k] \in Nat /\ p[n] \in Nat /\ p[k] \in DOMAIN ds
        BY <1>2, <1>4, <2>2
      <3>3. k < n \/ n < k
        BY <3>1, <3>2
      <3>4. (p[k] < p[n] \/ p[k] # p[n]) \/ (p[n] < p[k] \/ p[n] # p[k])
        BY <1>7, <2>2, <3>3
      <3> QED BY <3>2, <3>4
    <2>9. \A k \in DOMAIN cs : k # n =>
             /\ Rivals(cs[n], cs[k]) => Rivals(Merge(cs[n], f), cs[k])
             /\ Rivals(cs[k], cs[n]) => Rivals(cs[k], Merge(cs[n], f))
      <3>1. SUFFICES ASSUME NEW k \in DOMAIN cs
                     PROVE  /\ Rivals(cs[n], cs[k]) => Rivals(Merge(cs[n], f), cs[k])
                            /\ Rivals(cs[k], cs[n]) => Rivals(cs[k], Merge(cs[n], f))
        OBVIOUS
      <3>2. Rivals(cs[k], cs[n]) => Rivals(cs[n], cs[k])
        BY DEF Rivals
      <3>3. Rivals(cs[n], cs[k]) => Rivals(Merge(cs[n], f), cs[k]) /\ Rivals(cs[k], Merge(cs[n], f))
        BY <1>3, <2>2, RivalsStay
      <3> QED BY <3>2, <3>3
    <2> HIDE DEF new, dew
    <2>10. \A k \in DOMAIN new : Same(new[k], dew[p[k]])
      <3>1. SUFFICES ASSUME NEW k \in DOMAIN cs PROVE Same(new[k], dew[p[k]])
        BY <2>5
      <3>2. CASE k = n
        BY <2>5, <2>6, <2>7, <3>2
      <3>3. CASE k # n
        BY <1>4, <2>5, <2>6, <2>8, <3>3
      <3> QED BY <3>2, <3>3
    <2>11. ASSUME NEW j \in DOMAIN new, NEW k \in DOMAIN new, j < k
           PROVE  p[j] < p[k] \/ (p[j] # p[k] /\ Rivals(new[j], new[k]))
      <3>1. j \in DOMAIN cs /\ k \in DOMAIN cs /\ j # k /\ (p[j] < p[k] \/ (p[j] # p[k] /\ Rivals(cs[j], cs[k])))
        <4>1. j \in DOMAIN cs /\ k \in DOMAIN cs /\ j \in Nat /\ k \in Nat
          BY <1>2, <2>5
        <4> QED BY <1>7, <2>11, <4>1
      <3>2. Rivals(cs[j], cs[k]) => Rivals(new[j], new[k])
        <4>1. CASE j = n
          BY <2>5, <2>9, <3>1, <4>1
        <4>2. CASE k = n
          BY <2>5, <2>9, <3>1, <4>2
        <4>3. CASE j # n /\ k # n
          BY <2>5, <3>1, <4>3
        <4> QED BY <4>1, <4>2, <4>3
      <3> QED BY <3>1, <3>2
    <2>12. p \in [DOMAIN new -> DOMAIN dew] /\ \A j \in DOMAIN dew : \E k \in DOMAIN new : p[k] = j
      BY <1>4, <1>6, <2>5, <2>6
    <2>13. Paired(new, dew, p)
      BY <2>10, <2>11, <2>12 DEF Paired
    <2> QED BY <2>13 DEF Alike, new, dew
  <1>9. CASE ~\E k \in DOMAIN cs : Joins(cs[k], f)
    <2>1. \A k \in DOMAIN ds : ~Joins(ds[k], f)
      BY <1>5, <1>6, <1>9
    <2> DEFINE n == Len(cs) + 1
               m == Len(ds) + 1
               q == [k \in 1 .. n |-> IF k = n THEN m ELSE p[k]]
    <2>2. DOMAIN new = 1 .. n /\ new[n] = Seed(f) /\ \A k \in DOMAIN cs : new[k] = cs[k]
      BY <1>9, JoinNone
    <2>3. DOMAIN dew = 1 .. m /\ dew[m] = Seed(f) /\ \A k \in DOMAIN ds : dew[k] = ds[k]
      BY <2>1, JoinNone
    <2>4. /\ \A k \in DOMAIN cs : q[k] = p[k] /\ p[k] \in DOMAIN ds /\ k < n /\ p[k] < m
          /\ q[n] = m /\ n \in Nat /\ m \in Nat /\ q \in [1 .. n -> 1 .. m]
          /\ \A k \in 1 .. n : k = n \/ k \in DOMAIN cs
          /\ \A k \in 1 .. m : k = m \/ k \in DOMAIN ds
          /\ DOMAIN cs \subseteq 1 .. n /\ n \in 1 .. n
      BY <1>2, <1>4
    <2> HIDE DEF new, dew, n, m, q
    <2>5. \A k \in DOMAIN new : Same(new[k], dew[q[k]])
      <3>1. SUFFICES ASSUME NEW k \in 1 .. n PROVE Same(new[k], dew[q[k]])
        BY <2>2
      <3>2. CASE k = n
        BY <2>2, <2>3, <2>4, <3>2 DEF Same
      <3>3. CASE k \in DOMAIN cs
        BY <1>4, <2>2, <2>3, <2>4, <3>3
      <3> QED BY <2>4, <3>2, <3>3
    <2>6. \A j \in DOMAIN dew : \E k \in DOMAIN new : q[k] = j
      <3>1. SUFFICES ASSUME NEW j \in 1 .. m PROVE \E k \in 1 .. n : q[k] = j
        BY <2>2, <2>3
      <3>2. CASE j = m
        BY <2>4, <3>2
      <3>3. CASE j \in DOMAIN ds
        <4>1. PICK k \in DOMAIN cs : p[k] = j
          BY <1>6, <3>3
        <4>2. k \in 1 .. n /\ q[k] = j
          BY <2>4, <4>1
        <4> QED BY <4>2
      <3> QED BY <2>4, <3>2, <3>3
    <2>7. ASSUME NEW j \in DOMAIN new, NEW k \in DOMAIN new, j < k
          PROVE  q[j] < q[k] \/ (q[j] # q[k] /\ Rivals(new[j], new[k]))
      <3>1. j \in 1 .. n /\ k \in 1 .. n /\ j \in DOMAIN cs
        <4>1. j \in 1 .. n /\ k \in 1 .. n
          BY <2>2
        <4>2. j # n
          BY <2>4, <2>7, <4>1
        <4> QED BY <2>4, <4>1, <4>2
      <3>2. CASE k = n
        BY <2>4, <3>1, <3>2
      <3>3. CASE k \in DOMAIN cs
        BY <1>7, <2>2, <2>4, <2>7, <3>1, <3>3
      <3> QED BY <2>4, <3>1, <3>2, <3>3
    <2>8. Paired(new, dew, q)
      BY <2>2, <2>3, <2>4, <2>5, <2>6, <2>7 DEF Paired
    <2> QED BY <2>8 DEF Alike, new, dew
  <1> QED BY <1>8, <1>9

(***************************************************************************)
(* Two findings at the same place in the order change places.              *)
(***************************************************************************)

LEMMA TiedPlaces ==
  ASSUME NEW f, NEW g, Tied(f, g), NEW a
  PROVE  (WordedAlike(a, f) <=> WordedAlike(a, g)) /\ (Near(a, f) <=> Near(a, g)) /\ PlaceOf(f) = PlaceOf(g)
  BY DEF Tied, WordedAlike, Near, PlaceOf

LEMMA TiedBoth ==
  ASSUME NEW c, Gathered(c), c.members # {}, NEW f, Alone(f), NEW g, Alone(g), Tied(f, g), Joins(c, f), Joins(c, g)
  PROVE  Joins(Merge(c, f), g)
  <1> DEFINE e == Merge(c, f)
  <1>1. e.anchor = c.anchor /\ e.members = c.members \cup {MemberOf(f)}
    BY MergeFields
  <1>2. MemberOf(f).cat = f.cat
    BY DEF MemberOf
  <1> HIDE DEF e
  <1>3. CASE WordedAlike(c.anchor, g)
    BY <1>1, <1>3 DEF Joins, e
  <1>4. CASE ~WordedAlike(c.anchor, g)
    <2>1. Near(c.anchor, g) /\ \A m \in c.members : HighStakes(m.cat) = HighStakes(g.cat)
      BY <1>4 DEF Joins
    <2>2. \A m \in c.members : HighStakes(m.cat) = HighStakes(f.cat)
      BY <1>4, TiedPlaces DEF Joins
    <2>3. PICK m \in c.members : TRUE
      OBVIOUS
    <2>4. HighStakes(f.cat) = HighStakes(g.cat)
      BY <2>1, <2>2, <2>3
    <2>5. Near(e.anchor, g) /\ \A x \in e.members : HighStakes(x.cat) = HighStakes(g.cat)
      BY <1>1, <1>2, <2>1, <2>4
    <2>6. Joins(e, g)
      BY <2>5 DEF Joins
    <2> QED BY <2>6 DEF e
  <1> QED BY <1>3, <1>4

LEMMA TiedMerge ==
  ASSUME NEW c, Gathered(c), NEW f, Alone(f), NEW g, Alone(g), Tied(f, g)
  PROVE  Same(Merge(Merge(c, f), g), Merge(Merge(c, g), f))
  <1>1. Gathered(Merge(c, f)) /\ Gathered(Merge(c, g))
    BY MergeGathered
  <1>2. PICK a : a = Merge(c, f)
    OBVIOUS
  <1>3. PICK b : b = Merge(c, g)
    OBVIOUS
  <1>4. /\ a.anchor = c.anchor /\ a.members = c.members \cup {MemberOf(f)}
        /\ a.sev = IF Rank(f.sev) > Rank(c.sev) THEN f.sev ELSE c.sev
    BY <1>2, MergeFields
  <1>5. /\ b.anchor = c.anchor /\ b.members = c.members \cup {MemberOf(g)}
        /\ b.sev = IF Rank(g.sev) > Rank(c.sev) THEN g.sev ELSE c.sev
    BY <1>3, MergeFields
  <1>6. PICK x : x = Merge(a, g)
    OBVIOUS
  <1>7. PICK y : y = Merge(b, f)
    OBVIOUS
  <1>8. /\ x.anchor = a.anchor /\ x.members = a.members \cup {MemberOf(g)}
        /\ x.sev = IF Rank(g.sev) > Rank(a.sev) THEN g.sev ELSE a.sev
    BY <1>1, <1>2, <1>6, MergeFields
  <1>9. /\ y.anchor = b.anchor /\ y.members = b.members \cup {MemberOf(f)}
        /\ y.sev = IF Rank(f.sev) > Rank(b.sev) THEN f.sev ELSE b.sev
    BY <1>1, <1>3, <1>7, MergeFields
  <1>10. f.sev = g.sev
    BY DEF Tied
  <1>11. x.sev = y.sev
    <2>1. a.sev = b.sev
      BY <1>4, <1>5, <1>10
    <2> QED BY <1>8, <1>9, <1>10, <2>1
  <1>12. Same(x, y)
    BY <1>4, <1>5, <1>8, <1>9, <1>11 DEF Same
  <1> QED BY <1>2, <1>3, <1>6, <1>7, <1>12

\* One of them finds a cluster, the other does not: they do not meet.
LEMMA SwapOne ==
  ASSUME NEW cs, Laid(cs), NEW f, Alone(f), NEW g, Alone(g), NEW n, First(cs, f, n),
         \A k \in DOMAIN cs : ~Joins(cs[k], g)
  PROVE  Matched(Join(Join(cs, f), g), Join(Join(cs, g), f))
  <1> DEFINE a == Join(cs, f)
             b == Join(cs, g)
             x == Join(a, g)
             y == Join(b, f)
             m == Len(cs) + 1
  <1>0. Laid(a) /\ Laid(b)
    BY JoinLaid
  <1>1. DOMAIN cs = 1 .. Len(cs) /\ Len(cs) \in Nat /\ n \in DOMAIN cs /\ Joins(cs[n], f) /\ Gathered(cs[n])
    BY LaidDomain DEF Laid, AllGathered, First
  <1>2. DOMAIN a = DOMAIN cs /\ a[n] = Merge(cs[n], f) /\ \A k \in DOMAIN cs : k # n => a[k] = cs[k]
    BY JoinFirst
  <1>3. \A k \in DOMAIN a : ~Joins(a[k], g)
    <2>1. ~Joins(Merge(cs[n], f), g)
      BY <1>1, MergeNarrows
    <2> HIDE DEF a
    <2> QED BY <1>1, <1>2, <2>1
  <1>4. Len(a) = Len(cs)
    <2>1. DOMAIN a = 1 .. Len(a) /\ Len(a) \in Nat
      BY <1>0, LaidDomain
    <2> HIDE DEF a
    <2> QED BY <1>1, <1>2, <2>1
  <1>5. DOMAIN x = 1 .. m /\ x[m] = Seed(g) /\ \A k \in DOMAIN cs : x[k] = a[k]
    <2>1. DOMAIN x = 1 .. Len(a) + 1 /\ x[Len(a) + 1] = Seed(g) /\ \A k \in DOMAIN a : x[k] = a[k]
      <3> HIDE DEF a
      <3> QED BY <1>0, <1>3, JoinNone
    <2> HIDE DEF a, x
    <2> QED BY <1>2, <1>4, <2>1
  <1>6. DOMAIN b = 1 .. m /\ b[m] = Seed(g) /\ \A k \in DOMAIN cs : b[k] = cs[k]
    BY JoinNone
  <1>7. n \in 1 .. m /\ m \in Nat /\ n < m /\ DOMAIN cs \subseteq 1 .. m /\ \A k \in 1 .. m : k = m \/ k \in DOMAIN cs
    BY <1>1
  <1>8. First(b, f, n)
    <2>1. b[n] = cs[n] /\ n \in DOMAIN b
      BY <1>1, <1>6, <1>7
    <2>2. ASSUME NEW k \in DOMAIN b, k < n PROVE ~Joins(b[k], f)
      <3>1. k \in DOMAIN cs /\ b[k] = cs[k]
        <4> HIDE DEF b
        <4>1. k \in 1 .. m
          BY <1>6
        <4>2. k # m
          BY <1>7, <2>2, <4>1
        <4> QED BY <1>6, <1>7, <4>1, <4>2
      <3> QED BY <2>2, <3>1 DEF First
    <2> HIDE DEF b
    <2> QED BY <1>1, <2>1, <2>2 DEF First
  <1>9. DOMAIN y = 1 .. m /\ y[n] = Merge(b[n], f) /\ \A k \in 1 .. m : k # n => y[k] = b[k]
    <2>1. DOMAIN y = DOMAIN b /\ y[n] = Merge(b[n], f) /\ \A k \in DOMAIN b : k # n => y[k] = b[k]
      <3> HIDE DEF b
      <3> QED BY <1>0, <1>8, JoinFirst
    <2> HIDE DEF b, y
    <2> QED BY <1>6, <2>1
  <1> HIDE DEF a, b, x, y, m
  <1>10. ASSUME NEW k \in 1 .. m PROVE x[k] = y[k]
    <2>1. CASE k = m
      BY <1>5, <1>6, <1>7, <1>9, <2>1
    <2>2. CASE k = n
      BY <1>1, <1>2, <1>5, <1>6, <1>9, <2>2
    <2>3. CASE k \in DOMAIN cs /\ k # n
      BY <1>2, <1>5, <1>6, <1>9, <2>3
    <2> QED BY <1>7, <2>1, <2>2, <2>3
  <1>11. Matched(x, y)
    BY <1>5, <1>9, <1>10 DEF Matched, Same
  <1> QED BY <1>11 DEF a, b, x, y

\* The cluster that the second finds is the one it would have found.
LEMMA StillFirst ==
  ASSUME NEW cs, Laid(cs), NEW f, Alone(f), NEW g, Alone(g), Tied(f, g), NEW n, First(cs, f, n), NEW m, First(cs, g, m)
  PROVE  First(Join(cs, f), g, m)
  <1> DEFINE a == Join(cs, f)
  <1>1. DOMAIN cs = 1 .. Len(cs) /\ Len(cs) \in Nat /\ \A k \in DOMAIN cs : Gathered(cs[k]) /\ cs[k].members # {}
    BY LaidDomain DEF Laid, AllGathered
  <1>2. n \in DOMAIN cs /\ Joins(cs[n], f) /\ m \in DOMAIN cs /\ Joins(cs[m], g)
    BY DEF First
  <1>3. DOMAIN a = DOMAIN cs /\ a[n] = Merge(cs[n], f) /\ \A k \in DOMAIN cs : k # n => a[k] = cs[k]
    BY JoinFirst
  <1> HIDE DEF a
  <1>4. Joins(a[m], g)
    <2>1. CASE m = n
      BY <1>1, <1>2, <1>3, <2>1, TiedBoth
    <2>2. CASE m # n
      BY <1>2, <1>3, <2>2
    <2> QED BY <2>1, <2>2
  <1>5. ASSUME NEW k \in DOMAIN cs, k < m PROVE ~Joins(a[k], g)
    <2>1. ~Joins(cs[k], g)
      BY <1>5 DEF First
    <2>2. CASE k = n
      BY <1>1, <1>2, <1>3, <2>1, <2>2, MergeNarrows
    <2>3. CASE k # n
      BY <1>3, <2>1, <2>3
    <2> QED BY <2>2, <2>3
  <1>6. First(a, g, m)
    BY <1>2, <1>3, <1>4, <1>5 DEF First
  <1> QED BY <1>6 DEF a

LEMMA SwapBoth ==
  ASSUME NEW cs, Laid(cs), NEW f, Alone(f), NEW g, Alone(g), Tied(f, g), NEW n, First(cs, f, n), NEW m, First(cs, g, m)
  PROVE  Matched(Join(Join(cs, f), g), Join(Join(cs, g), f))
  <1> DEFINE a == Join(cs, f)
             b == Join(cs, g)
             x == Join(a, g)
             y == Join(b, f)
  <1>0. Laid(a) /\ Laid(b)
    BY JoinLaid
  <1>1. n \in DOMAIN cs /\ m \in DOMAIN cs /\ \A k \in DOMAIN cs : Gathered(cs[k])
    BY DEF First, Laid, AllGathered
  <1>2. DOMAIN a = DOMAIN cs /\ a[n] = Merge(cs[n], f) /\ \A k \in DOMAIN cs : k # n => a[k] = cs[k]
    BY JoinFirst
  <1>3. DOMAIN b = DOMAIN cs /\ b[m] = Merge(cs[m], g) /\ \A k \in DOMAIN cs : k # m => b[k] = cs[k]
    BY JoinFirst
  <1>4. First(a, g, m) /\ First(b, f, n)
    <2>1. Tied(g, f)
      BY DEF Tied
    <2> QED BY <2>1, StillFirst
  <1> HIDE DEF a, b
  <1>5. DOMAIN x = DOMAIN cs /\ x[m] = Merge(a[m], g) /\ \A k \in DOMAIN cs : k # m => x[k] = a[k]
    BY <1>0, <1>2, <1>4, JoinFirst
  <1>6. DOMAIN y = DOMAIN cs /\ y[n] = Merge(b[n], f) /\ \A k \in DOMAIN cs : k # n => y[k] = b[k]
    BY <1>0, <1>3, <1>4, JoinFirst
  <1> HIDE DEF x, y
  <1>7. ASSUME NEW k \in DOMAIN cs PROVE Same(x[k], y[k])
    <2>1. CASE k = n /\ k = m
      <3>1. x[k] = Merge(Merge(cs[k], f), g) /\ y[k] = Merge(Merge(cs[k], g), f)
        BY <1>2, <1>3, <1>5, <1>6, <2>1
      <3> QED BY <1>1, <3>1, TiedMerge
    <2>2. CASE k = n /\ k # m
      <3>1. x[k] = Merge(cs[k], f) /\ y[k] = Merge(cs[k], f)
        BY <1>2, <1>3, <1>5, <1>6, <2>2
      <3> QED BY <3>1 DEF Same
    <2>3. CASE k # n /\ k = m
      <3>1. x[k] = Merge(cs[k], g) /\ y[k] = Merge(cs[k], g)
        BY <1>2, <1>3, <1>5, <1>6, <2>3
      <3> QED BY <3>1 DEF Same
    <2>4. CASE k # n /\ k # m
      <3>1. x[k] = cs[k] /\ y[k] = cs[k]
        BY <1>2, <1>3, <1>5, <1>6, <2>4
      <3> QED BY <3>1 DEF Same
    <2> QED BY <2>1, <2>2, <2>3, <2>4
  <1>8. Matched(x, y)
    BY <1>5, <1>6, <1>7 DEF Matched
  <1> QED BY <1>8 DEF a, b, x, y

LEMMA SeedsMeet ==
  ASSUME NEW f, Alone(f), NEW g, Alone(g), Tied(f, g)
  PROVE  /\ Joins(Seed(f), g) <=> Joins(Seed(g), f)
         /\ ~Joins(Seed(f), g) => Rivals(Seed(f), Seed(g)) /\ Rivals(Seed(g), Seed(f))
         /\ Same(Merge(Seed(f), g), Merge(Seed(g), f))
  <1> DEFINE c == Seed(f)
             d == Seed(g)
  <1>1. c.anchor = PlaceOf(f) /\ c.members = {MemberOf(f)} /\ c.sev = f.sev /\ Gathered(c)
    BY SeedFields, SeedGathered
  <1>2. d.anchor = PlaceOf(g) /\ d.members = {MemberOf(g)} /\ d.sev = g.sev /\ Gathered(d)
    BY SeedFields, SeedGathered
  <1>3. PlaceOf(f) = PlaceOf(g) /\ f.sev = g.sev /\ f.topic = g.topic
    BY TiedPlaces DEF Tied
  <1>4. MemberOf(f).cat = f.cat /\ MemberOf(g).cat = g.cat
    BY DEF MemberOf
  <1> HIDE DEF c, d
  <1>5. \A h \in {f, g} : /\ Near(PlaceOf(f), h)
                          /\ WordedAlike(PlaceOf(f), h) <=> <<f.topic, f.topic>> \in Similar
    <2>1. f.line \in Nat /\ f.line - f.line = 0 /\ 0 \in -Window .. Window /\ 0 \in -Reach .. Reach
      BY VerdictAssumption DEF Alone
    <2>2. \A h \in {f, g} : h.file = f.file /\ h.line = f.line /\ h.topic = f.topic
      BY DEF Tied
    <2>3. PlaceOf(f).file = f.file /\ PlaceOf(f).line = f.line /\ PlaceOf(f).topic = f.topic
      BY DEF PlaceOf
    <2> QED BY <2>1, <2>2, <2>3 DEF Near, WordedAlike
  <1>6. Joins(c, g) <=> <<f.topic, f.topic>> \in Similar \/ HighStakes(f.cat) = HighStakes(g.cat)
    BY <1>1, <1>4, <1>5 DEF Joins
  <1>7. Joins(d, f) <=> <<f.topic, f.topic>> \in Similar \/ HighStakes(f.cat) = HighStakes(g.cat)
    BY <1>2, <1>3, <1>4, <1>5 DEF Joins
  <1>8. ASSUME ~Joins(c, g) PROVE Rivals(c, d) /\ Rivals(d, c)
    <2>1. <<f.topic, f.topic>> \notin Similar /\ HighStakes(f.cat) # HighStakes(g.cat)
      BY <1>6, <1>8
    <2>2. Mute(f.topic)
      <3>1. SUFFICES ASSUME NEW t, <<f.topic, t>> \in Similar PROVE FALSE
        BY DEF Mute
      <3>2. PICK s : s = <<f.topic, t>>
        OBVIOUS
      <3>3. s \in Similar /\ s[1] = f.topic
        BY <3>1, <3>2
      <3> QED BY <2>1, <3>3, SimilarAssumption
    <2>3. c.anchor.topic = f.topic /\ d.anchor.topic = f.topic
      BY <1>1, <1>2, <1>3 DEF PlaceOf
    <2>4. \A m \in c.members, n \in d.members : HighStakes(m.cat) # HighStakes(n.cat)
      BY <1>1, <1>2, <1>4, <2>1
    <2> QED BY <2>2, <2>3, <2>4 DEF Rivals
  <1>9. Same(Merge(c, g), Merge(d, f))
    <2>1. PICK x : x = Merge(c, g)
      OBVIOUS
    <2>2. PICK y : y = Merge(d, f)
      OBVIOUS
    <2>3. /\ x.anchor = c.anchor /\ x.members = c.members \cup {MemberOf(g)}
          /\ x.sev = IF Rank(g.sev) > Rank(c.sev) THEN g.sev ELSE c.sev
      BY <1>1, <2>1, MergeFields
    <2>4. /\ y.anchor = d.anchor /\ y.members = d.members \cup {MemberOf(f)}
          /\ y.sev = IF Rank(f.sev) > Rank(d.sev) THEN f.sev ELSE d.sev
      BY <1>2, <2>2, MergeFields
    <2>5. Same(x, y)
      BY <1>1, <1>2, <1>3, <2>3, <2>4 DEF Same
    <2> QED BY <2>1, <2>2, <2>5
  <1> QED BY <1>6, <1>7, <1>8, <1>9 DEF c, d

\* Neither finds a cluster: the first makes one, which the second joins, or makes its own.
LEMMA SwapNone ==
  ASSUME NEW cs, Laid(cs), NEW f, Alone(f), NEW g, Alone(g), Tied(f, g),
         \A k \in DOMAIN cs : ~Joins(cs[k], f) /\ ~Joins(cs[k], g)
  PROVE  Alike(Join(Join(cs, f), g), Join(Join(cs, g), f))
  <1> DEFINE a == Join(cs, f)
             b == Join(cs, g)
             x == Join(a, g)
             y == Join(b, f)
             n == Len(cs) + 1
  <1>0. Laid(a) /\ Laid(b)
    BY JoinLaid
  <1>1. DOMAIN cs = 1 .. Len(cs) /\ Len(cs) \in Nat
    BY LaidDomain
  <1>2. DOMAIN a = 1 .. n /\ Len(a) = n /\ a[n] = Seed(f) /\ \A k \in DOMAIN cs : a[k] = cs[k]
    BY JoinNone
  <1>3. DOMAIN b = 1 .. n /\ Len(b) = n /\ b[n] = Seed(g) /\ \A k \in DOMAIN cs : b[k] = cs[k]
    BY JoinNone
  <1>4. /\ n \in Nat /\ n \in 1 .. n /\ DOMAIN cs \subseteq 1 .. n /\ n \notin DOMAIN cs
        /\ \A k \in 1 .. n : k = n \/ (k \in DOMAIN cs /\ k < n)
    BY <1>1
  <1> HIDE DEF a, b, n
  <1>5. CASE Joins(Seed(f), g)
    <2>1. Joins(Seed(g), f)
      BY <1>5, SeedsMeet
    <2>2. First(a, g, n)
      BY <1>2, <1>4, <1>5 DEF First
    <2>3. First(b, f, n)
      BY <1>3, <1>4, <2>1 DEF First
    <2>4. DOMAIN x = 1 .. n /\ x[n] = Merge(Seed(f), g) /\ \A k \in 1 .. n : k # n => x[k] = a[k]
      BY <1>0, <1>2, <2>2, JoinFirst
    <2>5. DOMAIN y = 1 .. n /\ y[n] = Merge(Seed(g), f) /\ \A k \in 1 .. n : k # n => y[k] = b[k]
      BY <1>0, <1>3, <2>3, JoinFirst
    <2> HIDE DEF x, y
    <2>6. ASSUME NEW k \in 1 .. n PROVE Same(x[k], y[k])
      <3>1. CASE k = n
        BY <2>4, <2>5, <3>1, SeedsMeet
      <3>2. CASE k # n
        BY <1>2, <1>3, <1>4, <2>4, <2>5, <3>2 DEF Same
      <3> QED BY <3>1, <3>2
    <2>7. Matched(x, y)
      BY <2>4, <2>5, <2>6 DEF Matched
    <2>8. Alike(x, y)
      BY <2>7, MatchedAlike
    <2> QED BY <2>8 DEF a, b, x, y
  <1>6. CASE ~Joins(Seed(f), g)
    <2>1. ~Joins(Seed(g), f) /\ Rivals(Seed(f), Seed(g)) /\ Rivals(Seed(g), Seed(f))
      BY <1>6, SeedsMeet
    <2>2. \A k \in DOMAIN a : ~Joins(a[k], g)
      BY <1>2, <1>4, <1>6
    <2>3. \A k \in DOMAIN b : ~Joins(b[k], f)
      BY <1>3, <1>4, <2>1
    <2> DEFINE m == n + 1
               p == [k \in 1 .. m |-> IF k = n THEN m ELSE IF k = m THEN n ELSE k]
    <2>4. DOMAIN x = 1 .. m /\ x[m] = Seed(g) /\ x[n] = Seed(f) /\ \A k \in DOMAIN cs : x[k] = cs[k]
      <3>1. DOMAIN x = 1 .. m /\ x[m] = Seed(g) /\ \A k \in DOMAIN a : x[k] = a[k]
        BY <1>0, <1>2, <2>2, JoinNone
      <3> HIDE DEF x, m
      <3> QED BY <1>2, <1>4, <3>1
    <2>5. DOMAIN y = 1 .. m /\ y[m] = Seed(f) /\ y[n] = Seed(g) /\ \A k \in DOMAIN cs : y[k] = cs[k]
      <3>1. DOMAIN y = 1 .. m /\ y[m] = Seed(f) /\ \A k \in DOMAIN b : y[k] = b[k]
        BY <1>0, <1>3, <2>3, JoinNone
      <3> HIDE DEF y, m
      <3> QED BY <1>3, <1>4, <3>1
    <2>6. /\ m \in Nat /\ n < m /\ m \in 1 .. m /\ n \in 1 .. m /\ DOMAIN cs \subseteq 1 .. m
          /\ \A k \in 1 .. m : k = m \/ k = n \/ (k \in DOMAIN cs /\ k < n)
      BY <1>4
    <2>7. p \in [1 .. m -> 1 .. m] /\ p[n] = m /\ p[m] = n /\ \A k \in DOMAIN cs : p[k] = k /\ k < n
      <3>1. \A k \in DOMAIN cs : k # n /\ k # m /\ k < n
        BY <1>1, <1>4, <2>6
      <3> QED BY <2>6, <3>1
    <2> HIDE DEF x, y, m, p
    <2>8. \A k \in DOMAIN x : Same(x[k], y[p[k]])
      <3>1. SUFFICES ASSUME NEW k \in 1 .. m PROVE Same(x[k], y[p[k]])
        BY <2>4
      <3>2. x[k] = y[p[k]]
        BY <2>4, <2>5, <2>6, <2>7
      <3> QED BY <3>2 DEF Same
    <2>9. \A j \in DOMAIN y : \E k \in DOMAIN x : p[k] = j
      BY <2>4, <2>5, <2>6, <2>7
    <2>10. ASSUME NEW j \in DOMAIN x, NEW k \in DOMAIN x, j < k
           PROVE  p[j] < p[k] \/ (p[j] # p[k] /\ Rivals(x[j], x[k]))
      <3>1. j \in 1 .. m /\ k \in 1 .. m /\ j \in Nat /\ k \in Nat
        BY <2>4
      <3>2. CASE k = m /\ j = n
        BY <1>4, <2>1, <2>4, <2>6, <2>7, <3>2
      <3>3. CASE j \in DOMAIN cs
        BY <1>4, <2>6, <2>7, <2>10, <3>1, <3>3
      <3>4. j = m \/ j = n \/ j \in DOMAIN cs
        BY <2>6, <3>1
      <3>5. j # m
        BY <2>6, <2>10, <3>1
      <3>6. j = n => k = m
        BY <1>4, <2>6, <2>10, <3>1
      <3> QED BY <3>2, <3>3, <3>4, <3>5, <3>6
    <2>11. Paired(x, y, p)
      BY <2>4, <2>5, <2>7, <2>8, <2>9, <2>10 DEF Paired
    <2> QED BY <2>11 DEF Alike, a, b, x, y
  <1> QED BY <1>5, <1>6

LEMMA SwapAlike ==
  ASSUME NEW cs, Laid(cs), NEW f, Alone(f), NEW g, Alone(g), Tied(f, g)
  PROVE  Alike(Join(Join(cs, f), g), Join(Join(cs, g), f))
  <1> DEFINE Finds(h) == \E k \in DOMAIN cs : Joins(cs[k], h)
             x == Join(Join(cs, f), g)
             y == Join(Join(cs, g), f)
  <1>1. CASE ~Finds(f) /\ ~Finds(g)
    BY <1>1, SwapNone
  <1>2. CASE Finds(f) /\ ~Finds(g)
    <2>1. PICK n : First(cs, f, n)
      BY <1>2, FirstOrNone
    <2>2. Matched(x, y)
      BY <1>2, <2>1, SwapOne
    <2> HIDE DEF x, y
    <2> QED BY <2>2, MatchedAlike DEF x, y
  <1>3. CASE ~Finds(f) /\ Finds(g)
    <2>1. PICK n : First(cs, g, n)
      BY <1>3, FirstOrNone
    <2>2. Matched(y, x)
      BY <1>3, <2>1, SwapOne
    <2> HIDE DEF x, y
    <2>3. Matched(x, y)
      BY <2>2 DEF Matched, Same
    <2> QED BY <2>3, MatchedAlike DEF x, y
  <1>4. CASE Finds(f) /\ Finds(g)
    <2>1. PICK n : First(cs, f, n)
      BY <1>4, FirstOrNone
    <2>2. PICK m : First(cs, g, m)
      BY <1>4, FirstOrNone
    <2>3. Matched(x, y)
      BY <2>1, <2>2, SwapBoth
    <2> HIDE DEF x, y
    <2> QED BY <2>3, MatchedAlike DEF x, y
  <1> QED BY <1>1, <1>2, <1>3, <1>4

(***************************************************************************)
(* The clusters of a run of findings; and two runs through the same ones.  *)
(***************************************************************************)

Built(in, o, n) == (CHOOSE g : Grown(in, o, n, g))[n]

LEMMA GrownSame ==
  ASSUME NEW in, NEW o, NEW n \in Nat, NEW g, Grown(in, o, n, g),
         NEW on, NEW w, NEW m \in Nat, NEW h, Grown(on, w, m, h),
         NEW l \in Nat, l <= n, l <= m, \A k \in 1 .. l : in[o[k]] = on[w[k]]
  PROVE  g[l] = h[l]
  <1> DEFINE T == {k \in Nat : k <= l => g[k] = h[k]}
  <1>1. 0 \in T
    <2>1. g[0] = <<>> /\ h[0] = <<>>
      BY DEF Grown
    <2> QED BY <2>1
  <1>2. ASSUME NEW k \in Nat, k \in T PROVE k + 1 \in T
    <2>1. SUFFICES ASSUME k + 1 <= l PROVE g[k + 1] = h[k + 1]
      OBVIOUS
    <2>2. g[k] = h[k]
      BY <1>2, <2>1
    <2>3. k + 1 \in 0 .. n /\ k + 1 \in 0 .. m /\ k + 1 # 0 /\ (k + 1) - 1 = k /\ k + 1 \in 1 .. l
      BY <2>1
    <2>4. g[k + 1] = Join(g[k], in[o[k + 1]])
      BY <2>3 DEF Grown
    <2>5. h[k + 1] = Join(h[k], on[w[k + 1]])
      BY <2>3 DEF Grown
    <2>6. in[o[k + 1]] = on[w[k + 1]]
      BY <2>3
    <2> QED BY <2>2, <2>4, <2>5, <2>6
  <1> HIDE DEF T
  <1>3. l \in T
    BY <1>1, <1>2, Induct
  <1> QED BY <1>3 DEF T

LEMMA BuiltSteps ==
  ASSUME NEW in, NEW o, NEW n \in Nat
  PROVE  Built(in, o, 0) = <<>> /\ Built(in, o, n + 1) = Join(Built(in, o, n), in[o[n + 1]])
  <1> DEFINE e == CHOOSE g : Grown(in, o, 0, g)
             a == CHOOSE g : Grown(in, o, n, g)
             b == CHOOSE g : Grown(in, o, n + 1, g)
  <1>1. Grown(in, o, 0, e) /\ Grown(in, o, n, a) /\ Grown(in, o, n + 1, b)
    BY GrownExists
  <1>2. Built(in, o, 0) = e[0] /\ Built(in, o, n) = a[n] /\ Built(in, o, n + 1) = b[n + 1]
    BY DEF Built
  <1> HIDE DEF e, a, b
  <1>3. e[0] = <<>>
    BY <1>1 DEF Grown
  <1>4. b[n + 1] = Join(b[n], in[o[n + 1]])
    <2>1. n + 1 \in 0 .. n + 1 /\ n + 1 # 0 /\ (n + 1) - 1 = n
      OBVIOUS
    <2> QED BY <1>1, <2>1 DEF Grown
  <1>5. a[n] = b[n]
    <2>1. n + 1 \in Nat /\ n <= n /\ n <= n + 1
      OBVIOUS
    <2> QED BY <1>1, <2>1, GrownSame
  <1> QED BY <1>2, <1>3, <1>4, <1>5

LEMMA BuiltSame ==
  ASSUME NEW in, NEW o, NEW on, NEW w, NEW n \in Nat, \A k \in 1 .. n : in[o[k]] = on[w[k]]
  PROVE  Built(in, o, n) = Built(on, w, n)
  <1> DEFINE a == CHOOSE g : Grown(in, o, n, g)
             b == CHOOSE g : Grown(on, w, n, g)
  <1>1. Grown(in, o, n, a) /\ Grown(on, w, n, b)
    BY GrownExists
  <1>2. Built(in, o, n) = a[n] /\ Built(on, w, n) = b[n]
    BY DEF Built
  <1> HIDE DEF a, b
  <1>3. a[n] = b[n]
    <2>1. n <= n /\ n \in Nat
      OBVIOUS
    <2>2. \A k \in 1 .. n : in[o[k]] = on[w[k]]
      OBVIOUS
    <2> QED BY ONLY <1>1, <2>1, <2>2, GrownSame, SMTT(60)
  <1> QED BY <1>2, <1>3

LEMMA ClustersBuilt ==
  ASSUME NEW in, NEW o
  PROVE  Clusters(in, o) = Built(in, o, Len(in))
  BY DEF Clusters, Grown, Built

Reporting(in) == in \in Seq(Image(in)) /\ \A i \in DOMAIN in : Alone(in[i])

\* `o` takes n findings, each once, and none after one that goes ahead of it.
InLine(in, o, n) ==
    /\ \A k \in 1 .. n : o[k] \in DOMAIN in
    /\ \A j, k \in 1 .. n : j < k => o[j] # o[k] /\ ~Ahead(in[o[k]], in[o[j]])

Within(o, w, n) == \A k \in 1 .. n : \E j \in 1 .. n : o[k] = w[j]

LEMMA BuiltLaid ==
  ASSUME NEW in, Reporting(in), NEW o, NEW n \in Nat, \A k \in 1 .. n : o[k] \in DOMAIN in
  PROVE  Laid(Built(in, o, n))
  <1> DEFINE T == {k \in Nat : k <= n => Laid(Built(in, o, k))}
  <1>1. 0 \in T
    <2> DEFINE e == <<>>
    <2>1. e \in Seq(Image(e)) /\ DOMAIN e = {} /\ Built(in, o, 0) = e
      BY BuiltSteps
    <2> HIDE DEF e
    <2>2. Laid(e)
      BY <2>1 DEF Laid, AllGathered
    <2> QED BY <2>1, <2>2
  <1>2. ASSUME NEW k \in Nat, k \in T PROVE k + 1 \in T
    <2>1. SUFFICES ASSUME k + 1 <= n PROVE Laid(Built(in, o, k + 1))
      OBVIOUS
    <2>2. Laid(Built(in, o, k)) /\ k + 1 \in 1 .. n
      BY <1>2, <2>1
    <2>3. Alone(in[o[k + 1]])
      BY <2>2 DEF Reporting
    <2>4. Built(in, o, k + 1) = Join(Built(in, o, k), in[o[k + 1]])
      BY BuiltSteps
    <2> QED BY <2>2, <2>3, <2>4, JoinLaid
  <1> HIDE DEF T
  <1>3. n \in T
    BY <1>1, <1>2, Induct
  <1> QED BY <1>3 DEF T

\* A run without one of its findings.
Without(o, j, n) == [k \in 1 .. n - 1 |-> IF k < j THEN o[k] ELSE o[k + 1]]

AllBut(v, o, j, n) ==
    /\ \A k \in 1 .. n - 1 : \E i \in 1 .. n : i # j /\ v[k] = o[i]
    /\ \A i \in 1 .. n : i # j => \E k \in 1 .. n - 1 : v[k] = o[i]

LEMMA WithoutOne ==
  ASSUME NEW in, NEW o, NEW n \in Nat, InLine(in, o, n), NEW j \in 1 .. n, NEW v, v = Without(o, j, n)
  PROVE  InLine(in, v, n - 1) /\ AllBut(v, o, j, n)
  <1> DEFINE at == [k \in 1 .. n - 1 |-> IF k < j THEN k ELSE k + 1]
  <1>1. \A k \in 1 .. n - 1 : at[k] \in 1 .. n /\ at[k] # j /\ v[k] = o[at[k]]
    BY DEF Without
  <1>2. \A k, l \in 1 .. n - 1 : k < l => at[k] < at[l]
    OBVIOUS
  <1>3. ASSUME NEW i \in 1 .. n, i # j PROVE \E k \in 1 .. n - 1 : at[k] = i
    <2>1. CASE i < j
      <3>1. i \in 1 .. n - 1 /\ at[i] = i
        BY <2>1
      <3> QED BY <3>1
    <2>2. CASE j < i
      <3>1. i - 1 \in 1 .. n - 1 /\ at[i - 1] = i
        BY <2>2
      <3> QED BY <3>1
    <2> QED BY <1>3, <2>1, <2>2
  <1> HIDE DEF at
  <1>4. InLine(in, v, n - 1)
    BY <1>1, <1>2 DEF InLine
  <1>5. \A k \in 1 .. n - 1 : \E i \in 1 .. n : i # j /\ v[k] = o[i]
    BY <1>1
  <1>6. \A i \in 1 .. n : i # j => \E k \in 1 .. n - 1 : v[k] = o[i]
    BY <1>1, <1>3
  <1> QED BY <1>4, <1>5, <1>6 DEF AllBut

\* ... and with another in its place, at the end.
Ending(v, x, n) == [k \in 1 .. n |-> IF k = n THEN x ELSE v[k]]

LEMMA EndingLine ==
  ASSUME NEW in, NEW n \in Nat, n > 0, NEW v, InLine(in, v, n - 1), NEW x \in DOMAIN in,
         \A k \in 1 .. n - 1 : v[k] # x /\ ~Ahead(in[x], in[v[k]])
  PROVE  LET z == Ending(v, x, n) IN InLine(in, z, n) /\ z[n] = x /\ \A k \in 1 .. n - 1 : z[k] = v[k]
  <1> DEFINE z == Ending(v, x, n)
  <1>1. z[n] = x /\ \A k \in 1 .. n - 1 : z[k] = v[k]
    BY DEF Ending
  <1>2. \A k \in 1 .. n : k = n \/ k \in 1 .. n - 1
    OBVIOUS
  <1> HIDE DEF z
  <1>3. \A k \in 1 .. n : z[k] \in DOMAIN in
    BY <1>1, <1>2 DEF InLine
  <1>4. ASSUME NEW j \in 1 .. n, NEW k \in 1 .. n, j < k PROVE z[j] # z[k] /\ ~Ahead(in[z[k]], in[z[j]])
    <2>1. j \in 1 .. n - 1
      BY <1>4
    <2>2. CASE k = n
      BY <1>1, <2>1, <2>2
    <2>3. CASE k \in 1 .. n - 1
      BY <1>1, <1>4, <2>1, <2>3 DEF InLine
    <2> QED BY <1>2, <2>2, <2>3
  <1>5. InLine(in, z, n)
    BY <1>3, <1>4 DEF InLine
  <1> QED BY <1>1, <1>5 DEF z

\* Whichever of two runs in line it is, the clusters are alike: what is last in one is
\* tied with what is last in the other, and may change places with it.
LEMMA RunsAlike ==
  ASSUME NEW in, Reporting(in), NEW m \in Nat, NEW o1, NEW w1,
         InLine(in, o1, m), InLine(in, w1, m), Within(o1, w1, m), Within(w1, o1, m)
  PROVE  Alike(Built(in, o1, m), Built(in, w1, m))
  <1> DEFINE T == {n \in Nat : \A o, w : InLine(in, o, n) /\ InLine(in, w, n) /\ Within(o, w, n) /\ Within(w, o, n)
                                            => Alike(Built(in, o, n), Built(in, w, n))}
  <1>1. 0 \in T
    <2>1. ASSUME NEW o, NEW w PROVE Alike(Built(in, o, 0), Built(in, w, 0))
      <3> DEFINE e == <<>>
      <3>1. Built(in, o, 0) = e /\ Built(in, w, 0) = e /\ DOMAIN e = {}
        BY BuiltSteps
      <3> HIDE DEF e
      <3>2. Matched(e, e)
        BY <3>1 DEF Matched
      <3> QED BY <3>1, <3>2, MatchedAlike
    <2> QED BY <2>1
  <1>2. ASSUME NEW n \in Nat, n \in T PROVE n + 1 \in T
    <2>1. SUFFICES ASSUME NEW o, NEW w, InLine(in, o, n + 1), InLine(in, w, n + 1), Within(o, w, n + 1), Within(w, o, n + 1)
                   PROVE  Alike(Built(in, o, n + 1), Built(in, w, n + 1))
      OBVIOUS
    <2> DEFINE x == o[n + 1]
               y == w[n + 1]
    <2>2. \A a, b : InLine(in, a, n) /\ InLine(in, b, n) /\ Within(a, b, n) /\ Within(b, a, n)
                        => Alike(Built(in, a, n), Built(in, b, n))
      BY <1>2
    <2> HIDE DEF T
    <2>3. /\ n + 1 \in 1 .. n + 1 /\ x \in DOMAIN in /\ y \in DOMAIN in /\ Alone(in[x]) /\ Alone(in[y])
          /\ \A k \in 1 .. n : k \in 1 .. n + 1 /\ k < n + 1
          /\ \A k \in 1 .. n + 1 : k = n + 1 \/ k \in 1 .. n
      <3>1. n + 1 \in 1 .. n + 1
        OBVIOUS
      <3> QED BY <2>1, <3>1 DEF InLine, Reporting
    <2>4. InLine(in, o, n) /\ InLine(in, w, n)
      BY <2>1, <2>3 DEF InLine
    <2>5. /\ \A k \in 1 .. n : o[k] # x /\ ~Ahead(in[x], in[o[k]])
          /\ \A k \in 1 .. n : w[k] # y /\ ~Ahead(in[y], in[w[k]])
      BY <2>1, <2>3 DEF InLine
    <2>6. /\ Built(in, o, n + 1) = Join(Built(in, o, n), in[x])
          /\ Built(in, w, n + 1) = Join(Built(in, w, n), in[y])
      BY BuiltSteps
    <2>7. Laid(Built(in, o, n)) /\ Laid(Built(in, w, n))
      BY <2>4, BuiltLaid DEF InLine
    <2>8. CASE x = y
      <3>1. Within(o, w, n)
        <4>1. SUFFICES ASSUME NEW k \in 1 .. n PROVE \E j \in 1 .. n : o[k] = w[j]
          BY DEF Within
        <4>2. PICK j \in 1 .. n + 1 : o[k] = w[j]
          BY <2>1, <2>3 DEF Within
        <4>3. j # n + 1
          BY <2>5, <2>8, <4>2
        <4> QED BY <2>3, <4>2, <4>3
      <3>2. Within(w, o, n)
        <4>1. SUFFICES ASSUME NEW k \in 1 .. n PROVE \E j \in 1 .. n : w[k] = o[j]
          BY DEF Within
        <4>2. PICK j \in 1 .. n + 1 : w[k] = o[j]
          BY <2>1, <2>3 DEF Within
        <4>3. j # n + 1
          BY <2>5, <2>8, <4>2
        <4> QED BY <2>3, <4>2, <4>3
      <3>3. Alike(Built(in, o, n), Built(in, w, n))
        BY <2>2, <2>4, <3>1, <3>2
      <3> QED BY <2>3, <2>6, <2>7, <2>8, <3>3, JoinAlike
    <2>9. CASE x # y
      <3>1. PICK j \in 1 .. n : o[j] = y
        <4>1. PICK i \in 1 .. n + 1 : y = o[i]
          BY <2>1, <2>3 DEF Within
        <4>2. i # n + 1
          BY <2>9, <4>1
        <4> QED BY <2>3, <4>1, <4>2
      <3>2. PICK h \in 1 .. n : w[h] = x
        <4>1. PICK i \in 1 .. n + 1 : x = w[i]
          BY <2>1, <2>3 DEF Within
        <4>2. i # n + 1
          BY <2>9, <4>1
        <4> QED BY <2>3, <4>1, <4>2
      <3>3. n > 0 /\ n - 1 \in Nat /\ (n - 1) + 1 = n /\ \A k \in 1 .. n : k = n \/ k \in 1 .. n - 1
        BY <3>1
      <3>4. \A i, k \in 1 .. n : o[i] = o[k] => i = k
        <4>1. \A i, k \in 1 .. n : i < k => o[i] # o[k]
          BY <2>4 DEF InLine
        <4>2. \A i, k \in 1 .. n : i < k \/ k < i \/ i = k
          OBVIOUS
        <4> QED BY <4>1, <4>2
      <3> DEFINE v == Without(o, j, n)
                 a == Ending(v, y, n)
                 b == Ending(v, x, n)
      <3>5. /\ InLine(in, v, n - 1)
            /\ \A k \in 1 .. n - 1 : \E i \in 1 .. n : i # j /\ v[k] = o[i]
            /\ \A i \in 1 .. n : i # j => \E k \in 1 .. n - 1 : v[k] = o[i]
        <4>1. InLine(in, o, n) /\ n \in Nat /\ j \in 1 .. n /\ v = Without(o, j, n)
          BY <2>4
        <4> HIDE DEF v
        <4>2. InLine(in, v, n - 1) /\ AllBut(v, o, j, n)
          BY ONLY <4>1, WithoutOne
        <4> QED BY <4>2 DEF AllBut
      <3> HIDE DEF v
      <3>6. \A k \in 1 .. n - 1 : v[k] # y /\ ~Ahead(in[y], in[v[k]])
        <4>1. SUFFICES ASSUME NEW k \in 1 .. n - 1 PROVE v[k] # y /\ ~Ahead(in[y], in[v[k]])
          OBVIOUS
        <4>2. PICK i \in 1 .. n : i # j /\ v[k] = o[i]
          BY <3>5
        <4>3. v[k] # y
          BY <3>1, <3>4, <4>2
        <4>4. PICK l \in 1 .. n + 1 : o[i] = w[l]
          BY <2>1, <2>3 DEF Within
        <4>5. l \in 1 .. n
          BY <2>3, <4>2, <4>3, <4>4
        <4> QED BY <2>5, <4>2, <4>3, <4>4, <4>5
      <3>7. \A k \in 1 .. n - 1 : v[k] # x /\ ~Ahead(in[x], in[v[k]])
        BY <2>5, <3>5
      <3>8. InLine(in, a, n) /\ a[n] = y /\ \A k \in 1 .. n - 1 : a[k] = v[k]
        BY <2>3, <3>3, <3>5, <3>6, EndingLine
      <3>9. InLine(in, b, n) /\ b[n] = x /\ \A k \in 1 .. n - 1 : b[k] = v[k]
        BY <2>3, <3>3, <3>5, <3>7, EndingLine
      <3> HIDE DEF a, b
      <3>10. Within(o, a, n) /\ Within(a, o, n)
        <4>1. ASSUME NEW k \in 1 .. n PROVE \E l \in 1 .. n : o[k] = a[l]
          <5>1. CASE k = j
            BY <3>1, <3>3, <3>8, <5>1
          <5>2. CASE k # j
            <6>1. PICK l \in 1 .. n - 1 : v[l] = o[k]
              BY <3>5, <5>2
            <6>2. l \in 1 .. n
              BY <3>3
            <6> QED BY <3>8, <6>1, <6>2
          <5> QED BY <5>1, <5>2
        <4>2. ASSUME NEW k \in 1 .. n PROVE \E l \in 1 .. n : a[k] = o[l]
          <5>1. CASE k = n
            BY <3>1, <3>8, <5>1
          <5>2. CASE k \in 1 .. n - 1
            BY <3>5, <3>8, <5>2
          <5> QED BY <3>3, <5>1, <5>2
        <4> QED BY <4>1, <4>2 DEF Within
      <3>11. Within(b, w, n) /\ Within(w, b, n)
        <4>1. ASSUME NEW k \in 1 .. n PROVE \E l \in 1 .. n : b[k] = w[l]
          <5>1. CASE k = n
            BY <3>2, <3>9, <5>1
          <5>2. CASE k \in 1 .. n - 1
            <6>1. PICK i \in 1 .. n : v[k] = o[i]
              BY <3>5, <5>2
            <6>2. PICK l \in 1 .. n + 1 : o[i] = w[l]
              BY <2>1, <2>3 DEF Within
            <6>3. v[k] # y
              BY <3>6, <5>2
            <6>4. l \in 1 .. n
              BY <2>3, <6>1, <6>2, <6>3
            <6> QED BY <3>9, <5>2, <6>1, <6>2, <6>4
          <5> QED BY <3>3, <5>1, <5>2
        <4>2. ASSUME NEW l \in 1 .. n PROVE \E k \in 1 .. n : w[l] = b[k]
          <5>1. PICK i \in 1 .. n + 1 : w[l] = o[i]
            BY <2>1, <2>3 DEF Within
          <5>2. CASE i = n + 1
            <6>1. n \in 1 .. n
              BY <3>3
            <6> QED BY <3>9, <5>1, <5>2, <6>1
          <5>3. CASE i \in 1 .. n
            <6>1. i # j
              BY <2>5, <3>1, <5>1
            <6>2. PICK k \in 1 .. n - 1 : v[k] = o[i]
              BY <3>5, <5>3, <6>1
            <6>3. k \in 1 .. n
              BY <3>3
            <6> QED BY <3>9, <5>1, <6>2, <6>3
          <5> QED BY <2>3, <5>2, <5>3
        <4> QED BY <4>1, <4>2 DEF Within
      <3>12. Alike(Built(in, o, n), Built(in, a, n)) /\ Alike(Built(in, b, n), Built(in, w, n))
        BY <2>2, <2>4, <3>8, <3>9, <3>10, <3>11
      <3>13. Tied(in[y], in[x])
        <4>1. ~Ahead(in[x], in[y]) /\ ~Ahead(in[y], in[x])
          BY <2>5, <3>1, <3>2
        <4> QED BY <2>3, <4>1, AheadOrders
      <3> DEFINE c == Built(in, v, n - 1)
      <3>14. Built(in, a, n - 1) = c /\ Built(in, b, n - 1) = c
        BY <3>3, <3>8, <3>9, BuiltSame
      <3>15. Built(in, a, n) = Join(c, in[y]) /\ Built(in, b, n) = Join(c, in[x])
        <4>1. /\ Built(in, a, (n - 1) + 1) = Join(Built(in, a, n - 1), in[a[(n - 1) + 1]])
              /\ Built(in, b, (n - 1) + 1) = Join(Built(in, b, n - 1), in[b[(n - 1) + 1]])
          BY <3>3, BuiltSteps
        <4> HIDE DEF c
        <4> QED BY <3>3, <3>8, <3>9, <3>14, <4>1
      <3>16. Laid(c) /\ Laid(Built(in, a, n)) /\ Laid(Built(in, b, n))
        <4>1. (\A k \in 1 .. n - 1 : v[k] \in DOMAIN in) /\ (\A k \in 1 .. n : a[k] \in DOMAIN in /\ b[k] \in DOMAIN in)
          BY <3>5, <3>8, <3>9 DEF InLine
        <4> QED BY <3>3, <4>1, BuiltLaid
      <3> HIDE DEF c
      <3> DEFINE p == Join(Built(in, a, n), in[x])
                 q == Join(Built(in, b, n), in[y])
      <3>17. Alike(Join(Built(in, o, n), in[x]), p)
        BY <2>3, <2>7, <3>12, <3>16, JoinAlike
      <3>18. Alike(p, q)
        BY <2>3, <3>13, <3>15, <3>16, SwapAlike
      <3>19. Alike(q, Join(Built(in, w, n), in[y]))
        BY <2>3, <2>7, <3>12, <3>16, JoinAlike
      <3>20. Laid(p) /\ Laid(q) /\ Laid(Join(Built(in, o, n), in[x])) /\ Laid(Join(Built(in, w, n), in[y]))
        BY <2>3, <2>7, <3>16, JoinLaid
      <3> HIDE DEF p, q
      <3>21. Alike(Join(Built(in, o, n), in[x]), q)
        BY <3>17, <3>18, <3>20, AlikeTrans
      <3>22. Alike(Join(Built(in, o, n), in[x]), Join(Built(in, w, n), in[y]))
        BY <3>19, <3>20, <3>21, AlikeTrans
      <3> QED BY <2>6, <3>22
    <2> QED BY <2>8, <2>9
  <1> HIDE DEF T
  <1>3. m \in T
    BY <1>1, <1>2, Induct
  <1> QED BY <1>3 DEF T

(***************************************************************************)
(* There is an order, whatever the findings.                               *)
(***************************************************************************)

LEMMA BeforeOrders ==
  ASSUME NEW in, Reporting(in), DOMAIN in \subseteq Nat, NEW i \in DOMAIN in, NEW j \in DOMAIN in, NEW k \in DOMAIN in
  PROVE  /\ ~Before(in, i, i)
         /\ i = j \/ Before(in, i, j) \/ Before(in, j, i)
         /\ Before(in, i, j) /\ Before(in, j, k) => Before(in, i, k)
  <1>1. \A a, b \in {i, j, k} : Before(in, a, b) <=> Ahead(in[a], in[b]) \/ (Tied(in[a], in[b]) /\ a < b)
    BY BeforeIs DEF Reporting
  <1>2. \A a, b, c \in {i, j, k} :
            LET f == in[a]  g == in[b]  h == in[c] IN
            /\ ~Ahead(f, f)
            /\ ~(Ahead(f, g) /\ Ahead(g, f))
            /\ Ahead(f, g) /\ Ahead(g, h) => Ahead(f, h)
            /\ ~Ahead(f, g) /\ ~Ahead(g, h) => ~Ahead(f, h)
            /\ ~Ahead(f, g) /\ ~Ahead(g, f) <=> Tied(f, g)
    BY AheadOrders DEF Reporting
  <1>3. i \in Nat /\ j \in Nat /\ k \in Nat
    OBVIOUS
  <1>4. i = j \/ i < j \/ j < i
    BY <1>3
  <1>5. i < j /\ j < k => i < k
    BY <1>3
  <1>6. ~(i < i)
    BY <1>3
  <1> QED BY <1>1, <1>2, <1>4, <1>5, <1>6

Row(in, o, m) ==
    /\ o \in [1 .. m -> 1 .. m]
    /\ \A y \in 1 .. m : \E i \in 1 .. m : o[i] = y
    /\ \A i, j \in 1 .. m : i < j => Before(in, o[i], o[j])

LEMMA RowGrows ==
  ASSUME NEW in, Reporting(in), NEW n \in Nat, DOMAIN in = 1 .. n, NEW m \in Nat, m + 1 <= n, NEW o, Row(in, o, m)
  PROVE  \E z : Row(in, z, m + 1)
  <1> DEFINE x == m + 1
             S == {i \in 1 .. m + 1 : i = m + 1 \/ Before(in, x, o[i])}
             k == Min(S)
             z == [i \in 1 .. m + 1 |-> IF i < k THEN o[i] ELSE IF i = k THEN x ELSE o[i - 1]]
  <1>1. /\ o \in [1 .. m -> 1 .. m] /\ \A y \in 1 .. m : \E i \in 1 .. m : o[i] = y
        /\ \A i, j \in 1 .. m : i < j => Before(in, o[i], o[j])
    BY DEF Row
  <1>2. x \in DOMAIN in /\ \A i \in 1 .. m : o[i] \in DOMAIN in /\ o[i] # x
    BY <1>1
  <1>3. DOMAIN in \subseteq Nat
    OBVIOUS
  <1>4. m + 1 \in S /\ S \subseteq 1 .. m + 1 /\ \A i \in S : i \in Nat
    OBVIOUS
  <1>5. \A i \in 1 .. m : i \in S <=> Before(in, x, o[i])
    OBVIOUS
  <1> HIDE DEF S
  <1>6. k \in S /\ \A i \in S : k <= i
    BY <1>4, LeastExists
  <1> HIDE DEF k
  <1>7. k \in 1 .. m + 1
    BY <1>4, <1>6
  <1>8. /\ \A i \in 1 .. m + 1 : i < k => i \in 1 .. m /\ z[i] = o[i]
        /\ z[k] = x
        /\ \A i \in 1 .. m + 1 : k < i => i - 1 \in 1 .. m /\ z[i] = o[i - 1]
    BY <1>7
  <1>9. z \in [1 .. m + 1 -> 1 .. m + 1]
    <2>1. \A i \in 1 .. m : o[i] \in 1 .. m + 1
      BY <1>1
    <2>2. ASSUME NEW i \in 1 .. m + 1 PROVE z[i] \in 1 .. m + 1
      <3>1. i < k \/ i = k \/ k < i
        BY <1>7
      <3>2. x \in 1 .. m + 1
        OBVIOUS
      <3> HIDE DEF z, x
      <3> QED BY <1>8, <2>1, <3>1, <3>2
    <2> QED BY <2>2
  <1> HIDE DEF z
  <1>10. ASSUME NEW y \in 1 .. m + 1 PROVE \E i \in 1 .. m + 1 : z[i] = y
    <2>1. CASE y = m + 1
      BY <1>7, <1>8, <2>1 DEF x
    <2>2. CASE y \in 1 .. m
      <3>1. PICK i \in 1 .. m : o[i] = y
        BY <1>1, <2>2
      <3>2. CASE i < k
        <4>1. i \in 1 .. m + 1
          OBVIOUS
        <4> QED BY <1>8, <3>1, <3>2, <4>1
      <3>3. CASE k <= i
        <4>1. i + 1 \in 1 .. m + 1 /\ k < i + 1 /\ (i + 1) - 1 = i
          BY <1>7, <3>3
        <4>2. z[i + 1] = o[i]
          BY <1>8, <4>1
        <4> QED BY <3>1, <4>1, <4>2
      <3> QED BY <1>7, <3>2, <3>3
    <2> QED BY <2>1, <2>2
  <1>11. ASSUME NEW i \in 1 .. m + 1, NEW j \in 1 .. m + 1, i < j PROVE Before(in, z[i], z[j])
    <2>1. CASE j < k
      <3>1. i < k
        BY <1>7, <1>11, <2>1
      <3> QED BY <1>1, <1>8, <1>11, <2>1, <3>1
    <2>2. CASE j = k
      <3>1. i \in 1 .. m /\ z[i] = o[i] /\ z[j] = x
        BY <1>8, <1>11, <2>2
      <3>2. i \notin S
        BY <1>6, <1>7, <1>11, <2>2
      <3>3. ~Before(in, x, o[i])
        BY <1>5, <3>1, <3>2
      <3> HIDE DEF x
      <3> QED BY <1>2, <1>3, <3>1, <3>3, BeforeOrders
    <2>3. CASE i < k /\ k < j
      <3>1. i \in 1 .. m /\ z[i] = o[i] /\ j - 1 \in 1 .. m /\ z[j] = o[j - 1] /\ i < j - 1
        BY <1>7, <1>8, <2>3
      <3> QED BY <1>1, <3>1
    <2>4. CASE i = k
      <3>1. z[i] = x /\ j - 1 \in 1 .. m /\ z[j] = o[j - 1] /\ k \in 1 .. m /\ (k = j - 1 \/ k < j - 1)
        BY <1>7, <1>8, <1>11, <2>4
      <3>2. Before(in, x, o[k])
        BY <1>5, <1>6, <3>1
      <3>3. k = j - 1 \/ Before(in, o[k], o[j - 1])
        BY <1>1, <3>1
      <3> HIDE DEF x
      <3> QED BY <1>2, <1>3, <3>1, <3>2, <3>3, BeforeOrders
    <2>5. CASE k < i
      <3>1. z[i] = o[i - 1] /\ z[j] = o[j - 1] /\ i - 1 \in 1 .. m /\ j - 1 \in 1 .. m /\ i - 1 < j - 1
        BY <1>7, <1>8, <1>11, <2>5
      <3> QED BY <1>1, <3>1
    <2> QED BY <1>7, <1>11, <2>1, <2>2, <2>3, <2>4, <2>5
  <1>12. Row(in, z, m + 1)
    BY <1>9, <1>10, <1>11 DEF Row
  <1> QED BY <1>12

LEMMA SortedExists ==
  ASSUME NEW in, Reporting(in)
  PROVE  \E o : o \in Sorted(in)
  <1>1. Len(in) \in Nat /\ DOMAIN in = 1 .. Len(in)
    BY DEF Reporting
  <1> DEFINE T == {m \in Nat : m <= Len(in) => \E o : Row(in, o, m)}
  <1>2. 0 \in T
    <2> DEFINE e == [i \in 1 .. 0 |-> 0]
    <2>1. Row(in, e, 0)
      BY DEF Row
    <2> QED BY <2>1
  <1>3. ASSUME NEW m \in Nat, m \in T PROVE m + 1 \in T
    <2>1. SUFFICES ASSUME m + 1 <= Len(in) PROVE \E o : Row(in, o, m + 1)
      OBVIOUS
    <2>2. PICK o : Row(in, o, m)
      BY <1>1, <1>3, <2>1
    <2> QED BY <1>1, <2>1, <2>2, RowGrows
  <1> HIDE DEF T
  <1>4. Len(in) \in T
    BY <1>1, <1>2, <1>3, Induct
  <1>5. PICK o : Row(in, o, Len(in))
    BY <1>1, <1>4 DEF T
  <1>6. /\ o \in [DOMAIN in -> DOMAIN in] /\ \A y \in DOMAIN in : \E i \in DOMAIN in : o[i] = y
        /\ \A i, j \in DOMAIN in : i < j => Before(in, o[i], o[j])
    BY <1>1, <1>5 DEF Row
  <1>7. \A i, j \in DOMAIN in : o[i] = o[j] => i = j
    <2>1. SUFFICES ASSUME NEW i \in DOMAIN in, NEW j \in DOMAIN in, o[i] = o[j], i < j PROVE FALSE
      <3>1. \A i, j \in DOMAIN in : i < j \/ j < i \/ i = j
        BY <1>1
      <3> QED BY <3>1
    <2>2. Before(in, o[i], o[i]) /\ o[i] \in DOMAIN in /\ DOMAIN in \subseteq Nat
      BY <1>1, <1>6, <2>1
    <2> QED BY <2>2, BeforeOrders
  <1>8. o \in Sorted(in)
    BY <1>6, <1>7 DEF Sorted, Bijection, Injection, Surjection, IsInjective
  <1> QED BY <1>8

(***************************************************************************)
(* So the order in which they come does not matter.                        *)
(***************************************************************************)

LEMMA SortedInLine ==
  ASSUME NEW in, Reporting(in), NEW o \in Sorted(in)
  PROVE  /\ InLine(in, o, Len(in)) /\ o \in [DOMAIN in -> DOMAIN in]
         /\ \A y \in DOMAIN in : \E i \in DOMAIN in : o[i] = y
  <1>1. Len(in) \in Nat /\ DOMAIN in = 1 .. Len(in)
    BY DEF Reporting
  <1>2. /\ o \in [DOMAIN in -> DOMAIN in] /\ \A y \in DOMAIN in : \E i \in DOMAIN in : o[i] = y
        /\ \A i, j \in DOMAIN in : i < j => Before(in, o[i], o[j])
    BY DEF Sorted, Bijection, Injection, Surjection
  <1>3. ASSUME NEW i \in DOMAIN in, NEW j \in DOMAIN in, i < j PROVE o[i] # o[j] /\ ~Ahead(in[o[j]], in[o[i]])
    <2>1. o[i] \in DOMAIN in /\ o[j] \in DOMAIN in /\ Before(in, o[i], o[j])
      BY <1>2, <1>3
    <2>2. Alone(in[o[i]]) /\ Alone(in[o[j]])
      BY <2>1 DEF Reporting
    <2>3. o[i] # o[j]
      <3>1. DOMAIN in \subseteq Nat
        BY <1>1
      <3> QED BY <2>1, <3>1, BeforeOrders
    <2>4. Ahead(in[o[i]], in[o[j]]) \/ Tied(in[o[i]], in[o[j]])
      BY <2>1, <2>2, BeforeIs
    <2> QED BY <2>2, <2>3, <2>4, AheadOrders
  <1> QED BY <1>1, <1>2, <1>3 DEF InLine

LEMMA SameOutcome ==
  ASSUME NEW in, Reporting(in), NEW p \in Bijection(DOMAIN in, DOMAIN in)
  PROVE  Outcomes([i \in DOMAIN in |-> in[p[i]]]) = Outcomes(in)
  <1> DEFINE on == [i \in DOMAIN in |-> in[p[i]]]
             n == Len(in)
  <1>1. n \in Nat /\ DOMAIN in = 1 .. n
    BY DEF Reporting
  <1>2. /\ p \in [DOMAIN in -> DOMAIN in] /\ \A y \in DOMAIN in : \E i \in DOMAIN in : p[i] = y
        /\ \A i, j \in DOMAIN in : p[i] = p[j] => i = j
    BY DEF Bijection, Injection, Surjection, IsInjective
  <1>3. DOMAIN on = DOMAIN in /\ \A i \in DOMAIN in : on[i] = in[p[i]] /\ Alone(on[i])
    BY <1>2 DEF Reporting
  <1>4. on \in Seq(Image(on)) /\ Len(on) = n
    <2>1. on = [i \in 1 .. n |-> on[i]]
      BY <1>1
    <2> HIDE DEF on, n
    <2>2. \A i \in 1 .. n : on[i] \in Image(on)
      BY <1>1, <1>3 DEF Image
    <2>3. on \in Seq(Image(on))
      BY <1>1, <2>1, <2>2, IsASeq
    <2>4. DOMAIN on = 1 .. n /\ Len(on) \in Nat /\ DOMAIN on = 1 .. Len(on)
      BY <1>1, <1>3, <2>3
    <2> QED BY <1>1, <2>3, <2>4
  <1> HIDE DEF on, n
  <1>5. Reporting(on)
    BY <1>3, <1>4 DEF Reporting
  <1>6. ASSUME NEW o \in Sorted(in), NEW w \in Sorted(on) PROVE Shape(Clusters(in, o)) = Shape(Clusters(on, w))
    <2>1. InLine(in, o, n) /\ o \in [DOMAIN in -> DOMAIN in] /\ \A y \in DOMAIN in : \E i \in DOMAIN in : o[i] = y
      BY SortedInLine DEF n
    <2>2. InLine(on, w, n) /\ w \in [DOMAIN in -> DOMAIN in] /\ \A y \in DOMAIN in : \E i \in DOMAIN in : w[i] = y
      <3>1. /\ InLine(on, w, Len(on)) /\ w \in [DOMAIN on -> DOMAIN on]
            /\ \A y \in DOMAIN on : \E i \in DOMAIN on : w[i] = y
        BY <1>5, SortedInLine
      <3> QED BY <1>3, <1>4, <3>1
    <2> DEFINE q == [i \in DOMAIN in |-> p[w[i]]]
    <2>3. \A i \in DOMAIN in : q[i] = p[w[i]] /\ q[i] \in DOMAIN in /\ in[q[i]] = on[w[i]] /\ w[i] \in DOMAIN in
      BY <1>2, <1>3, <2>2
    <2> HIDE DEF q
    <2>4. InLine(in, q, n)
      <3>1. \A j, k \in 1 .. n : j < k => w[j] # w[k] /\ ~Ahead(on[w[k]], on[w[j]])
        BY <2>2 DEF InLine
      <3>2. \A j, k \in 1 .. n : j < k => q[j] # q[k] /\ ~Ahead(in[q[k]], in[q[j]])
        <4>1. SUFFICES ASSUME NEW j \in DOMAIN in, NEW k \in DOMAIN in, j < k
                       PROVE  q[j] # q[k] /\ ~Ahead(in[q[k]], in[q[j]])
          BY <1>1
        <4>2. w[j] # w[k] /\ ~Ahead(on[w[k]], on[w[j]])
          BY <1>1, <3>1, <4>1
        <4>3. p[w[j]] # p[w[k]]
          BY <1>2, <2>3, <4>2
        <4> QED BY <2>3, <4>2, <4>3
      <3> QED BY <1>1, <2>3, <3>2 DEF InLine
    <2>5. Within(o, q, n)
      <3>1. SUFFICES ASSUME NEW k \in DOMAIN in PROVE \E j \in DOMAIN in : o[k] = q[j]
        BY <1>1 DEF Within
      <3>2. PICK i \in DOMAIN in : p[i] = o[k]
        BY <1>2, <2>1
      <3>3. PICK j \in DOMAIN in : w[j] = i
        BY <2>2
      <3> QED BY <2>3, <3>2, <3>3
    <2>6. Within(q, o, n)
      BY <1>1, <2>1, <2>3 DEF Within
    <2>7. Alike(Built(in, o, n), Built(in, q, n))
      BY <1>1, <2>1, <2>4, <2>5, <2>6, RunsAlike
    <2>8. Built(in, q, n) = Built(on, w, n)
      BY <1>1, <2>3, BuiltSame
    <2>9. Clusters(in, o) = Built(in, o, n) /\ Clusters(on, w) = Built(on, w, n)
      BY <1>4, ClustersBuilt DEF n
    <2> QED BY <2>7, <2>8, <2>9, AlikeShape
  <1>7. PICK o : o \in Sorted(in)
    BY SortedExists
  <1>8. PICK w : w \in Sorted(on)
    BY <1>5, SortedExists
  <1>9. Outcomes(in) = {Shape(Clusters(in, u)) : u \in Sorted(in)}
    BY DEF Outcomes
  <1>10. Outcomes(on) = {Shape(Clusters(on, u)) : u \in Sorted(on)}
    BY DEF Outcomes
  <1>11. Outcomes(on) = Outcomes(in)
    <2>1. ASSUME NEW s \in Outcomes(on) PROVE s \in Outcomes(in)
      <3>1. PICK u \in Sorted(on) : s = Shape(Clusters(on, u))
        BY <1>10
      <3>2. s = Shape(Clusters(in, o))
        BY <1>6, <1>7, <3>1
      <3> QED BY <1>7, <1>9, <3>2
    <2>2. ASSUME NEW s \in Outcomes(in) PROVE s \in Outcomes(on)
      <3>1. PICK u \in Sorted(in) : s = Shape(Clusters(in, u))
        BY <1>9
      <3>2. s = Shape(Clusters(on, w))
        BY <1>6, <1>8, <3>1
      <3> QED BY <1>8, <1>10, <3>2
    <2> QED BY <2>1, <2>2
  <1> QED BY <1>11 DEF on

\* For any reviewers, findings and wordings: however the reviewers' findings come, the same
\* of them share a cluster, and it is as severe.
THEOREM OrderIsIndifferent == VerdictSpec => []OrderDoesNotMatter
  <1>1. VerdictInv => OrderDoesNotMatter
    <2>1. SUFFICES ASSUME VerdictInv, stage = "cluster", NEW p \in Bijection(DOMAIN fs, DOMAIN fs)
                   PROVE  Outcomes([i \in DOMAIN fs |-> fs[p[i]]]) = Outcomes(fs)
      BY DEF OrderDoesNotMatter
    <2>2. Reporting(fs)
      BY <2>1 DEF VerdictInv, EarlyStages, Reporting
    <2> QED BY <2>2, SameOutcome
  <1> QED BY <1>1, VerdictHolds, PTL

(***************************************************************************)
(* The trace.  Each pass against its entry in the catalogue.               *)
(***************************************************************************)

Regular == setting.ablated \cap {"cycle-rejected", "region-rejected"} = {}

LEMMA Accounted ==
  ASSUME NEW pass, NEW f, NEW ground, NEW g, pass \in setting.ablated => MayBeSwitchedOff(pass, f.sev),
         ground # "none" => MaySpare(pass, ground, f.sev), ground = "none" => MayLower(pass, f.sev, g.sev)
  PROVE  Recordable(pass, f, ground, g)
  BY DEF Recordable

\* The passes that say "not here", "not so" or "decided before".
LEMMA SilencingNoted ==
  ASSUME NEW pass \in {"self-refutation", "redaction", "scope.diff", "scope.delta", "scope.session", "fp-signature",
                       "fp-cluster", "test-security"},
         NEW f, Blocking(f), NEW g, g.sev = "INFO", NEW ground,
         ground # "none" => <<ground, f.sev>> \in EntryOf(pass).grounds
  PROVE  Recordable(pass, f, ground, g)
  <1>1. EntryOf(pass).changes = Silenced
    BY DEF EntryOf, CatalogEntry, SelfRefutationEntry, RedactionEntry, ScopeDiffEntry, ScopeDeltaEntry, ScopeSessionEntry,
           FpSignatureEntry, FpClusterEntry, TestSecurityEntry
  <1>2. <<f.sev, "INFO">> \in Silenced /\ <<f.sev, "INFO">>[1] = f.sev
    BY DEF Blocking, Silenced, Blockers
  <1> QED BY <1>1, <1>2, Accounted DEF MayBeSwitchedOff, MaySpare, MayLower

\* Those that say "not so bad" of a CRITICAL only.
LEMMA SofteningNoted ==
  ASSUME NEW pass \in {"hypothetical", "grounding-token", "grounding-llm", "docs-cap"},
         NEW f, f.sev = "CRITICAL", NEW g, g.sev = "WARN", NEW ground, ground \in {"none", "security-correctness-floor"}
  PROVE  Recordable(pass, f, ground, g)
  <1>1. EntryOf(pass).changes = Softened
    BY DEF EntryOf, CatalogEntry, HypotheticalEntry, GroundingEntry, DocsCapEntry
  <1>2. <<f.sev, "WARN">> \in Softened /\ <<f.sev, "WARN">>[1] = f.sev
    BY DEF Softened
  <1>3. <<"security-correctness-floor", f.sev>> \in EntryOf(pass).grounds
    BY DEF EntryOf, CatalogEntry, HypotheticalEntry, GroundingEntry, DocsCapEntry
  <1> QED BY <1>1, <1>2, <1>3, Accounted DEF MayBeSwitchedOff, MaySpare, MayLower

\* Those that take one step down.
LEMMA SteppingNoted ==
  ASSUME NEW pass \in {"confidence", "reputation"}, NEW f, Blocking(f), NEW g,
         NEW ground, ground # "none" => <<ground, f.sev>> \in EntryOf(pass).grounds,
         ground = "none" => g.sev = IF f.sev = "CRITICAL" THEN "WARN" ELSE "INFO"
  PROVE  Recordable(pass, f, ground, g)
  <1>1. EntryOf(pass).changes = OneStep
    BY DEF EntryOf, CatalogEntry, ConfidenceEntry, ReputationEntry
  <1>2. \E t \in OneStep : t[1] = f.sev
    <2>1. <<"CRITICAL", "WARN">> \in OneStep /\ <<"CRITICAL", "WARN">>[1] = "CRITICAL"
      BY DEF OneStep
    <2>2. <<"WARN", "INFO">> \in OneStep /\ <<"WARN", "INFO">>[1] = "WARN"
      BY DEF OneStep
    <2> QED BY <2>1, <2>2 DEF Blocking
  <1>3. ground = "none" => <<f.sev, g.sev>> \in OneStep
    BY DEF Blocking, OneStep
  <1> QED BY <1>1, <1>2, <1>3, Accounted DEF MayBeSwitchedOff, MaySpare, MayLower

\* Those that are never to lower a CRITICAL.
LEMMA SparingNoted ==
  ASSUME Regular, NEW pass \in {"cycle-rejected", "region-rejected"}, NEW f, Blocking(f), NEW g, g.sev = "INFO",
         NEW ground, ground # "none" => <<ground, f.sev>> \in EntryOf(pass).grounds, ground = "none" => f.sev = "WARN"
  PROVE  Recordable(pass, f, ground, g)
  <1>1. EntryOf(pass).changes = {<<"WARN", "INFO">>} /\ pass \notin setting.ablated
    BY DEF EntryOf, CatalogEntry, CycleRejectedEntry, RegionEntry, Regular
  <1> QED BY <1>1, Accounted DEF MaySpare, MayLower

\* What a pass leaves of a finding: its name, its members, and a severity of which a
\* review can give account.
Sane(f) == DOMAIN f = Names /\ f.sev \in Severities /\ (f.sev = "dropped" => "critic" \in f.effects)
Follows(f, g) == Sane(g) /\ g.sig = f.sig /\ g.members = f.members

LEMMA LoweredFollows ==
  ASSUME NEW f, DOMAIN f = Names, NEW sev \in Reportable, NEW pass
  PROVE  Follows(f, Lowered(f, sev, pass)) /\ Lowered(f, sev, pass).sev = sev
  <1>1. PICK g : g = Lowered(f, sev, pass)
    OBVIOUS
  <1>2. DOMAIN g = Names /\ g.sev = sev /\ g.members = f.members /\ g.sig = f.sig
    BY <1>1, LoweredFields
  <1> QED BY <1>1, <1>2 DEF Follows, Sane, Reportable, Severities

LEMMA ToWarnFollows ==
  ASSUME NEW f, DOMAIN f = Names, NEW pass
  PROVE  Follows(f, ToWarn(f, pass)) /\ ToWarn(f, pass).sev = "WARN"
  <1>1. PICK g : g = ToWarn(f, pass)
    OBVIOUS
  <1>2. DOMAIN g = Names /\ g.sev = "WARN" /\ g.members = f.members /\ g.sig = f.sig
    BY <1>1, ToWarnFields
  <1> QED BY <1>1, <1>2 DEF Follows, Sane, Severities

LEMMA ToInfoFollows ==
  ASSUME NEW f, DOMAIN f = Names, NEW pass
  PROVE  Follows(f, ToInfo(f, pass)) /\ ToInfo(f, pass).sev = "INFO"
  BY LoweredFollows DEF ToInfo, Reportable

LEMMA StepFollows ==
  ASSUME NEW f, DOMAIN f = Names, Blocking(f), ~AtFloor(f), NEW pass
  PROVE  /\ Follows(f, DemoteOneStep(f, pass))
         /\ DemoteOneStep(f, pass).sev = IF f.sev = "CRITICAL" THEN "WARN" ELSE "INFO"
  <1>1. CASE f.sev = "CRITICAL"
    BY <1>1, ToWarnFollows DEF DemoteOneStep
  <1>2. CASE f.sev = "WARN" /\ ~f.from
    <2>1. DemoteOneStep(f, pass) = Lowered(f, "INFO", pass)
      BY <1>2 DEF DemoteOneStep
    <2> QED BY <1>2, <2>1, LoweredFollows DEF Reportable
  <1> QED BY <1>1, <1>2 DEF Blocking, AtFloor

\* Before the clusters, every pass does what its entry allows.
LEMMA EarlyNoted ==
  ASSUME \A i \in DOMAIN fs : Alone(fs[i]), EarlyStep
  PROVE  telemetryError' => telemetryError
  <1>0. \A i \in DOMAIN fs : DOMAIN fs[i] = Names /\ fs[i].sev \in Reportable
    BY DEF Alone
  <1>g. ASSUME NEW i \in DOMAIN fs PROVE HighStakesGround(fs[i]) \in {"none", "security-correctness-floor"}
    BY DEF HighStakesGround
  <1>1. CASE FactCheck
    <2>1. PICK gone \in SUBSET DOMAIN fs : \E found \in [gone -> Lines \cup {None}] :
              telemetryError' = (telemetryError \/ \E i \in DOMAIN fs : i \in gone /\ ~Recordable("fact-location", fs[i],
                  "none", IF found[i] # None THEN [fs[i] EXCEPT !.line = found[i]] ELSE ToInfo(fs[i], "fact-location")))
      BY <1>1 DEF FactCheck, Pass
    <2>2. PICK found \in [gone -> Lines \cup {None}] :
              telemetryError' = (telemetryError \/ \E i \in DOMAIN fs : i \in gone /\ ~Recordable("fact-location", fs[i],
                  "none", IF found[i] # None THEN [fs[i] EXCEPT !.line = found[i]] ELSE ToInfo(fs[i], "fact-location")))
      BY <2>1
    <2>3. ASSUME NEW i \in DOMAIN fs
          PROVE  Recordable("fact-location", fs[i], "none",
                            IF found[i] # None THEN [fs[i] EXCEPT !.line = found[i]] ELSE ToInfo(fs[i], "fact-location"))
      <3> DEFINE f == fs[i]
                 l == [f EXCEPT !.line = found[i]]
                 g == IF found[i] # None THEN l ELSE ToInfo(f, "fact-location")
      <3>1. DOMAIN f = Names /\ f.sev \in Shown
        BY <1>0 DEF Reportable, Shown
      <3>2. l.sev = f.sev
        <4> HIDE DEF f
        <4> QED BY <3>1 DEF Names
      <3> HIDE DEF f, l
      <3>3. ToInfo(f, "fact-location").sev = "INFO"
        BY <3>1, ToInfoFollows
      <3>4. g.sev \in {f.sev, "INFO"}
        BY <3>2, <3>3
      <3> HIDE DEF g
      <3>5. <<f.sev, g.sev>> \in EntryOf("fact-location").changes
        BY <3>1, <3>4 DEF EntryOf, FactLocationEntry, CatalogEntry
      <3>6. <<f.sev, g.sev>>[1] = f.sev
        OBVIOUS
      <3>7. Recordable("fact-location", f, "none", g)
        BY <3>5, <3>6, Accounted DEF MayBeSwitchedOff, MayLower
      <3> QED BY <3>7 DEF f, g, l
    <2> QED BY <2>2, <2>3
  <1>2. CASE SelfRefute
    <2>1. PICK says \in SUBSET DOMAIN fs : telemetryError' = (telemetryError \/ \E i \in DOMAIN fs :
              (Blocking(fs[i]) /\ i \in says) /\ ~Recordable("self-refutation", fs[i], HighStakesGround(fs[i]),
                                                             [ToInfo(fs[i], "self-refutation") EXCEPT !.refuted = TRUE]))
      BY <1>2 DEF SelfRefute, Pass
    <2>2. ASSUME NEW i \in DOMAIN fs, Blocking(fs[i])
          PROVE  Recordable("self-refutation", fs[i], HighStakesGround(fs[i]),
                            [ToInfo(fs[i], "self-refutation") EXCEPT !.refuted = TRUE])
      <3> DEFINE g == ToInfo(fs[i], "self-refutation")
                 h == [g EXCEPT !.refuted = TRUE]
      <3>1. g.sev = "INFO" /\ DOMAIN g = Names
        BY <1>0, ToInfoFollows DEF Follows, Sane
      <3> HIDE DEF g
      <3>2. h.sev = "INFO"
        BY <3>1 DEF Names
      <3> HIDE DEF h
      <3>3. <<"security-correctness-floor", fs[i].sev>> \in EntryOf("self-refutation").grounds
        BY <2>2 DEF Blocking, EntryOf, SelfRefutationEntry, CatalogEntry, Blockers
      <3>4. Recordable("self-refutation", fs[i], HighStakesGround(fs[i]), h)
        BY <1>g, <2>2, <3>2, <3>3, SilencingNoted
      <3> QED BY <3>4 DEF g, h
    <2> QED BY <2>1, <2>2
  <1>3. CASE Hypothetical
    <2>1. PICK says \in SUBSET DOMAIN fs : telemetryError' = (telemetryError \/ \E i \in DOMAIN fs :
              (fs[i].sev = "CRITICAL" /\ i \in says)
              /\ ~Recordable("hypothetical", fs[i], HighStakesGround(fs[i]), ToWarn(fs[i], "hypothetical")))
      BY <1>3 DEF Hypothetical, Pass
    <2>2. ASSUME NEW i \in DOMAIN fs, fs[i].sev = "CRITICAL"
          PROVE  Recordable("hypothetical", fs[i], HighStakesGround(fs[i]), ToWarn(fs[i], "hypothetical"))
      BY <1>0, <1>g, <2>2, ToWarnFollows, SofteningNoted
    <2> QED BY <2>1, <2>2
  <1>4. CASE GroundTokens
    <2>1. PICK absent \in SUBSET DOMAIN fs : telemetryError' = (telemetryError \/ \E i \in DOMAIN fs :
              (fs[i].sev = "CRITICAL" /\ i \in absent)
              /\ ~Recordable("grounding-token", fs[i], HighStakesGround(fs[i]), ToWarn(fs[i], "grounding")))
      BY <1>4 DEF GroundTokens, Pass
    <2>2. ASSUME NEW i \in DOMAIN fs, fs[i].sev = "CRITICAL"
          PROVE  Recordable("grounding-token", fs[i], HighStakesGround(fs[i]), ToWarn(fs[i], "grounding"))
      BY <1>0, <1>g, <2>2, ToWarnFollows, SofteningNoted
    <2> QED BY <2>1, <2>2
  <1>5. CASE JudgeGrounding
    <2>1. PICK unfounded \in SUBSET AllSigs : telemetryError' = (telemetryError \/ \E i \in DOMAIN fs :
              (fs[i].sev = "CRITICAL" /\ fs[i].sig \in unfounded)
              /\ ~Recordable("grounding-llm", fs[i], HighStakesGround(fs[i]), ToWarn(fs[i], "grounding")))
      BY <1>5 DEF JudgeGrounding, Pass
    <2>2. ASSUME NEW i \in DOMAIN fs, fs[i].sev = "CRITICAL"
          PROVE  Recordable("grounding-llm", fs[i], HighStakesGround(fs[i]), ToWarn(fs[i], "grounding"))
      BY <1>0, <1>g, <2>2, ToWarnFollows, SofteningNoted
    <2> QED BY <2>1, <2>2
  <1>6. CASE DemoteRedaction
    <2> DEFINE Why(f, b) == IF f.cat = "security" THEN "security-correctness-floor"
                            ELSE IF b THEN "secret-evidence-backstop" ELSE "none"
    <2>1. PICK names \in SUBSET DOMAIN fs : \E leads \in SUBSET names :
              telemetryError' = (telemetryError \/ \E i \in DOMAIN fs : (Blocking(fs[i]) /\ i \in names)
                  /\ ~Recordable("redaction", fs[i], Why(fs[i], i \in leads), ToInfo(fs[i], "redaction")))
      BY <1>6 DEF DemoteRedaction, Pass
    <2>2. \A f, b : Why(f, b) \in {"none", "security-correctness-floor", "secret-evidence-backstop"}
      OBVIOUS
    <2>3. ASSUME NEW i \in DOMAIN fs, Blocking(fs[i]),
                 NEW ground \in {"none", "security-correctness-floor", "secret-evidence-backstop"}
          PROVE  Recordable("redaction", fs[i], ground, ToInfo(fs[i], "redaction"))
      <3>1. ground # "none" => <<ground, fs[i].sev>> \in EntryOf("redaction").grounds
        BY <2>3 DEF Blocking, EntryOf, RedactionEntry, CatalogEntry, Blockers
      <3> QED BY <1>0, <2>3, <3>1, ToInfoFollows, SilencingNoted
    <2> HIDE DEF Why
    <2> QED BY <2>1, <2>2, <2>3
  <1> QED BY <1>1, <1>2, <1>3, <1>4, <1>5, <1>6 DEF EarlyStep

\* A cluster as it is judged by the critic.
Fresh(f) == DOMAIN f = Names /\ f.sev \in Reportable /\ (f.refuted => f.sev = "INFO")

Traced ==
    /\ DOMAIN fs' = DOMAIN fs /\ \A i \in DOMAIN fs : Follows(fs[i], fs'[i])
    /\ telemetryError' => telemetryError

LEMMA CriticNoted ==
  ASSUME NEW f, Fresh(f)
  PROVE  /\ Recordable("critic", f, CriticGround(f), DemoteOneStep(f, "critic"))
         /\ CriticGround(f) = "none" => Follows(f, DemoteOneStep(f, "critic"))
  <1> DEFINE g == DemoteOneStep(f, "critic")
  <1>1. \E t \in CriticEntry.changes : t[1] = f.sev
    <2>1. /\ <<"CRITICAL", "WARN">>[1] = "CRITICAL" /\ <<"WARN", "INFO">>[1] = "WARN" /\ <<"INFO", "dropped">>[1] = "INFO"
          /\ {<<"CRITICAL", "WARN">>, <<"WARN", "INFO">>, <<"INFO", "dropped">>} \subseteq CriticEntry.changes
      BY DEF CriticEntry, CatalogEntry, OneStep
    <2> QED BY <2>1 DEF Fresh, Reportable
  <1>2. CriticGround(f) # "none" => <<CriticGround(f), f.sev>> \in CriticEntry.grounds
    <2>1. CriticEntry.grounds = ({"claimed-fixed-pin", "corroborated-unanimous", "corroborated-majority"} \X Shown)
                                \cup ({"high-precision-reviewer"} \X Blockers)
                                \cup {<<"self-refutation-visibility", "INFO">>, <<"critical-floor", "WARN">>,
                                      <<"security-correctness-floor", "CRITICAL">>}
      BY DEF CriticEntry, CatalogEntry
    <2>2. f.sev \in Shown
      BY DEF Fresh, Reportable, Shown
    <2>3. CASE f.recurred
      BY <2>1, <2>2, <2>3 DEF CriticGround
    <2>4. CASE ~f.recurred /\ f.refuted
      BY <2>1, <2>4 DEF CriticGround, Fresh
    <2>5. CASE ~f.recurred /\ ~f.refuted /\ AtFloor(f)
      BY <2>1, <2>5 DEF CriticGround, AtFloor
    <2>6. CASE ~f.recurred /\ ~f.refuted /\ ~AtFloor(f)
      <3>1. \/ CriticGround(f) = "security-correctness-floor" /\ f.sev = "CRITICAL"
            \/ CriticGround(f) \in {"corroborated-unanimous", "corroborated-majority", "none"}
            \/ CriticGround(f) = "high-precision-reviewer" /\ f.sev \in Blockers
        BY <2>6 DEF CriticGround, IsProtected, Blocking, Blockers
      <3> QED BY <2>1, <2>2, <3>1
    <2> QED BY <2>3, <2>4, <2>5, <2>6
  <1>3. CriticGround(f) = "none" => ~AtFloor(f)
    BY DEF CriticGround
  <1>4. CriticGround(f) = "none" => Follows(f, g) /\ <<f.sev, g.sev>> \in CriticEntry.changes
    <2>1. SUFFICES ASSUME CriticGround(f) = "none" PROVE Follows(f, g) /\ <<f.sev, g.sev>> \in CriticEntry.changes
      OBVIOUS
    <2>2. CASE Blocking(f)
      <3>1. Follows(f, g) /\ g.sev = IF f.sev = "CRITICAL" THEN "WARN" ELSE "INFO"
        BY <1>3, <2>1, <2>2, StepFollows DEF Fresh
      <3> HIDE DEF g
      <3> QED BY <2>2, <3>1 DEF Blocking, CriticEntry, CatalogEntry, OneStep
    <2>3. CASE f.sev = "INFO"
      <3>1. g = Lowered(f, "dropped", "critic")
        BY <2>3 DEF DemoteOneStep, Blocking
      <3> HIDE DEF g
      <3>2. DOMAIN g = Names /\ g.sev = "dropped" /\ "critic" \in g.effects /\ g.members = f.members /\ g.sig = f.sig
        BY <3>1, LoweredFields DEF Fresh
      <3> QED BY <2>3, <3>2 DEF Follows, Sane, Severities, CriticEntry, CatalogEntry
    <2> QED BY <2>2, <2>3 DEF Fresh, Reportable, Blocking
  <1>5. EntryOf("critic") = CriticEntry
    BY DEF EntryOf
  <1> QED BY <1>1, <1>2, <1>4, <1>5, Accounted DEF MayBeSwitchedOff, MaySpare, MayLower

LEMMA CriticTraced ==
  ASSUME \A i \in DOMAIN fs : Fresh(fs[i]), Critic
  PROVE  Traced
  <1>1. PICK fp \in SUBSET AllSigs :
          /\ fs' = [i \in DOMAIN fs |-> Transition("critic", fs[i], Sigs(fs[i]) \cap fp # {}, CriticGround(fs[i]),
                                                   DemoteOneStep(fs[i], "critic"))]
          /\ telemetryError' = (telemetryError \/ \E i \in DOMAIN fs : Sigs(fs[i]) \cap fp # {}
                /\ ~Recordable("critic", fs[i], CriticGround(fs[i]), DemoteOneStep(fs[i], "critic")))
    BY DEF Critic, Pass
  <1>2. ASSUME NEW i \in DOMAIN fs PROVE Follows(fs[i], fs[i])
    BY DEF Fresh, Follows, Sane, Reportable, Severities
  <1> QED BY <1>1, <1>2, CriticNoted DEF Traced, Transition

\* Scope.
LEMMA ScopesTraced ==
  ASSUME \A i \in DOMAIN fs : Sane(fs[i]), ScopeStep \/ TestSecurity
  PROVE  Traced
  <1>1. ASSUME NEW i \in DOMAIN fs, NEW pass PROVE Follows(fs[i], fs[i]) /\ Follows(fs[i], ToInfo(fs[i], pass))
    BY ToInfoFollows DEF Follows, Sane
  <1>2. ASSUME NEW i \in DOMAIN fs, Blocking(fs[i]), NEW pass \in {"scope.diff", "scope.delta", "scope.session", "test-security"},
               NEW ground, ground # "none" => <<ground, fs[i].sev>> \in EntryOf(pass).grounds
        PROVE  Recordable(pass, fs[i], ground, ToInfo(fs[i], pass))
    BY <1>2, ToInfoFollows, SilencingNoted DEF Sane
  <1>3. CASE ScopeDiff
    <2> DEFINE Why(f, gone) ==
                  IF f.file \in gone /\ setting.class[f.file] = "harness" THEN "none" ELSE HatchGround(f)
    <2>1. PICK absent \in SUBSET Files : \E beyond \in SUBSET DOMAIN fs :
            /\ fs' = [i \in DOMAIN fs |->
                  Transition("scope.diff", fs[i], Blocking(fs[i]) /\ (fs[i].file \in absent \/ i \in beyond),
                             Why(fs[i], absent), ToInfo(fs[i], "scope.diff"))]
            /\ telemetryError' = (telemetryError \/ \E i \in DOMAIN fs :
                  (Blocking(fs[i]) /\ (fs[i].file \in absent \/ i \in beyond))
                  /\ ~Recordable("scope.diff", fs[i], Why(fs[i], absent), ToInfo(fs[i], "scope.diff")))
      BY <1>3 DEF ScopeDiff, Pass
    <2>2. \A f, gone : Why(f, gone) \in {"none", "out-of-diff-blocking-hatch"}
      BY DEF HatchGround
    <2>3. ASSUME NEW i \in DOMAIN fs, Blocking(fs[i]), NEW ground \in {"none", "out-of-diff-blocking-hatch"}
          PROVE  Recordable("scope.diff", fs[i], ground, ToInfo(fs[i], "scope.diff"))
      <3>1. ground # "none" => <<ground, fs[i].sev>> \in EntryOf("scope.diff").grounds
        BY <2>3 DEF EntryOf, ScopeDiffEntry, CatalogEntry, Blocking, Blockers
      <3> QED BY <1>2, <2>3, <3>1
    <2> HIDE DEF Why
    <2>4. telemetryError' => telemetryError
      BY <2>1, <2>2, <2>3
    <2>5. DOMAIN fs' = DOMAIN fs /\ \A i \in DOMAIN fs : fs'[i] = fs[i] \/ fs'[i] = ToInfo(fs[i], "scope.diff")
      BY <2>1 DEF Transition
    <2> QED BY <1>1, <2>4, <2>5 DEF Traced
  <1>4. CASE ScopeDelta
    <2>1. PICK changed \in SUBSET Files :
            /\ fs' = [i \in DOMAIN fs |-> Transition("scope.delta", fs[i], Blocking(fs[i]) /\ fs[i].file \notin changed,
                                                     DeltaGround(fs[i]), ToInfo(fs[i], "scope.delta"))]
            /\ telemetryError' = (telemetryError \/ \E i \in DOMAIN fs : (Blocking(fs[i]) /\ fs[i].file \notin changed)
                  /\ ~Recordable("scope.delta", fs[i], DeltaGround(fs[i]), ToInfo(fs[i], "scope.delta")))
      BY <1>4 DEF ScopeDelta, Pass
    <2>2. ASSUME NEW i \in DOMAIN fs, Blocking(fs[i])
          PROVE  Recordable("scope.delta", fs[i], DeltaGround(fs[i]), ToInfo(fs[i], "scope.delta"))
      <3>1. DeltaGround(fs[i]) # "none" => <<DeltaGround(fs[i]), fs[i].sev>> \in EntryOf("scope.delta").grounds
        BY <2>2 DEF DeltaGround, HatchGround, EntryOf, ScopeDeltaEntry, CatalogEntry, Blocking, Blockers
      <3> QED BY <1>2, <2>2, <3>1
    <2> QED BY <1>1, <2>1, <2>2 DEF Traced, Transition
  <1>5. CASE ScopeSession
    <2>1. PICK foreign \in SUBSET Files :
            /\ fs' = [i \in DOMAIN fs |-> Transition("scope.session", fs[i], Blocking(fs[i]) /\ fs[i].file \in foreign,
                                                     HatchGround(fs[i]), ToInfo(fs[i], "scope.session"))]
            /\ telemetryError' = (telemetryError \/ \E i \in DOMAIN fs : (Blocking(fs[i]) /\ fs[i].file \in foreign)
                  /\ ~Recordable("scope.session", fs[i], HatchGround(fs[i]), ToInfo(fs[i], "scope.session")))
      BY <1>5 DEF ScopeSession, Pass
    <2>2. ASSUME NEW i \in DOMAIN fs, Blocking(fs[i])
          PROVE  Recordable("scope.session", fs[i], HatchGround(fs[i]), ToInfo(fs[i], "scope.session"))
      <3>1. HatchGround(fs[i]) # "none" => <<HatchGround(fs[i]), fs[i].sev>> \in EntryOf("scope.session").grounds
        BY <2>2 DEF HatchGround, EntryOf, ScopeSessionEntry, CatalogEntry, Blocking, Blockers
      <3> QED BY <1>2, <2>2, <3>1
    <2> QED BY <1>1, <2>1, <2>2 DEF Traced, Transition
  <1>6. CASE TestSecurity
    <2> DEFINE Why(f) == IF \E m \in f.members : m.cat # "security" THEN "mixed-category-cluster" ELSE "none"
               Hit(f) == setting.testSecurity /\ Blocking(f) /\ setting.class[f.file] = "tests" /\ f.cat = "security"
    <2>1. /\ fs' = [i \in DOMAIN fs |->
                Transition("test-security", fs[i], Hit(fs[i]), Why(fs[i]), ToInfo(fs[i], "test-security"))]
          /\ telemetryError' = (telemetryError \/ \E i \in DOMAIN fs :
                Hit(fs[i]) /\ ~Recordable("test-security", fs[i], Why(fs[i]), ToInfo(fs[i], "test-security")))
      BY <1>6 DEF TestSecurity, Pass
    <2>2. ASSUME NEW i \in DOMAIN fs, Hit(fs[i])
          PROVE  Recordable("test-security", fs[i], Why(fs[i]), ToInfo(fs[i], "test-security"))
      <3>1. Why(fs[i]) # "none" => <<Why(fs[i]), fs[i].sev>> \in EntryOf("test-security").grounds
        BY <2>2 DEF EntryOf, TestSecurityEntry, CatalogEntry, Blocking, Blockers
      <3> HIDE DEF Why
      <3> QED BY <1>2, <2>2, <3>1
    <2> HIDE DEF Why, Hit
    <2> QED BY <1>1, <2>1, <2>2 DEF Traced, Transition
  <1> QED BY <1>3, <1>4, <1>5, <1>6 DEF ScopeStep

\* Earlier decisions.
LEMMA RecordsTraced ==
  ASSUME Regular, \A i \in DOMAIN fs : Sane(fs[i]), RecordStep
  PROVE  Traced
  <1>1. ASSUME NEW i \in DOMAIN fs, NEW pass
        PROVE  Follows(fs[i], fs[i]) /\ Follows(fs[i], ToInfo(fs[i], pass)) /\ ToInfo(fs[i], pass).sev = "INFO"
    BY ToInfoFollows DEF Follows, Sane
  <1>2. CASE SuppressFp
    <2> DEFINE G(f, active) == [ToInfo(f, "fp-signature") EXCEPT !.hit = Sigs(f) \cap active]
    <2>1. PICK active \in SUBSET AllSigs :
            /\ fs' = [i \in DOMAIN fs |-> Transition("fp-signature", fs[i], Blocking(fs[i]) /\ Sigs(fs[i]) \cap active # {},
                                                     "none", G(fs[i], active))]
            /\ telemetryError' = (telemetryError \/ \E i \in DOMAIN fs : (Blocking(fs[i]) /\ Sigs(fs[i]) \cap active # {})
                  /\ ~Recordable("fp-signature", fs[i], "none", G(fs[i], active)))
      BY <1>2 DEF SuppressFp, Pass
    <2>2. ASSUME NEW i \in DOMAIN fs PROVE Follows(fs[i], G(fs[i], active)) /\ G(fs[i], active).sev = "INFO"
      <3> DEFINE g == ToInfo(fs[i], "fp-signature")
                 hits == Sigs(fs[i]) \cap active
                 h == [g EXCEPT !.hit = hits]
      <3>1. Follows(fs[i], g) /\ g.sev = "INFO"
        BY <1>1
      <3> HIDE DEF g, hits
      <3>2. /\ DOMAIN h = Names /\ h.sev = g.sev /\ h.sig = g.sig /\ h.members = g.members
        BY <3>1 DEF Follows, Sane, Names
      <3> HIDE DEF h
      <3>3. Follows(fs[i], h) /\ h.sev = "INFO"
        BY <3>1, <3>2 DEF Follows, Sane
      <3> QED BY <3>3 DEF g, hits, h
    <2> HIDE DEF G
    <2>3. ASSUME NEW i \in DOMAIN fs, Blocking(fs[i])
          PROVE  Recordable("fp-signature", fs[i], "none", G(fs[i], active))
      BY <2>2, <2>3, SilencingNoted
    <2> QED BY <1>1, <2>1, <2>2, <2>3 DEF Traced, Transition
  <1>3. CASE SuppressRejected
    <2>1. /\ fs' = [i \in DOMAIN fs |->
                Transition("cycle-rejected", fs[i], Blocking(fs[i]) /\ Sigs(fs[i]) \cap memory.rejected # {},
                           CycleGround(fs[i]), ToInfo(fs[i], "cycle-rejected"))]
          /\ telemetryError' = (telemetryError \/ \E i \in DOMAIN fs :
                (Blocking(fs[i]) /\ Sigs(fs[i]) \cap memory.rejected # {})
                /\ ~Recordable("cycle-rejected", fs[i], CycleGround(fs[i]), ToInfo(fs[i], "cycle-rejected")))
      BY <1>3 DEF SuppressRejected, Pass
    <2>2. ASSUME NEW i \in DOMAIN fs, Blocking(fs[i])
          PROVE  Recordable("cycle-rejected", fs[i], CycleGround(fs[i]), ToInfo(fs[i], "cycle-rejected"))
      <3>1. CycleGround(fs[i]) # "none" => <<CycleGround(fs[i]), fs[i].sev>> \in EntryOf("cycle-rejected").grounds
        BY <2>2 DEF CycleGround, EntryOf, CycleRejectedEntry, CatalogEntry, Blocking, Blockers
      <3>2. CycleGround(fs[i]) = "none" => fs[i].sev = "WARN"
        BY <2>2 DEF CycleGround, Blocking
      <3> QED BY <1>1, <2>2, <3>1, <3>2, SparingNoted
    <2> QED BY <1>1, <2>1, <2>2 DEF Traced, Transition
  <1>4. CASE SuppressFpCluster
    <2>1. PICK known \in SUBSET DOMAIN fs :
            /\ fs' = [i \in DOMAIN fs |-> Transition("fp-cluster", fs[i], Blocking(fs[i]) /\ i \in known, "none",
                                                     ToInfo(fs[i], "fp-cluster"))]
            /\ telemetryError' = (telemetryError \/ \E i \in DOMAIN fs : (Blocking(fs[i]) /\ i \in known)
                  /\ ~Recordable("fp-cluster", fs[i], "none", ToInfo(fs[i], "fp-cluster")))
      BY <1>4 DEF SuppressFpCluster, Pass
    <2>2. ASSUME NEW i \in DOMAIN fs, Blocking(fs[i])
          PROVE  Recordable("fp-cluster", fs[i], "none", ToInfo(fs[i], "fp-cluster"))
      BY <1>1, <2>2, SilencingNoted
    <2> QED BY <1>1, <2>1, <2>2 DEF Traced, Transition
  <1>5. CASE SuppressRegion
    <2>1. PICK r \in Regions \cup {None} :
            /\ fs' = [i \in DOMAIN fs |->
                  Transition("region-rejected", fs[i], r # None /\ Blocking(fs[i]) /\ Near(r, fs[i]),
                             RegionGround(r, fs[i]), ToInfo(fs[i], "region-rejected"))]
            /\ telemetryError' = (telemetryError \/ \E i \in DOMAIN fs : (r # None /\ Blocking(fs[i]) /\ Near(r, fs[i]))
                  /\ ~Recordable("region-rejected", fs[i], RegionGround(r, fs[i]), ToInfo(fs[i], "region-rejected")))
      BY <1>5 DEF SuppressRegion, Pass
    <2>2. ASSUME NEW i \in DOMAIN fs, Blocking(fs[i])
          PROVE  Recordable("region-rejected", fs[i], RegionGround(r, fs[i]), ToInfo(fs[i], "region-rejected"))
      <3>1. RegionGround(r, fs[i]) \in {"claimed-fixed-pin", "insufficient-distinct-rejections", "category-change",
                                        "severity-increase", "critical-floor", "security-correctness-floor", "none"}
        BY DEF RegionGround
      <3>2. RegionGround(r, fs[i]) # "none" => <<RegionGround(r, fs[i]), fs[i].sev>> \in EntryOf("region-rejected").grounds
        BY <2>2, <3>1 DEF EntryOf, RegionEntry, CatalogEntry, Blocking, Blockers
      <3>3. RegionGround(r, fs[i]) = "none" => fs[i].sev = "WARN"
        BY <2>2 DEF RegionGround, Blocking
      <3> QED BY <1>1, <2>2, <3>2, <3>3, SparingNoted
    <2> QED BY <1>1, <2>1, <2>2 DEF Traced, Transition
  <1> QED BY <1>2, <1>3, <1>4, <1>5 DEF RecordStep

\* Judgments of value.
LEMMA JudgesTraced ==
  ASSUME \A i \in DOMAIN fs : Sane(fs[i]), Confidence \/ Reputation \/ CapDocs
  PROVE  Traced
  <1>1. ASSUME NEW i \in DOMAIN fs PROVE Follows(fs[i], fs[i])
    BY DEF Follows, Sane
  <1>2. CASE Confidence
    <2> DEFINE Hit(f) == Blocking(f) /\ ~Corroborated(f) /\ ~AtFloor(f)
               G(f) == IF f.sev = "CRITICAL" THEN ToWarn(f, "confidence") ELSE ToInfo(f, "confidence")
    <2>1. PICK unsure \in SUBSET DOMAIN fs :
            /\ fs' = [i \in DOMAIN fs |-> Transition("confidence", fs[i], Hit(fs[i]) /\ i \in unsure,
                                                     ConfidenceGround(fs[i]), G(fs[i]))]
            /\ telemetryError' = (telemetryError \/ \E i \in DOMAIN fs : (Hit(fs[i]) /\ i \in unsure)
                  /\ ~Recordable("confidence", fs[i], ConfidenceGround(fs[i]), G(fs[i])))
      BY <1>2 DEF Confidence, Pass
    <2>2. ASSUME NEW i \in DOMAIN fs, Hit(fs[i])
          PROVE  Recordable("confidence", fs[i], ConfidenceGround(fs[i]), G(fs[i])) /\ Follows(fs[i], G(fs[i]))
      <3>1. Follows(fs[i], G(fs[i])) /\ G(fs[i]).sev = IF fs[i].sev = "CRITICAL" THEN "WARN" ELSE "INFO"
        BY ToWarnFollows, ToInfoFollows DEF Sane
      <3> HIDE DEF G
      <3>2. ConfidenceGround(fs[i]) # "none" => <<ConfidenceGround(fs[i]), fs[i].sev>> \in EntryOf("confidence").grounds
        BY <2>2 DEF ConfidenceGround, EntryOf, ConfidenceEntry, CatalogEntry, Blocking, Blockers
      <3> QED BY <2>2, <3>1, <3>2, SteppingNoted
    <2> HIDE DEF G, Hit
    <2> QED BY <1>1, <2>1, <2>2 DEF Traced, Transition
  <1>3. CASE Reputation
    <2>1. PICK bad \in SUBSET UNION {fs[i].confirmed : i \in DOMAIN fs} :
            /\ fs' = [i \in DOMAIN fs |->
                  Transition("reputation", fs[i], Blocking(fs[i]) /\ ~Corroborated(fs[i]) /\ fs[i].confirmed \subseteq bad,
                             ReputationGround(fs[i]), DemoteOneStep(fs[i], "reputation"))]
            /\ telemetryError' = (telemetryError \/ \E i \in DOMAIN fs :
                  (Blocking(fs[i]) /\ ~Corroborated(fs[i]) /\ fs[i].confirmed \subseteq bad)
                  /\ ~Recordable("reputation", fs[i], ReputationGround(fs[i]), DemoteOneStep(fs[i], "reputation")))
      BY <1>3 DEF Reputation, Pass
    <2>2. ASSUME NEW i \in DOMAIN fs, Blocking(fs[i])
          PROVE  /\ Recordable("reputation", fs[i], ReputationGround(fs[i]), DemoteOneStep(fs[i], "reputation"))
                 /\ ReputationGround(fs[i]) = "none" => Follows(fs[i], DemoteOneStep(fs[i], "reputation"))
      <3>1. ReputationGround(fs[i]) \in {"claimed-fixed-pin", "security-floor", "correctness-demote-disabled",
                                         "critical-floor", "none"}
        BY DEF ReputationGround
      <3>2. ReputationGround(fs[i]) # "none" => <<ReputationGround(fs[i]), fs[i].sev>> \in EntryOf("reputation").grounds
        BY <2>2, <3>1 DEF EntryOf, ReputationEntry, CatalogEntry, Blocking, Blockers
      <3>3. ReputationGround(fs[i]) = "none" => ~AtFloor(fs[i])
        BY DEF ReputationGround
      <3> QED BY <2>2, <3>2, <3>3, StepFollows, SteppingNoted DEF Sane
    <2> QED BY <1>1, <2>1, <2>2 DEF Traced, Transition
  <1>4. CASE CapDocs
    <2> DEFINE Why(f) == IF TouchesHighStakes(f) THEN "security-correctness-floor" ELSE "none"
               Hit(f) == setting.capDocs /\ f.sev = "CRITICAL" /\ setting.class[f.file] = "docs"
    <2>1. /\ fs' = [i \in DOMAIN fs |->
                Transition("docs-cap", fs[i], Hit(fs[i]), Why(fs[i]), DemoteOneStep(fs[i], "docs-cap"))]
          /\ telemetryError' = (telemetryError \/ \E i \in DOMAIN fs :
                Hit(fs[i]) /\ ~Recordable("docs-cap", fs[i], Why(fs[i]), DemoteOneStep(fs[i], "docs-cap")))
      BY <1>4 DEF CapDocs, Pass
    <2>2. ASSUME NEW i \in DOMAIN fs, Hit(fs[i])
          PROVE  /\ Recordable("docs-cap", fs[i], Why(fs[i]), DemoteOneStep(fs[i], "docs-cap"))
                 /\ Follows(fs[i], DemoteOneStep(fs[i], "docs-cap"))
      <3>1. fs[i].sev = "CRITICAL" /\ Blocking(fs[i]) /\ ~AtFloor(fs[i]) /\ DOMAIN fs[i] = Names
        BY <2>2 DEF Blocking, AtFloor, Sane
      <3>2. Why(fs[i]) \in {"none", "security-correctness-floor"}
        OBVIOUS
      <3> HIDE DEF Why
      <3> QED BY <3>1, <3>2, StepFollows, SofteningNoted
    <2> HIDE DEF Why, Hit
    <2> QED BY <1>1, <2>1, <2>2 DEF Traced, Transition
  <1> QED BY <1>2, <1>3, <1>4

\* What passes leave of findings, when a trace is lost, and that it is lost for nothing else.
TraceInv ==
    Regular =>
        /\ stage \in EarlyStages => ~telemetryError
        /\ stage \in {"pin", "critic"} => \A i \in DOMAIN fs : Fresh(fs[i])
        /\ stage \in LateStages \ {"pin", "critic", "done"} => \A i \in DOMAIN fs : Sane(fs[i])
        /\ stage \in LateStages \ {"done"} => (telemetryError => LinksTwice(fs))
        /\ stage = "done" => (telemetryError <=> Doubled(fs))

LEMMA SigsFollow ==
  ASSUME NEW old, NEW new, DOMAIN new = DOMAIN old,
         \A i \in DOMAIN old : new[i].sig = old[i].sig /\ new[i].members = old[i].members
  PROVE  LinksTwice(old) => LinksTwice(new)
  <1>1. \A i \in DOMAIN old : Sigs(new[i]) = Sigs(old[i])
    BY DEF Sigs
  <1> QED BY <1>1 DEF LinksTwice

LEMMA TracedKeeps ==
  ASSUME Traced, LinksTwice(fs)
  PROVE  LinksTwice(fs')
  <1>1. PICK new : new = fs'
    OBVIOUS
  <1>2. DOMAIN new = DOMAIN fs /\ \A i \in DOMAIN fs : new[i].sig = fs[i].sig /\ new[i].members = fs[i].members
    BY <1>1 DEF Traced, Follows
  <1> QED BY <1>1, <1>2, SigsFollow

LEMMA ClusterTraced ==
  ASSUME VerdictInv, TraceInv, Cluster
  PROVE  TraceInv'
  <1>1. /\ stage = "cluster" /\ stage' = "pin" /\ setting' = setting
        /\ telemetryError' = (telemetryError \/ LinksTwice(fs'))
    BY DEF Cluster
  <1>2. fs \in Seq(Image(fs)) /\ \A i \in DOMAIN fs : Alone(fs[i])
    BY <1>1 DEF VerdictInv, EarlyStages
  <1>3. ASSUME NEW k \in DOMAIN fs' PROVE Fresh(fs'[k])
    <2>1. PICK c : Gathered(c) /\ fs'[k] = Representative(c)
      BY <1>2, ClusterKeeps
    <2>2. PICK r : r = Representative(c)
      OBVIOUS
    <2>3. DOMAIN r = Names /\ r.sev = c.sev /\ r.refuted = c.refuted
      BY <2>1, <2>2 DEF Representative, Gathered, Names
    <2> QED BY <2>1, <2>2, <2>3 DEF Fresh, Gathered
  <1>4. Regular => ~telemetryError
    BY <1>1 DEF TraceInv, EarlyStages
  <1> QED BY <1>1, <1>3, <1>4 DEF TraceInv, Regular, Fresh, EarlyStages, LateStages, Stages

LEMMA PinTraced ==
  ASSUME TraceInv, PinClaimedFixed
  PROVE  TraceInv'
  <1>1. /\ stage = "pin" /\ stage' = "critic" /\ setting' = setting /\ telemetryError' = telemetryError
        /\ fs' = [i \in DOMAIN fs |->
           [fs[i] EXCEPT !.recurred = Sigs(fs[i]) \cap memory.claimed # {} /\ Sigs(fs[i]) \cap memory.rejected = {}]]
    BY DEF PinClaimedFixed
  <1>2. SUFFICES ASSUME Regular PROVE TraceInv'
    BY <1>1 DEF TraceInv, Regular
  <1>3. ASSUME NEW i \in DOMAIN fs
        PROVE  Fresh(fs'[i]) /\ fs'[i].sig = fs[i].sig /\ fs'[i].members = fs[i].members
    <2>1. PICK f : f = fs[i]
      OBVIOUS
    <2>2. PICK b \in BOOLEAN : b = (Sigs(f) \cap memory.claimed # {} /\ Sigs(f) \cap memory.rejected = {})
      OBVIOUS
    <2>3. fs'[i] = [f EXCEPT !.recurred = b] /\ Fresh(f)
      BY <1>1, <1>2, <2>1, <2>2 DEF TraceInv
    <2>4. PICK g : g = [f EXCEPT !.recurred = b]
      OBVIOUS
    <2>5. DOMAIN g = Names /\ g.sev = f.sev /\ g.refuted = f.refuted /\ g.sig = f.sig /\ g.members = f.members
      BY <2>3, <2>4 DEF Fresh, Names
    <2> QED BY <2>1, <2>3, <2>4, <2>5 DEF Fresh
  <1>4. LinksTwice(fs) => LinksTwice(fs')
    <2>1. PICK new : new = fs'
      OBVIOUS
    <2>2. DOMAIN new = DOMAIN fs
      BY <1>1, <2>1
    <2> QED BY <1>3, <2>1, <2>2, SigsFollow
  <1>5. telemetryError => LinksTwice(fs)
    BY <1>1, <1>2 DEF TraceInv, EarlyStages, LateStages, Stages
  <1>6. \A i \in DOMAIN fs' : Fresh(fs'[i])
    BY <1>1, <1>3
  <1> QED BY <1>1, <1>4, <1>5, <1>6 DEF TraceInv, EarlyStages, LateStages, Stages

LEMMA LateTraced ==
  ASSUME TraceInv, LateStep
  PROVE  TraceInv'
  <1>1. /\ stage \in LateStages \ {"pin", "done"} /\ stage' \in LateStages \ {"pin", "critic", "done"} /\ setting' = setting
        /\ stage = "critic" <=> Critic
    BY DEF LateStep, JudgeStep, ScopeStep, RecordStep, Critic, ScopeDiff, ScopeDelta, ScopeSession, SuppressFp,
           SuppressRejected, SuppressFpCluster, Confidence, Reputation, SuppressRegion, TestSecurity, CapDocs, Pass,
           LateStages, EarlyStages, Stages
  <1>2. SUFFICES ASSUME Regular PROVE TraceInv'
    BY <1>1 DEF TraceInv, Regular
  <1>3. Traced
    <2>1. CASE Critic
      BY <1>1, <1>2, <2>1, CriticTraced DEF TraceInv
    <2>2. CASE ~Critic
      <3>1. \A i \in DOMAIN fs : Sane(fs[i])
        BY <1>1, <1>2, <2>2 DEF TraceInv
      <3> QED BY <1>2, <2>2, <3>1, ScopesTraced, RecordsTraced, JudgesTraced DEF LateStep, JudgeStep
    <2> QED BY <2>1, <2>2
  <1>4. LinksTwice(fs) => LinksTwice(fs')
    BY <1>3, TracedKeeps
  <1>5. telemetryError => LinksTwice(fs)
    BY <1>1, <1>2 DEF TraceInv
  <1>6. (telemetryError' => telemetryError) /\ \A i \in DOMAIN fs' : Sane(fs'[i])
    BY <1>3 DEF Traced, Follows
  <1>7. stage' \notin EarlyStages
    BY <1>1 DEF LateStages
  <1> QED BY <1>1, <1>4, <1>5, <1>6, <1>7 DEF TraceInv

\* The end: the verdict is as its reason says, and nothing is wrong but a doubled name.
LEMMA ComputeTraced ==
  ASSUME TraceInv, Compute
  PROVE  TraceInv'
  <1>1. /\ stage = "verdict" /\ stage' = "done" /\ setting' = setting /\ fs' = fs
        /\ telemetryError' = (telemetryError \/ ~Accepted(verdict'))
    BY DEF Compute
  <1>2. SUFFICES ASSUME Regular PROVE TraceInv'
    BY <1>1 DEF TraceInv, Regular
  <1>3. (telemetryError => LinksTwice(fs)) /\ \A i \in DOMAIN fs : Sane(fs[i])
    BY <1>1, <1>2 DEF TraceInv, EarlyStages, LateStages, Stages
  <1>4. LinksTwice(fs) => Doubled(fs)
    BY DEF LinksTwice, Doubled
  <1>5. verdict' = VerdictOf(Reason)
    <2>1. ASSUME NEW i \in DOMAIN fs PROVE HardCritical(fs[i]) \/ CorroboratedWarn(fs[i]) => FailsAlone(fs[i])
      BY DEF FailsAlone
    <2>2. CASE \E i \in DOMAIN fs : FailsAlone(fs[i])
      <3>1. verdict' = "FAIL"
        BY <2>2 DEF Compute
      <3>2. Reason \in {"hard-critical", "corroborated-warn", "claimed-fixed-recurrence"}
        BY <2>2 DEF Reason
      <3> QED BY <3>1, <3>2 DEF VerdictOf
    <2>3. CASE ~(\E i \in DOMAIN fs : FailsAlone(fs[i])) /\ \E i \in DOMAIN fs : Blocking(fs[i])
      <3>1. verdict' = "SOFT-PASS"
        BY <2>3 DEF Compute
      <3>2. Reason = "blocking-present"
        BY <2>1, <2>3 DEF Reason
      <3> QED BY <3>1, <3>2 DEF VerdictOf
    <2>4. CASE ~(\E i \in DOMAIN fs : FailsAlone(fs[i])) /\ ~(\E i \in DOMAIN fs : Blocking(fs[i]))
      <3>1. verdict' = "PASS"
        BY <2>4 DEF Compute
      <3>2. Reason = "no-blocking-findings"
        BY <2>1, <2>4 DEF Reason
      <3> QED BY <3>1, <3>2 DEF VerdictOf
    <2> QED BY <2>2, <2>3, <2>4
  <1>6. verdict' = "PASS" <=> \A i \in DOMAIN fs : ~Blocking(fs[i])
    <2>1. ASSUME NEW i \in DOMAIN fs, FailsAlone(fs[i]) PROVE Blocking(fs[i])
      BY <2>1 DEF FailsAlone, HardCritical, CorroboratedWarn, Blocking
    <2>2. CASE \E i \in DOMAIN fs : FailsAlone(fs[i])
      BY <2>1, <2>2 DEF Compute
    <2>3. CASE ~(\E i \in DOMAIN fs : FailsAlone(fs[i])) /\ \E i \in DOMAIN fs : Blocking(fs[i])
      BY <2>3 DEF Compute
    <2>4. CASE ~(\E i \in DOMAIN fs : FailsAlone(fs[i])) /\ ~(\E i \in DOMAIN fs : Blocking(fs[i]))
      BY <2>4 DEF Compute
    <2> QED BY <2>2, <2>3, <2>4
  <1>7. /\ Reason = "hard-critical" => \E i \in DOMAIN fs : fs[i].sev = "CRITICAL"
        /\ Reason = "corroborated-warn" => \E i \in DOMAIN fs : fs[i].sev = "WARN"
    BY DEF Reason, HardCritical, CorroboratedWarn
  <1>8. \A i \in DOMAIN fs : fs[i].sev = "dropped" => "critic" \in fs[i].effects
    BY <1>3 DEF Sane
  <1>9. Accepted(verdict') <=> ~Doubled(fs)
    BY <1>5, <1>6, <1>7, <1>8 DEF Accepted
  <1>10. telemetryError' <=> Doubled(fs')
    BY <1>1, <1>3, <1>4, <1>9
  <1> QED BY <1>1, <1>10 DEF TraceInv, EarlyStages, LateStages, Stages

LEMMA TraceSteps ==
  ASSUME VerdictInv, TraceInv, [VerdictNext]_findingVars
  PROVE  TraceInv'
  <1>1. CASE EarlyStep
    <2>1. stage \in EarlyStages /\ setting' = setting
      BY <1>1 DEF EarlyStep, FactCheck, SelfRefute, Hypothetical, GroundTokens, JudgeGrounding, DemoteRedaction, Pass, EarlyStages
    <2>2. \A i \in DOMAIN fs : Alone(fs[i])
      BY <2>1 DEF VerdictInv
    <2>3. stage' \in EarlyStages
      BY <1>1, <2>2, EarlyAlone
    <2>4. stage' \notin LateStages /\ stage' \notin {"pin", "critic", "done"}
      BY <2>3 DEF EarlyStages, LateStages
    <2>5. telemetryError' => telemetryError
      BY <1>1, <2>2, EarlyNoted
    <2> QED BY <2>1, <2>4, <2>5 DEF TraceInv, Regular
  <1>2. CASE Cluster
    BY <1>2, ClusterTraced
  <1>3. CASE PinClaimedFixed
    BY <1>3, PinTraced
  <1>4. CASE LateStep
    BY <1>4, LateTraced
  <1>5. CASE Compute
    BY <1>5, ComputeTraced
  <1>6. CASE UNCHANGED findingVars
    BY <1>6 DEF findingVars, TraceInv, Regular
  <1> QED BY <1>1, <1>2, <1>3, <1>4, <1>5, <1>6 DEF VerdictNext, EarlyStep, LateStep, JudgeStep, ScopeStep, RecordStep

\* For any reviewers, findings, memories and configurations: what the passes do to the
\* findings, and why, the catalogue knows, whatever they meet; a trace is lost exactly
\* when a signature has come to lie in two clusters.
THEOREM TraceKept == VerdictSpec => []TraceIsWhole
  <1>1. VerdictInit => TraceInv
    BY DEF VerdictInit, TraceInv, EarlyStages, LateStages, Stages
  <1>2. VerdictInv /\ TraceInv => TraceIsWhole
    BY DEF TraceInv, TraceIsWhole, Regular
  <1> QED BY <1>1, <1>2, TraceSteps, VerdictHolds, PTL DEF VerdictSpec

(***************************************************************************)
(* The panel.  What a slot may look like, whom it has asked, and for what  *)
(* a provider is blamed.                                                   *)
(***************************************************************************)

Kinds == {"clear", "parsed", "default"}
Noticed == Seq([p : Providers, kind : Kinds, left : Nat])
SlotRecords ==
    [pc : {"absent", "run", "ended", "done"}, p : Providers \cup {Null}, status : RunStatuses, at : Nat,
     clamped : BOOLEAN, left : Nat, again : BOOLEAN,
     eff : Noticed, asked : SUBSET Providers]

\* Every variable has its type, and a review its shape.
Typed ==
    /\ config \in Configs
    /\ cd \in [Providers -> Cooldown \cup {Null}]
    /\ \A k \in DOMAIN cache : cache[k] \in {"PASS", "SOFT-PASS"}
    /\ DOMAIN rev = DOMAIN Idle
    /\ rev.pc \in {"idle", "triage", "lookup", "panel", "judge"}
    /\ rev.budget \in {"ample", "clamped", "none"}
    /\ rev.aborted => rev.budget = "none"
    /\ slot \in [Slots -> SlotRecords]
    /\ blamed \subseteq Providers

\* Where there is no panel there is nothing left of one.
Quiet ==
    /\ rev.pc \notin {"panel", "judge"} => blamed = {} /\ slot = [s \in Slots |-> NoSlot]
    /\ rev.pc # "idle" => out = NoVerdict

\* A slot has asked its primary, or knows it capped; then whoever it may ask, in turn.
Asks(s, sl) ==
    LET primary == config.slots[s].primary IN
    /\ sl.pc = "absent" => sl = NoSlot
    /\ sl.pc \in {"run", "ended"} => sl.p \in config.registered \cap Providers /\ sl.asked # {}
    /\ sl.eff # <<>> => sl.asked # {}
    /\ sl.pc = "done" /\ sl.status # "unbudgeted" => sl.asked # {} \/ Cooled(primary)
    /\ sl.pc # "absent" /\ rev.budget # "none" => primary \in sl.asked \/ Cooled(primary)
    /\ sl.pc \in {"run", "ended"} =>
          \A n \in DOMAIN Ladder(s) : n <= sl.at /\ MayAsk(s, n) => Ladder(s)[n] \in sl.asked
    /\ sl.pc = "done" /\ sl.status # "ok" /\ rev.budget # "none" =>
          \A n \in DOMAIN Ladder(s) : MayAsk(s, n) => Ladder(s)[n] \in sl.asked
AllAsk == rev.pc = "panel" => \A s \in Slots : Asks(s, slot[s])

\* Every strike that is noted has a failure behind it, and a good run is noted too:
\* unless a provider takes the end of its time for a quota.
Noted(sl, by) == Tty = {} =>
    /\ \A n \in DOMAIN sl.eff : sl.eff[n].kind # "clear" => sl.eff[n].p \in by
    /\ sl.pc = "done" /\ sl.status = "ok" =>
          \E n \in DOMAIN sl.eff : sl.eff[n].p = sl.p /\ sl.eff[n].kind = "clear"
    /\ sl.pc = "ended" /\ sl.status \in {"quota", "parsed"} => sl.p \in by
    /\ sl.pc = "ended" /\ sl.status = "timeout" /\ ~rev.aborted /\ ~sl.clamped /\ ~rev.tight => sl.p \in by
AllNoted == \A s \in Slots : Noted(slot[s], blamed)

\* Once all slots are through, a run of theirs or a cap explains every failure.
Explained ==
    rev.pc = "judge" =>
        /\ \A s \in Slots : slot[s].pc \in {"done", "absent"}
        /\ ((\E s \in Slots : slot[s].pc = "done" /\ slot[s].status # "unbudgeted")
              => \E s \in Slots : slot[s].asked # {} \/ Cooled(config.slots[s].primary))

\* What is remembered as passed has passed.
Remembered ==
    /\ rev.pc # "idle" => rev.c \in {i.c : i \in config.inputs} /\ rev.scope \in {i.scope : i \in config.inputs}
    /\ rev.pc \in {"lookup", "panel", "judge"} => rev.env \in config.envs
    /\ ledger = Null \/ ledger \in earned
    /\ \A k \in DOMAIN cache : cache[k] = "PASS" => [c |-> k.c, env |-> k.env, scope |-> k.scope] \in earned

Reviewed == Typed /\ Quiet /\ AllAsk /\ Explained /\ Remembered

-----------------------------------------------------------------------------
\* The cooldowns.

LEMMA OlderStays ==
  ASSUME NEW e \in Cooldown \cup {Null}
  PROVE  Older(e) \in Cooldown \cup {Null} /\ Strikes(Older(e)) <= Strikes(e) + 1
  <1>1. Len(Backoff) \in Nat /\ StaleAfter \in Nat
    BY PanelAssumption
  <1>2. CASE e = Null
    BY <1>2 DEF Older, Strikes
  <1>3. CASE e # Null
    <2> DEFINE o == [e EXCEPT !.left = IF @ = 0 THEN 0 ELSE @ - 1, !.age = IF @ > StaleAfter THEN @ ELSE @ + 1]
    <2> DEFINE left == IF e.left = 0 THEN 0 ELSE e.left - 1
               age == IF e.age > StaleAfter THEN e.age ELSE e.age + 1
    <2>0. e \in Cooldown /\ e.strikes \in Nat
      BY <1>1, <1>3 DEF Cooldown
    <2>3. left \in Nat /\ age \in 0 .. StaleAfter + 1
      BY <1>1, <2>0 DEF Cooldown
    <2>4. o = [e EXCEPT !.left = left, !.age = age]
      OBVIOUS
    <2> HIDE DEF left, age
    <2>1. o \in Cooldown /\ o.strikes = e.strikes /\ e.strikes \in Nat
      <3> HIDE DEF o
      <3> QED BY <2>0, <2>3, <2>4 DEF Cooldown
    <2>2. Older(e) = Null \/ Older(e) = o
      BY <1>3 DEF Older
    <2> HIDE DEF o
    <2> QED BY <1>3, <2>1, <2>2 DEF Strikes
  <1> QED BY <1>2, <1>3

LEMMA OneStrike ==
  ASSUME NEW e \in Cooldown \cup {Null}
  PROVE  RecordBackoff(e) \in Cooldown /\ Strikes(RecordBackoff(e)) <= Strikes(e) + 1
  <1>1. Len(Backoff) \in Nat \ {0} /\ StaleAfter \in Nat /\ \A n \in 1 .. Len(Backoff) : Backoff[n] \in Nat
    BY PanelAssumption
  <1> DEFINE prior == IF e # Null /\ e.source = "default" /\ e.age <= StaleAfter THEN e.strikes ELSE 0
             now == IF prior < Len(Backoff) THEN prior + 1 ELSE prior
  <1>2. prior \in 0 .. Len(Backoff) /\ prior <= Strikes(e)
    BY <1>1 DEF Cooldown, Strikes
  <1>3. now \in 1 .. Len(Backoff) /\ now <= prior + 1
    <2> HIDE DEF prior
    <2> QED BY <1>1, <1>2
  <1>4. RecordBackoff(e) = [left |-> Backoff[now], age |-> 0, source |-> "default", strikes |-> now]
    BY DEF RecordBackoff
  <1> HIDE DEF prior, now
  <1>5. Strikes(e) \in Nat
    BY <1>1 DEF Strikes, Cooldown
  <1>6. RecordBackoff(e) \in Cooldown /\ RecordBackoff(e).strikes = now
    BY <1>1, <1>3, <1>4 DEF Cooldown
  <1> QED BY <1>1, <1>2, <1>3, <1>5, <1>6 DEF Strikes

\* An effect is some slot's.
LEMMA HadOne ==
  ASSUME NEW p, NEW kind
  PROVE  Had(p, kind) # {} <=>
            \E s \in Slots : \E n \in DOMAIN slot[s].eff : slot[s].eff[n].p = p /\ slot[s].eff[n].kind = kind
  BY DEF Had, Own

LEMMA ResetIsNat ==
  ASSUME Typed, NEW p, Had(p, "parsed") # {}
  PROVE  FirstReset(p) \in Nat
  <1> DEFINE s == Min(Had(p, "parsed"))
             n == Min(Own(s, p, "parsed"))
  <1>1. Slots \subseteq Nat
    BY ConfigsAssumption DEF Slots, Typed
  <1>2. s \in Had(p, "parsed")
    BY <1>1, LeastExists DEF Had
  <1>3. s \in Slots /\ Own(s, p, "parsed") # {}
    BY <1>2 DEF Had
  <1> HIDE DEF s
  <1>4. slot[s].eff \in Seq([p : Providers, kind : Kinds, left : Nat])
    BY <1>3 DEF Typed, SlotRecords, Noticed
  <1>5. \A k \in Own(s, p, "parsed") : k \in Nat
    BY <1>4 DEF Own
  <1>6. n \in Own(s, p, "parsed")
    BY <1>3, <1>5, LeastExists
  <1>7. n \in DOMAIN slot[s].eff
    BY <1>6 DEF Own
  <1> HIDE DEF n
  <1>8. slot[s].eff[n] \in [p : Providers, kind : Kinds, left : Nat]
    <2>1. \A E : \A q \in Seq(E) : \A k \in DOMAIN q : q[k] \in E
      OBVIOUS
    <2> QED BY <1>4, <1>7, <2>1
  <1>9. slot[s].eff[n].left \in Nat
    BY <1>8
  <1> QED BY <1>9 DEF FirstReset, s, n

\* One review, one step along the schedule.
LEMMA AppliedStays ==
  ASSUME Typed, NEW p \in Providers
  PROVE  /\ Applied(p) \in Cooldown \cup {Null}
         /\ Strikes(Applied(p)) <= Strikes(cd[p]) + 1
         /\ Applied(p) # cd[p] /\ Applied(p) # Null =>
               Had(p, "clear") = {} /\ (Had(p, "parsed") # {} \/ Had(p, "default") # {})
         /\ (\A kind \in Kinds : Had(p, kind) = {}) => Applied(p) = cd[p]
  <1>1. cd[p] \in Cooldown \cup {Null}
    BY DEF Typed
  <1>2. Strikes(cd[p]) \in Nat
    BY <1>1, PanelAssumption DEF Strikes, Cooldown
  <1>3. Had(p, "parsed") # {} => Record(FirstReset(p)) \in Cooldown /\ Strikes(Record(FirstReset(p))) = 0
    <2>1. SUFFICES ASSUME Had(p, "parsed") # {}
                   PROVE Record(FirstReset(p)) \in Cooldown /\ Strikes(Record(FirstReset(p))) = 0
      OBVIOUS
    <2>2. PICK r : r = FirstReset(p)
      OBVIOUS
    <2>3. r \in Nat
      BY <2>1, <2>2, ResetIsNat
    <2>4. Record(r) \in Cooldown /\ Record(r).strikes = 0
      BY <2>3, PanelAssumption DEF Record, Cooldown
    <2> QED BY <2>2, <2>4 DEF Strikes
  <1>4. RecordBackoff(cd[p]) \in Cooldown /\ Strikes(RecordBackoff(cd[p])) <= Strikes(cd[p]) + 1
    BY <1>1, OneStrike
  <1>5. Strikes(Null) = 0
    BY DEF Strikes
  <1>6. CASE Had(p, "clear") # {}
    BY <1>1, <1>2, <1>5, <1>6 DEF Applied, Kinds
  <1>7. CASE Had(p, "clear") = {} /\ Had(p, "parsed") # {}
    BY <1>1, <1>2, <1>3, <1>7 DEF Applied, Kinds
  <1>8. CASE Had(p, "clear") = {} /\ Had(p, "parsed") = {} /\ Had(p, "default") # {}
    BY <1>1, <1>2, <1>4, <1>8 DEF Applied, Kinds
  <1>9. CASE Had(p, "clear") = {} /\ Had(p, "parsed") = {} /\ Had(p, "default") = {}
    BY <1>1, <1>2, <1>9 DEF Applied, Kinds
  <1> QED BY <1>6, <1>7, <1>8, <1>9

-----------------------------------------------------------------------------
\* The slots.

\* Everybody declared is on a slot's ladder, and everybody of LastResort after them.
LEMMA LadderNames ==
  ASSUME Typed, NEW s \in Slots
  PROVE  /\ DOMAIN Ladder(s) \subseteq Nat
         /\ \A n \in DOMAIN Ladder(s) : MayAsk(s, n) => Ladder(s)[n] \in config.registered \cap Providers
         /\ \A p \in ToSet(config.slots[s].fallback) :
               \E n \in DOMAIN Ladder(s) : n <= Len(config.slots[s].fallback) /\ Ladder(s)[n] = p
         /\ \A p \in ToSet(LastResort) : \E n \in DOMAIN Ladder(s) : Ladder(s)[n] = p
  <1> DEFINE declared == config.slots[s].fallback
  <1>1. declared \in Seq(Providers)
    BY ConfigsAssumption DEF Typed, Slots, Providers
  <1>2. PICK L : LastResort \in Seq(L)
    BY PanelAssumption
  <1>3. Ladder(s) = declared \o LastResort
    BY DEF Ladder
  <1> HIDE DEF declared
  <1>4. /\ Len(declared) \in Nat /\ DOMAIN declared = 1 .. Len(declared)
        /\ Len(LastResort) \in Nat /\ DOMAIN LastResort = 1 .. Len(LastResort)
    BY <1>1, <1>2
  <1>5. DOMAIN Ladder(s) = 1 .. Len(declared) + Len(LastResort)
    BY <1>1, <1>2, <1>3
  <1>6. \A n \in 1 .. Len(declared) : Ladder(s)[n] = declared[n] /\ declared[n] \in Providers
    BY <1>1, <1>2, <1>3
  <1>7. \A n \in 1 .. Len(LastResort) : Ladder(s)[Len(declared) + n] = LastResort[n]
    BY <1>1, <1>2, <1>3
  <1>8. ASSUME NEW n \in DOMAIN Ladder(s), MayAsk(s, n)
        PROVE  Ladder(s)[n] \in config.registered \cap Providers
    <2>1. Ladder(s)[n] \in config.registered /\ (n > Len(declared) => Ladder(s)[n] \in config.enabled)
      BY <1>8 DEF MayAsk, Usable, declared
    <2>2. n \in 1 .. Len(declared) \/ n > Len(declared)
      BY <1>4, <1>5
    <2> QED BY <1>6, <2>1, <2>2 DEF Providers
  <1>9. \A p \in ToSet(declared) : \E n \in DOMAIN Ladder(s) : n <= Len(declared) /\ Ladder(s)[n] = p
    BY <1>4, <1>5, <1>6 DEF ToSet
  <1>10. ASSUME NEW p \in ToSet(LastResort)
         PROVE  \E n \in DOMAIN Ladder(s) : Ladder(s)[n] = p
    <2>1. PICK n \in 1 .. Len(LastResort) : LastResort[n] = p
      BY <1>4 DEF ToSet
    <2>2. Len(declared) + n \in DOMAIN Ladder(s)
      BY <1>4, <1>5
    <2> QED BY <1>7, <2>1, <2>2
  <1> QED BY <1>5, <1>8, <1>9, <1>10 DEF declared

LEMMA RunningAsks ==
  ASSUME Typed, NEW s \in Slots, NEW p \in config.registered \cap Providers, NEW base \in SlotRecords, NEW at \in Nat,
         NEW by,
         rev.budget # "none" => config.slots[s].primary \in base.asked \cup {p} \/ Cooled(config.slots[s].primary),
         \A n \in DOMAIN Ladder(s) : n <= at /\ MayAsk(s, n) => Ladder(s)[n] \in base.asked \cup {p},
         Tty = {} => \A n \in DOMAIN base.eff : base.eff[n].kind # "clear" => base.eff[n].p \in by
  PROVE  /\ Running(p, at, base) \in SlotRecords /\ Asks(s, Running(p, at, base)) /\ Noted(Running(p, at, base), by)
  <1> DEFINE sl == Running(p, at, base)
  <1>1. /\ sl \in SlotRecords /\ sl.pc = "run" /\ sl.p = p /\ sl.at = at /\ sl.asked = base.asked \cup {p}
        /\ sl.eff = base.eff /\ sl.status = base.status
    <2> DEFINE c == (rev.budget = "clamped")
               a == p \in Retrying
    <2>1. c \in BOOLEAN /\ a \in BOOLEAN
      OBVIOUS
    <2>2. PICK asked \in SUBSET Providers : asked = base.asked \cup {p}
      BY DEF SlotRecords
    <2>3. sl = [base EXCEPT !.pc = "run", !.p = p, !.at = at, !.clamped = c, !.again = a, !.asked = asked]
      BY <2>2 DEF Running
    <2> HIDE DEF sl, c, a
    <2> QED BY <2>1, <2>2, <2>3 DEF SlotRecords
  <1>2. sl.asked # {}
    BY <1>1
  <1> HIDE DEF sl
  <1>3. Asks(s, sl)
    BY <1>1, <1>2 DEF Asks
  <1>4. Noted(sl, by)
    BY <1>1 DEF Noted
  <1> QED BY <1>1, <1>3, <1>4 DEF sl

\* A slot that is through with one provider, and may have others to ask.
LEMMA FailOverAsks ==
  ASSUME Typed, NEW s \in Slots, NEW sl \in SlotRecords, NEW by,
         sl.eff # <<>> => sl.asked # {},
         sl.asked # {} \/ Cooled(config.slots[s].primary),
         rev.budget # "none" => config.slots[s].primary \in sl.asked \/ Cooled(config.slots[s].primary),
         \A n \in DOMAIN Ladder(s) : n <= sl.at /\ MayAsk(s, n) => Ladder(s)[n] \in sl.asked,
         Tty = {} => \A n \in DOMAIN sl.eff : sl.eff[n].kind # "clear" => sl.eff[n].p \in by,
         sl.status = "ok" => \E n \in DOMAIN sl.eff : sl.eff[n].p = sl.p /\ sl.eff[n].kind = "clear"
  PROVE  /\ FailOver(s, sl) \in SlotRecords /\ Asks(s, FailOver(s, sl)) /\ Noted(FailOver(s, sl), by)
  <1> DEFINE rest == Rest(s, sl.at)
             over == [sl EXCEPT !.pc = "done", !.at = 0, !.left = 0, !.clamped = FALSE, !.again = FALSE]
  <1>1. /\ \A n \in rest : n \in Nat /\ n \in DOMAIN Ladder(s) /\ MayAsk(s, n)
        /\ \A n \in DOMAIN Ladder(s) : n \in Nat /\ (MayAsk(s, n) => n <= sl.at \/ n \in rest)
    BY LadderNames DEF Rest, SlotRecords
  <1>2. CASE sl.status # "ok" /\ ~rev.aborted /\ rev.budget # "none" /\ rest # {}
    <2>1. PICK at : at = Min(rest)
      OBVIOUS
    <2>2. at \in rest /\ \A n \in rest : at <= n
      BY <1>1, <1>2, <2>1, LeastExists
    <2>3. at \in Nat /\ at \in DOMAIN Ladder(s) /\ MayAsk(s, at)
      BY <1>1, <2>2
    <2>4. FailOver(s, sl) = Running(Ladder(s)[at], at, sl)
      BY <1>2, <2>1 DEF FailOver
    <2>5. PICK p \in config.registered \cap Providers : p = Ladder(s)[at]
      BY <2>3, LadderNames
    <2>6. \A n \in DOMAIN Ladder(s) : n <= at /\ MayAsk(s, n) => Ladder(s)[n] \in sl.asked \cup {p}
      <3>1. SUFFICES ASSUME NEW n \in DOMAIN Ladder(s), n <= at, MayAsk(s, n) PROVE Ladder(s)[n] \in sl.asked \cup {p}
        OBVIOUS
      <3>2. n \in Nat /\ (n <= sl.at \/ n \in rest)
        BY <1>1, <3>1
      <3>3. n <= sl.at \/ n = at
        BY <2>2, <2>3, <3>1, <3>2
      <3> QED BY <2>5, <3>1, <3>3
    <2>7. rev.budget # "none" => config.slots[s].primary \in sl.asked \cup {p} \/ Cooled(config.slots[s].primary)
      OBVIOUS
    <2> QED BY <2>3, <2>4, <2>5, <2>6, <2>7, RunningAsks
  <1>3. CASE ~(sl.status # "ok" /\ ~rev.aborted /\ rev.budget # "none" /\ rest # {})
    <2>1. FailOver(s, sl) = over
      BY <1>3 DEF FailOver
    <2>2. /\ over \in SlotRecords /\ over.pc = "done" /\ over.p = sl.p /\ over.status = sl.status /\ over.eff = sl.eff
          /\ over.asked = sl.asked
      BY DEF SlotRecords
    <2>3. sl.status # "ok" /\ rev.budget # "none" =>
            \A n \in DOMAIN Ladder(s) : MayAsk(s, n) => Ladder(s)[n] \in sl.asked
      BY <1>1, <1>3 DEF Typed
    <2> HIDE DEF over
    <2>4. Asks(s, over)
      BY <2>2, <2>3 DEF Asks
    <2>5. Noted(over, by)
      BY <2>2 DEF Noted
    <2> QED BY <2>1, <2>2, <2>4, <2>5
  <1> QED BY <1>2, <1>3

LEMMA NoSlotIsQuiet ==
  ASSUME NEW s \in Slots, NEW by
  PROVE  NoSlot \in SlotRecords /\ Asks(s, NoSlot) /\ Noted(NoSlot, by)
  <1>1. NoSlot \in SlotRecords
    <2>1. <<>> \in Noticed
      BY DEF Noticed
    <2> QED BY <2>1 DEF NoSlot, SlotRecords, RunStatuses
  <1>2. /\ NoSlot.pc = "absent" /\ NoSlot.eff = <<>> /\ DOMAIN NoSlot.eff = {}
    BY DEF NoSlot
  <1>3. Asks(s, NoSlot)
    BY <1>2 DEF Asks
  <1> QED BY <1>1, <1>2, <1>3 DEF Noted

LEMMA LaunchedAsks ==
  ASSUME Typed, NEW s \in Slots, NEW by
  PROVE  /\ Launched(s) \in SlotRecords /\ Asks(s, Launched(s)) /\ Noted(Launched(s), by)
  <1> DEFINE p == config.slots[s].primary
             base == [NoSlot EXCEPT !.p = p]
  <1>1. CASE p \notin config.enabled \/ p \notin config.registered
    <2>1. Launched(s) = NoSlot
      BY <1>1 DEF Launched
    <2> QED BY <2>1, NoSlotIsQuiet
  <1>2. CASE ~(p \notin config.enabled \/ p \notin config.registered)
    <2>1. p \in config.registered \cap Providers
      BY <1>2 DEF Providers
    <2>2. /\ base \in SlotRecords /\ base.eff = <<>> /\ DOMAIN base.eff = {} /\ base.asked = {} /\ base.at = 0
          /\ base.p = p
      <3>1. NoSlot \in SlotRecords
        BY NoSlotIsQuiet
      <3>2. NoSlot.eff = <<>> /\ NoSlot.asked = {} /\ NoSlot.at = 0
        BY DEF NoSlot
      <3> HIDE DEF p
      <3> QED BY <2>1, <3>1, <3>2 DEF SlotRecords
    <2>3. \A n \in DOMAIN Ladder(s) : ~(n <= 0 /\ MayAsk(s, n))
      <3>1. PICK L, M : config.slots[s].fallback \in Seq(L) /\ LastResort \in Seq(M)
        BY PanelAssumption, ConfigsAssumption DEF Typed, Slots
      <3>2. DOMAIN Ladder(s) = 1 .. Len(config.slots[s].fallback) + Len(LastResort)
        BY <3>1 DEF Ladder
      <3> QED BY <3>1, <3>2
    <2> HIDE DEF base
    <2>4. CASE rev.budget = "none"
      <3> DEFINE sl == [base EXCEPT !.pc = "done", !.status = "unbudgeted"]
      <3>1. Launched(s) = sl
        BY <1>2, <2>4 DEF Launched, base
      <3>2. sl \in SlotRecords /\ sl.pc = "done" /\ sl.status = "unbudgeted" /\ sl.eff = <<>> /\ DOMAIN sl.eff = {}
        BY <2>2 DEF SlotRecords, RunStatuses
      <3> HIDE DEF sl
      <3>3. Asks(s, sl)
        BY <2>4, <3>2 DEF Asks
      <3> QED BY <3>1, <3>2, <3>3 DEF Noted
    <2>5. CASE rev.budget # "none" /\ Cooled(p) /\ config.slots[s].fallback # <<>>
      <3> DEFINE sl == [base EXCEPT !.status = "quota"]
      <3>1. Launched(s) = FailOver(s, sl)
        BY <1>2, <2>5 DEF Launched, base
      <3>2. /\ sl \in SlotRecords /\ sl.status = "quota" /\ sl.eff = <<>> /\ DOMAIN sl.eff = {} /\ sl.at = 0
            /\ sl.asked = {}
        BY <2>2 DEF SlotRecords, RunStatuses
      <3> HIDE DEF sl
      <3> QED BY <2>3, <2>5, <3>1, <3>2, FailOverAsks
    <2>6. CASE rev.budget # "none" /\ ~(Cooled(p) /\ config.slots[s].fallback # <<>>)
      <3>1. Launched(s) = Running(p, 0, base)
        BY <1>2, <2>6 DEF Launched, base
      <3>2. /\ Tty = {} => \A n \in DOMAIN base.eff : base.eff[n].kind # "clear" => base.eff[n].p \in by
            /\ p \in base.asked \cup {p}
            /\ \A n \in DOMAIN Ladder(s) : n <= 0 /\ MayAsk(s, n) => Ladder(s)[n] \in base.asked \cup {p}
        BY <2>2, <2>3
      <3> QED BY <2>1, <2>2, <2>6, <3>1, <3>2, RunningAsks
    <2> QED BY <2>4, <2>5, <2>6
  <1> QED BY <1>1, <1>2

-----------------------------------------------------------------------------
\* The steps.

LEMMA AsksCarries ==
  ASSUME NEW s, NEW sl, Asks(s, sl), slot'[s] = sl, config' = config, cd' = cd,
         rev'.budget # "none" => rev.budget # "none"
  PROVE  Asks(s, slot[s])'
  <1>1. Ladder(s)' = Ladder(s) /\ \A n : MayAsk(s, n)' = MayAsk(s, n)
    BY DEF Ladder, MayAsk, Usable, Cooled
  <1>2. \A p : Cooled(p)' = Cooled(p)
    BY DEF Cooled
  <1>3. Providers' = Providers
    BY DEF Providers
  <1> QED BY <1>1, <1>2, <1>3 DEF Asks

LEMMA NotedCarries ==
  ASSUME NEW s, NEW sl, NEW by, Noted(sl, by), slot'[s] = sl, by \subseteq blamed',
         rev.aborted => rev'.aborted, rev'.tight = rev.tight
  PROVE  Noted(slot[s], blamed)'
  BY DEF Noted

\* Only in a panel does anything run.
LEMMA RunsInPanel ==
  ASSUME Reviewed, NEW s \in Slots, slot[s].pc \in {"run", "ended"}
  PROVE  rev.pc = "panel" /\ Asks(s, slot[s]) /\ slot[s] \in SlotRecords
  <1>1. NoSlot.pc = "absent"
    BY DEF NoSlot
  <1>2. rev.pc \in {"panel", "judge"}
    BY <1>1 DEF Reviewed, Quiet
  <1>3. rev.pc = "panel"
    BY <1>2 DEF Reviewed, Explained
  <1> QED BY <1>3 DEF Reviewed, AllAsk, Typed

LEMMA BeginsWell ==
  ASSUME Init
  PROVE  Reviewed /\ AllNoted
  <1>1. Typed
    <2>1. \A s \in Slots : NoSlot \in SlotRecords
      BY NoSlotIsQuiet
    <2>2. slot \in [Slots -> SlotRecords]
      BY <2>1 DEF Init, Slots
    <2> QED BY <2>2 DEF Init, Typed, Idle, Providers
  <1>2. AllNoted
    BY NoSlotIsQuiet DEF Init, AllNoted, Slots
  <1>3. Quiet /\ AllAsk /\ Explained /\ Remembered
    BY DEF Init, Quiet, AllAsk, Explained, Remembered, Idle, Slots
  <1> QED BY <1>1, <1>2, <1>3 DEF Reviewed

\* A review that ends leaves the panel empty, however it ends.
LEMMA EndKeeps ==
  ASSUME Reviewed, NEW r, End(r), config' = config, cd' = cd,
         \A k \in DOMAIN cache' : cache'[k] \in {"PASS", "SOFT-PASS"},
         ledger' = Null \/ ledger' \in earned',
         \A k \in DOMAIN cache' : cache'[k] = "PASS" => [c |-> k.c, env |-> k.env, scope |-> k.scope] \in earned'
  PROVE  Reviewed' /\ AllNoted'
  <1>1. Slots' = Slots /\ Providers' = Providers
    BY DEF Slots, Providers
  <1>2. rev' = Idle /\ rev'.pc = "idle" /\ rev'.budget = "ample" /\ ~rev'.aborted
    BY DEF End, Idle
  <1>3. slot' = [s \in Slots |-> NoSlot] /\ blamed' = {}
    BY DEF End
  <1>4. \A s \in Slots : NoSlot \in SlotRecords /\ Noted(NoSlot, {})
    BY NoSlotIsQuiet
  <1>5. SlotRecords' = SlotRecords
    BY <1>1 DEF SlotRecords, Noticed
  <1>6. Typed'
    BY <1>1, <1>2, <1>3, <1>4, <1>5 DEF Reviewed, Typed
  <1>7. AllNoted'
    BY <1>1, <1>2, <1>3, <1>4 DEF AllNoted, Noted, NoSlot
  <1>8. Quiet' /\ AllAsk' /\ Explained' /\ Remembered'
    BY <1>1, <1>2, <1>3 DEF Quiet, AllAsk, Explained, Remembered
  <1> QED BY <1>6, <1>7, <1>8 DEF Reviewed

\* As most ends do: nothing is remembered of the review.
LEMMA EndsKeep ==
  ASSUME Reviewed, SkipPass \/ SkipIncomplete \/ ChecksFail \/ ServeLedger \/ ServeCache \/ NoReview \/ Reject \/ Kill
  PROVE  Reviewed' /\ AllNoted'
  <1>1. PICK r : End(r)
    BY DEF SkipPass, SkipIncomplete, ChecksFail, ServeLedger, ServeCache, NoReview, Reject, Kill, Conclude
  <1>2. config' = config /\ cd' = cd /\ cache' = cache /\ ledger' = ledger /\ earned' = earned
    BY DEF SkipPass, SkipIncomplete, ChecksFail, ServeLedger, ServeCache, NoReview, Reject, Kill
  <1> QED BY <1>1, <1>2, EndKeeps DEF Reviewed, Typed, Remembered

LEMMA JudgeKeeps ==
  ASSUME Reviewed, Judge
  PROVE  Reviewed' /\ AllNoted'
  <1> DEFINE record == [c |-> rev.c, env |-> rev.env, scope |-> rev.scope]
  <1>1. PICK v \in {"PASS", "SOFT-PASS", "FAIL"} :
          /\ End(Result(v, "panel"))
          /\ cache' = IF Cacheable(v) THEN [k \in DOMAIN cache \cup {CacheKey} |-> IF k = CacheKey THEN v ELSE cache[k]]
                      ELSE cache
          /\ ledger' = IF LedgerEligible(v) /\ FullCoverage THEN record ELSE ledger
          /\ earned' = IF v = "PASS" /\ ~rev.incomplete /\ ~Promotion THEN earned \cup {record} ELSE earned
    BY DEF Judge, Conclude
  <1>2. config' = config /\ cd' = cd
    BY DEF Judge
  <1>3. earned \subseteq earned' /\ (LedgerEligible(v) => record \in earned') /\ (Cacheable(v) /\ v = "PASS" => record \in earned')
    BY <1>1 DEF LedgerEligible, Cacheable
  <1>4. CacheKey.c = rev.c /\ CacheKey.env = rev.env /\ CacheKey.scope = rev.scope
    BY DEF CacheKey
  <1>5. ledger' = Null \/ ledger' \in earned'
    BY <1>1, <1>3 DEF Reviewed, Remembered
  <1>6. \A k \in DOMAIN cache' : /\ cache'[k] \in {"PASS", "SOFT-PASS"}
                                 /\ cache'[k] = "PASS" => [c |-> k.c, env |-> k.env, scope |-> k.scope] \in earned'
    <2>1. CASE ~Cacheable(v)
      BY <1>1, <1>3, <2>1 DEF Reviewed, Typed, Remembered
    <2>2. CASE Cacheable(v)
      <3>1. v \in {"PASS", "SOFT-PASS"}
        BY <2>2 DEF Cacheable
      <3>2. DOMAIN cache' = DOMAIN cache \cup {CacheKey}
            /\ \A k \in DOMAIN cache' : cache'[k] = IF k = CacheKey THEN v ELSE cache[k]
        BY <1>1, <2>2
      <3> SUFFICES ASSUME NEW k \in DOMAIN cache'
                   PROVE  /\ cache'[k] \in {"PASS", "SOFT-PASS"}
                          /\ cache'[k] = "PASS" => [c |-> k.c, env |-> k.env, scope |-> k.scope] \in earned'
        OBVIOUS
      <3>3. CASE k = CacheKey
        BY <1>3, <1>4, <2>2, <3>1, <3>2, <3>3
      <3>4. CASE k # CacheKey
        BY <1>3, <3>2, <3>4 DEF Reviewed, Typed, Remembered
      <3> QED BY <3>3, <3>4
    <2> QED BY <2>1, <2>2
  <1> QED BY <1>1, <1>2, <1>5, <1>6, EndKeeps

LEMMA TickKeeps ==
  ASSUME Reviewed, AllNoted, Tick
  PROVE  Reviewed' /\ AllNoted'
  <1>1. /\ rev.pc = "idle" /\ rev' = rev /\ slot' = slot /\ blamed' = blamed /\ config' = config /\ out' = out
        /\ ledger' = ledger /\ earned' = earned
    BY DEF Tick, history
  <1>2. Slots' = Slots /\ Providers' = Providers /\ SlotRecords' = SlotRecords
    BY <1>1 DEF Slots, Providers, SlotRecords, Noticed
  <1>3. cd' \in [Providers -> Cooldown \cup {Null}]
    BY OlderStays DEF Tick, Reviewed, Typed
  <1>4. \A k \in DOMAIN cache' : k \in DOMAIN cache /\ cache'[k] = cache[k]
    BY DEF Tick
  <1>5. Typed'
    BY <1>1, <1>2, <1>3, <1>4 DEF Reviewed, Typed
  <1>6. AllNoted'
    BY <1>1, <1>2 DEF AllNoted, Noted
  <1>7. Quiet' /\ AllAsk' /\ Explained' /\ Remembered'
    BY <1>1, <1>2, <1>4 DEF Reviewed, Quiet, AllAsk, Explained, Remembered
  <1> QED BY <1>5, <1>6, <1>7 DEF Reviewed

\* Before the panel the slots are empty.
LEMMA OutsideKeeps ==
  ASSUME Reviewed, Begin \/ Gather
  PROVE  Reviewed' /\ AllNoted'
  <1>1. /\ rev.pc \in {"idle", "triage"} /\ slot' = slot /\ blamed' = blamed /\ config' = config /\ cd' = cd
        /\ cache' = cache /\ ledger' = ledger /\ earned' = earned
    BY DEF Begin, Gather, history
  <1>2. Slots' = Slots /\ Providers' = Providers /\ SlotRecords' = SlotRecords
    BY <1>1 DEF Slots, Providers, SlotRecords, Noticed
  <1>3. slot = [s \in Slots |-> NoSlot] /\ blamed = {} /\ NoSlot.pc = "absent" /\ DOMAIN NoSlot.eff = {}
    BY <1>1 DEF Reviewed, Quiet, NoSlot
  <1>4. AllNoted'
    BY <1>1, <1>2, <1>3 DEF AllNoted, Noted
  <1>5. CASE Begin
    <2>1. PICK i \in config.inputs : rev' = i
      BY <1>5 DEF Begin
    <2>2. /\ DOMAIN i = DOMAIN Idle /\ i.pc = "triage" /\ i.budget = "ample" /\ i.aborted = FALSE
      <3>1. i = [Idle EXCEPT !.pc = "triage", !.c = i.c, !.form = i.form, !.review = i.review,
                             !.incomplete = i.incomplete, !.due = i.due, !.tight = i.tight, !.scope = i.scope]
        BY ConfigsAssumption DEF Reviewed, Typed
      <3> DEFINE c == i.c
                 form == i.form
                 review == i.review
                 incomplete == i.incomplete
                 due == i.due
                 tight == i.tight
                 scope == i.scope
      <3> HIDE DEF c, form, review, incomplete, due, tight, scope
      <3>2. i = [Idle EXCEPT !.pc = "triage", !.c = c, !.form = form, !.review = review,
                             !.incomplete = incomplete, !.due = due, !.tight = tight, !.scope = scope]
        BY <3>1 DEF c, form, review, incomplete, due, tight, scope
      <3> QED BY <3>2 DEF Idle
    <2>3. Typed'
      BY <1>1, <1>2, <2>1, <2>2 DEF Reviewed, Typed
    <2>4. Quiet' /\ AllAsk' /\ Explained'
      BY <1>1, <1>2, <1>3, <1>5, <2>1, <2>2 DEF Quiet, AllAsk, Explained, Begin
    <2>5. Remembered'
      BY <1>1, <2>1, <2>2 DEF Reviewed, Remembered
    <2> QED BY <1>4, <2>3, <2>4, <2>5 DEF Reviewed
  <1>6. CASE Gather
    <2>1. PICK e \in config.envs : rev' = [rev EXCEPT !.pc = "lookup", !.env = e]
      BY <1>6 DEF Gather
    <2>2. /\ DOMAIN rev' = DOMAIN rev /\ rev'.pc = "lookup" /\ rev'.env = e /\ rev'.c = rev.c /\ rev'.scope = rev.scope
          /\ rev'.budget = rev.budget /\ rev'.aborted = rev.aborted
      BY <2>1 DEF Reviewed, Typed, Idle
    <2>3. rev.pc = "triage" /\ out' = out
      BY <1>6 DEF Gather
    <2>4. Typed'
      BY <1>1, <1>2, <2>2 DEF Reviewed, Typed
    <2>5. Quiet' /\ AllAsk' /\ Explained'
      BY <1>1, <1>2, <1>3, <2>2, <2>3 DEF Reviewed, Quiet, AllAsk, Explained
    <2>6. Remembered'
      BY <1>1, <2>2, <2>3 DEF Reviewed, Remembered
    <2> QED BY <1>4, <2>4, <2>5, <2>6 DEF Reviewed
  <1> QED BY <1>5, <1>6

LEMMA LaunchKeeps ==
  ASSUME Reviewed, AllNoted, Launch
  PROVE  Reviewed' /\ AllNoted'
  <1>1. /\ rev.pc = "lookup" /\ blamed' = blamed /\ config' = config /\ cd' = cd /\ out' = out
        /\ cache' = cache /\ ledger' = ledger /\ earned' = earned
    BY DEF Launch, history
  <1>2. Slots' = Slots /\ Providers' = Providers /\ SlotRecords' = SlotRecords
    BY <1>1 DEF Slots, Providers, SlotRecords, Noticed
  <1>3. /\ DOMAIN rev' = DOMAIN rev /\ rev'.pc = "panel" /\ rev'.env = rev.env /\ rev'.c = rev.c /\ rev'.scope = rev.scope
        /\ rev'.budget = rev.budget /\ rev'.aborted = rev.aborted /\ rev'.tight = rev.tight
    BY DEF Launch, Reviewed, Typed, Idle
  <1>4. PICK q : slot' = [s \in Slots |-> IF s \in q /\ q # Slots THEN NoSlot ELSE Launched(s)]
    BY DEF Launch
  <1>5. ASSUME NEW s \in Slots
        PROVE  slot'[s] \in SlotRecords /\ Asks(s, slot[s])' /\ Noted(slot[s], blamed)'
    <2>1. PICK sl : sl = slot'[s]
      OBVIOUS
    <2>2. sl = NoSlot \/ sl = Launched(s)
      BY <1>4, <2>1
    <2>3. PICK by : by = blamed
      OBVIOUS
    <2>4. sl \in SlotRecords /\ Asks(s, sl) /\ Noted(sl, by)
      BY <2>2, NoSlotIsQuiet, LaunchedAsks DEF Reviewed
    <2>5. Asks(s, slot[s])'
      BY <1>1, <1>3, <2>1, <2>4, AsksCarries
    <2>6. Noted(slot[s], blamed)'
      BY <1>1, <1>3, <2>1, <2>3, <2>4, NotedCarries
    <2> QED BY <2>1, <2>4, <2>5, <2>6
  <1>6. AllAsk' /\ AllNoted'
    BY <1>2, <1>5 DEF AllAsk, AllNoted
  <1>7. slot' \in [Slots -> SlotRecords]
    BY <1>4, <1>5
  <1>8. Typed'
    BY <1>1, <1>2, <1>3, <1>7 DEF Reviewed, Typed
  <1>9. Quiet' /\ Explained' /\ Remembered'
    BY <1>1, <1>3 DEF Reviewed, Quiet, Explained, Remembered
  <1> QED BY <1>6, <1>8, <1>9 DEF Reviewed

\* A step of one slot leaves the others as they are.
LEMMA SlotKeeps ==
  ASSUME Reviewed, AllNoted, NEW s \in Slots, rev.pc = "panel", NEW sl \in SlotRecords, slot' = [slot EXCEPT ![s] = sl],
         Asks(s, sl), NEW by, Noted(sl, by), blamed' = by, blamed \subseteq by, by \subseteq Providers,
         config' = config, cd' = cd, cache' = cache, ledger' = ledger, rev' = rev, out' = out, earned' = earned
  PROVE  Reviewed' /\ AllNoted'
  <1>1. Slots' = Slots /\ Providers' = Providers /\ SlotRecords' = SlotRecords
    BY DEF Slots, Providers, SlotRecords, Noticed
  <1>2. slot' \in [Slots -> SlotRecords] /\ slot'[s] = sl /\ \A t \in Slots \ {s} : slot'[t] = slot[t]
    BY DEF Reviewed, Typed
  <1>3. ASSUME NEW t \in Slots
        PROVE  Asks(t, slot[t])' /\ Noted(slot[t], blamed)'
    <2>1. PICK st : st = slot'[t]
      OBVIOUS
    <2>2. t = s \/ st = slot[t]
      BY <1>2, <2>1
    <2>3. PICK was : was = blamed
      OBVIOUS
    <2>4. Asks(t, st) /\ (Noted(st, by) \/ Noted(st, was))
      BY <1>2, <2>1, <2>2, <2>3 DEF Reviewed, AllAsk, AllNoted
    <2>5. Asks(t, slot[t])'
      BY <2>1, <2>4, AsksCarries
    <2>6. Noted(slot[t], blamed)'
      BY <2>1, <2>3, <2>4, NotedCarries
    <2> QED BY <2>5, <2>6
  <1>4. AllAsk' /\ AllNoted'
    BY <1>1, <1>3 DEF AllAsk, AllNoted
  <1>5. Typed'
    BY <1>1, <1>2 DEF Reviewed, Typed
  <1>6. Quiet' /\ Explained' /\ Remembered'
    BY DEF Reviewed, Quiet, Explained, Remembered
  <1> QED BY <1>4, <1>5, <1>6 DEF Reviewed

LEMMA EndedAsks ==
  ASSUME Reviewed, NEW s \in Slots, slot[s].pc \in {"run", "ended"}, NEW sl \in SlotRecords, sl.pc \in {"run", "ended"},
         sl.p = slot[s].p, sl.at = slot[s].at, sl.asked = slot[s].asked, sl.eff = slot[s].eff
  PROVE  Asks(s, sl)
  <1>1. Asks(s, slot[s])
    BY RunsInPanel
  <1> QED BY <1>1 DEF Asks

LEMMA EndRunKeeps ==
  ASSUME Reviewed, AllNoted, NEW s \in Slots, EndRun(s)
  PROVE  Reviewed' /\ AllNoted'
  <1>0. slot[s] \in SlotRecords /\ slot[s].left \in Nat
    BY DEF Reviewed, Typed, SlotRecords
  <1>1. PICK st \in {"ok", "quota", "fast", "parsed", "timeout"}, left \in Nat :
          /\ slot' = [slot EXCEPT ![s] = [slot[s] EXCEPT !.pc = "ended", !.status = st, !.left = left]]
          /\ blamed' \in {blamed, blamed \cup {slot[s].p}}
          /\ Tty = {} /\ (st \in {"quota", "parsed"} \/ (st = "timeout" /\ ~GateCut(s))) => slot[s].p \in blamed'
    <2>1. ASSUME NEW st \in {"ok", "quota", "fast", "timeout"}, slot' = [slot EXCEPT ![s].pc = "ended", ![s].status = st]
          PROVE  slot' = [slot EXCEPT ![s] = [slot[s] EXCEPT !.pc = "ended", !.status = st, !.left = slot[s].left]]
      BY <1>0, <2>1 DEF SlotRecords
    <2>2. CASE \E st \in {"ok", "quota", "fast"} :
             /\ slot' = [slot EXCEPT ![s].pc = "ended", ![s].status = st]
             /\ blamed' = IF st = "quota" THEN blamed \cup {slot[s].p} ELSE blamed
      BY <1>0, <2>1, <2>2
    <2>3. CASE \E left \in Reset :
             /\ slot' = [slot EXCEPT ![s].pc = "ended", ![s].status = "parsed", ![s].left = left]
             /\ blamed' = blamed \cup {slot[s].p}
      <3>1. PICK left \in Reset :
             /\ slot' = [slot EXCEPT ![s].pc = "ended", ![s].status = "parsed", ![s].left = left]
             /\ blamed' = blamed \cup {slot[s].p}
        BY <2>3
      <3>2. slot' = [slot EXCEPT ![s] = [slot[s] EXCEPT !.pc = "ended", !.status = "parsed", !.left = left]]
        BY <1>0, <3>1 DEF SlotRecords
      <3>3. left \in Nat
        BY PanelAssumption
      <3> QED BY <3>1, <3>2, <3>3
    <2>4. CASE /\ slot' = [slot EXCEPT ![s].pc = "ended", ![s].status = "timeout"]
               /\ blamed' = IF GateCut(s) THEN blamed ELSE blamed \cup {slot[s].p}
      BY <1>0, <2>1, <2>4
    <2>5. CASE /\ slot[s].p \in Tty
               /\ slot' = [slot EXCEPT ![s].pc = "ended", ![s].status = "quota"]
               /\ blamed' = IF GateCut(s) THEN blamed ELSE blamed \cup {slot[s].p}
      BY <1>0, <2>1, <2>5
    <2> QED BY <2>2, <2>3, <2>4, <2>5 DEF EndRun
  <1>2. /\ slot[s].pc = "run" /\ config' = config /\ cd' = cd /\ cache' = cache /\ ledger' = ledger /\ rev' = rev
        /\ out' = out /\ earned' = earned
    BY DEF EndRun
  <1>3. rev.pc = "panel" /\ slot[s].p \in Providers
    BY <1>2, RunsInPanel DEF Asks
  <1>4. PICK by : by = blamed'
    OBVIOUS
  <1>5. blamed \subseteq by /\ by \subseteq Providers
    BY <1>1, <1>3, <1>4 DEF Reviewed, Typed
  <1>6. PICK sl : sl = [slot[s] EXCEPT !.pc = "ended", !.status = st, !.left = left]
    OBVIOUS
  <1>7. /\ sl \in SlotRecords /\ sl.pc = "ended" /\ sl.status = st /\ sl.p = slot[s].p /\ sl.at = slot[s].at
        /\ sl.asked = slot[s].asked /\ sl.eff = slot[s].eff /\ sl.clamped = slot[s].clamped
    BY <1>0, <1>6 DEF SlotRecords, RunStatuses
  <1>8. Asks(s, sl)
    BY <1>2, <1>7, EndedAsks
  <1>9. Noted(sl, by)
    <2>0. SUFFICES ASSUME Tty = {} PROVE Noted(sl, by)
      BY DEF Noted
    <2>1. \A n \in DOMAIN sl.eff : sl.eff[n].kind # "clear" => sl.eff[n].p \in by
      BY <1>5, <1>7, <2>0 DEF AllNoted, Noted
    <2>2. sl.status \in {"quota", "parsed"} \/ (sl.status = "timeout" /\ ~sl.clamped /\ ~rev.tight) => sl.p \in by
      BY <1>1, <1>4, <1>7, <2>0 DEF GateCut
    <2> QED BY <1>7, <2>1, <2>2 DEF Noted
  <1>10. slot' = [slot EXCEPT ![s] = sl]
    BY <1>1, <1>6
  <1> QED BY <1>2, <1>3, <1>4, <1>5, <1>7, <1>8, <1>9, <1>10, SlotKeeps

LEMMA KillOrRetryKeeps ==
  ASSUME Reviewed, AllNoted, NEW s \in Slots, KillRun(s) \/ RetryRun(s)
  PROVE  Reviewed' /\ AllNoted'
  <1>1. /\ slot[s].pc \in {"run", "ended"} /\ config' = config /\ cd' = cd /\ cache' = cache /\ ledger' = ledger
        /\ rev' = rev /\ out' = out /\ earned' = earned /\ blamed' = blamed
    BY DEF KillRun, RetryRun, history
  <1>2. rev.pc = "panel" /\ slot[s] \in SlotRecords
    BY <1>1, RunsInPanel
  <1>3. PICK sl :
          /\ slot' = [slot EXCEPT ![s] = sl] /\ sl \in SlotRecords
          /\ sl.p = slot[s].p /\ sl.at = slot[s].at /\ sl.asked = slot[s].asked /\ sl.eff = slot[s].eff
          /\ sl.pc = "run" \/ (sl.pc = "ended" /\ sl.status \in {"timeout", "fast"} /\ rev.aborted)
    <2>1. CASE KillRun(s)
      <3>1. PICK st \in {"timeout", "fast"} : slot' = [slot EXCEPT ![s].pc = "ended", ![s].status = st]
        BY <2>1 DEF KillRun
      <3>2. PICK sl : sl = [slot[s] EXCEPT !.pc = "ended", !.status = st]
        OBVIOUS
      <3>3. slot' = [slot EXCEPT ![s] = sl]
        BY <1>2, <3>1, <3>2 DEF SlotRecords
      <3>4. /\ sl \in SlotRecords /\ sl.p = slot[s].p /\ sl.at = slot[s].at /\ sl.asked = slot[s].asked
            /\ sl.eff = slot[s].eff /\ sl.pc = "ended" /\ sl.status = st
        BY <1>2, <3>2 DEF SlotRecords, RunStatuses
      <3> QED BY <2>1, <3>3, <3>4 DEF KillRun
    <2>2. CASE RetryRun(s)
      <3>1. PICK sl : sl = [slot[s] EXCEPT !.pc = "run", !.again = FALSE]
        OBVIOUS
      <3>2. slot' = [slot EXCEPT ![s] = sl]
        BY <1>2, <2>2, <3>1 DEF SlotRecords, RetryRun
      <3>3. /\ sl \in SlotRecords /\ sl.p = slot[s].p /\ sl.at = slot[s].at /\ sl.asked = slot[s].asked
            /\ sl.eff = slot[s].eff /\ sl.pc = "run"
        BY <1>2, <3>1 DEF SlotRecords
      <3> QED BY <3>2, <3>3
    <2> QED BY <2>1, <2>2
  <1>4. PICK by : by = blamed
    OBVIOUS
  <1>5. Asks(s, sl)
    BY <1>1, <1>3, EndedAsks
  <1>6. Noted(sl, by)
    BY <1>3, <1>4 DEF AllNoted, Noted
  <1> QED BY <1>1, <1>2, <1>3, <1>4, <1>5, <1>6, SlotKeeps DEF Reviewed, Typed

LEMMA EffectsAreEarned ==
  ASSUME NEW p \in Providers, NEW status, NEW fair, NEW left \in Nat
  PROVE  LET e == Effects(p, status, fair, left) IN
         /\ e \in Noticed
         /\ \A n \in DOMAIN e : e[n].p = p /\ (e[n].kind # "clear" => status \in {"quota", "parsed"} \/ (status = "timeout" /\ fair))
         /\ status = "ok" => \E n \in DOMAIN e : e[n].p = p /\ e[n].kind = "clear"
  <1> DEFINE Fits(e) == /\ e \in Noticed
                        /\ \A n \in DOMAIN e : /\ e[n].p = p
                                               /\ e[n].kind # "clear" => status \in {"quota", "parsed"} \/ (status = "timeout" /\ fair)
                        /\ status = "ok" => \E n \in DOMAIN e : e[n].p = p /\ e[n].kind = "clear"
  <1>0. \A r \in [p : Providers, kind : Kinds, left : Nat] : <<r>> \in Noticed /\ DOMAIN <<r>> = {1} /\ <<r>>[1] = r
    <2>1. \A E : \A r \in E : <<r>> \in Seq(E)
      OBVIOUS
    <2> QED BY <2>1 DEF Noticed
  <1>1. CASE status = "ok"
    <2>1. PICK r : r = [p |-> p, kind |-> "clear", left |-> 0]
      OBVIOUS
    <2>2. r \in [p : Providers, kind : Kinds, left : Nat] /\ r.p = p /\ r.kind = "clear"
      BY <2>1 DEF Kinds
    <2>3. Fits(<<r>>)
      BY <1>0, <1>1, <2>2
    <2> QED BY <1>1, <2>1, <2>3 DEF Effects
  <1>2. CASE status = "parsed"
    <2>1. PICK r : r = [p |-> p, kind |-> "parsed", left |-> left]
      OBVIOUS
    <2>2. r \in [p : Providers, kind : Kinds, left : Nat] /\ r.p = p
      BY <2>1 DEF Kinds
    <2>3. Fits(<<r>>)
      BY <1>0, <1>2, <2>2
    <2> QED BY <1>2, <2>1, <2>3 DEF Effects
  <1>3. CASE status = "quota" \/ (status = "timeout" /\ fair)
    <2>1. PICK r : r = [p |-> p, kind |-> "default", left |-> 0]
      OBVIOUS
    <2>2. r \in [p : Providers, kind : Kinds, left : Nat] /\ r.p = p
      BY <2>1 DEF Kinds
    <2>3. Fits(<<r>>)
      BY <1>0, <1>3, <2>2
    <2> QED BY <1>3, <2>1, <2>3 DEF Effects
  <1>4. CASE status \notin {"ok", "parsed", "quota"} /\ ~(status = "timeout" /\ fair)
    <2>1. Effects(p, status, fair, left) = <<>>
      BY <1>4 DEF Effects
    <2>2. <<>> \in Noticed
      BY DEF Noticed
    <2> QED BY <1>4, <2>1, <2>2
  <1> QED BY <1>1, <1>2, <1>3, <1>4

LEMMA ReturnedKeeps ==
  ASSUME Reviewed, AllNoted, NEW s \in Slots, Returned(s)
  PROVE  Reviewed' /\ AllNoted'
  <1>1. /\ slot[s].pc = "ended" /\ config' = config /\ cd' = cd /\ cache' = cache /\ ledger' = ledger
        /\ rev' = rev /\ out' = out /\ earned' = earned /\ blamed' = blamed
    BY DEF Returned, history
  <1>2. rev.pc = "panel" /\ slot[s] \in SlotRecords /\ Asks(s, slot[s]) /\ slot[s].p \in Providers
    BY <1>1, RunsInPanel DEF Asks
  <1> DEFINE fair == ~rev.aborted /\ ~slot[s].clamped /\ ~rev.tight
  <1>3. PICK e : e = Effects(slot[s].p, slot[s].status, fair, slot[s].left)
    OBVIOUS
  <1>4. /\ e \in Noticed
        /\ \A n \in DOMAIN e : e[n].p = slot[s].p /\ (e[n].kind # "clear" =>
                slot[s].status \in {"quota", "parsed"} \/ (slot[s].status = "timeout" /\ fair))
        /\ slot[s].status = "ok" => \E n \in DOMAIN e : e[n].p = slot[s].p /\ e[n].kind = "clear"
    <2>1. slot[s].left \in Nat
      BY <1>2 DEF SlotRecords
    <2> HIDE DEF fair
    <2> QED BY <1>2, <1>3, <2>1, EffectsAreEarned
  <1>5. PICK q : q = slot[s].eff \o e
    OBVIOUS
  <1>6. /\ q \in Noticed
        /\ \A n \in DOMAIN q : (\E m \in DOMAIN slot[s].eff : q[n] = slot[s].eff[m]) \/ (\E m \in DOMAIN e : q[n] = e[m])
        /\ \A m \in DOMAIN e : \E n \in DOMAIN q : q[n] = e[m]
    <2> DEFINE R == [p : Providers, kind : Kinds, left : Nat]
    <2> HIDE DEF R
    <2>1. \A a, b \in Seq(R) :
             /\ a \o b \in Seq(R)
             /\ \A n \in DOMAIN (a \o b) : n \in DOMAIN a \/ (n - Len(a) \in DOMAIN b)
             /\ \A n \in DOMAIN a : (a \o b)[n] = a[n]
             /\ \A n \in DOMAIN (a \o b) : n - Len(a) \in DOMAIN b => (a \o b)[n] = b[n - Len(a)]
             /\ \A m \in DOMAIN b : Len(a) + m \in DOMAIN (a \o b) /\ (a \o b)[Len(a) + m] = b[m]
      OBVIOUS
    <2>2. slot[s].eff \in Noticed
      BY <1>2 DEF SlotRecords
    <2>3. PICK a : a = slot[s].eff
      OBVIOUS
    <2>5. Noticed = Seq(R)
      BY DEF Noticed, R
    <2>4. /\ q \in Noticed
          /\ \A n \in DOMAIN q : n \in DOMAIN a \/ (n - Len(a) \in DOMAIN e)
          /\ \A n \in DOMAIN a : q[n] = a[n]
          /\ \A n \in DOMAIN q : n - Len(a) \in DOMAIN e => q[n] = e[n - Len(a)]
          /\ \A m \in DOMAIN e : Len(a) + m \in DOMAIN q /\ q[Len(a) + m] = e[m]
      BY <1>4, <1>5, <2>1, <2>2, <2>3, <2>5
    <2> QED BY <2>3, <2>4
  <1>7. PICK base : base = [slot[s] EXCEPT !.eff = q]
    OBVIOUS
  <1>8. /\ base \in SlotRecords /\ base.eff = q /\ base.p = slot[s].p /\ base.status = slot[s].status
        /\ base.at = slot[s].at /\ base.asked = slot[s].asked
    BY <1>2, <1>6, <1>7 DEF SlotRecords
  <1>9. PICK by : by = blamed
    OBVIOUS
  <1>10. Noted(slot[s], by)
    BY <1>9 DEF AllNoted
  <1>11. Tty = {} => \A n \in DOMAIN e : e[n].kind # "clear" => e[n].p \in by
    BY <1>1, <1>4, <1>10 DEF Noted
  <1>12. Tty = {} => \A n \in DOMAIN q : q[n].kind # "clear" => q[n].p \in by
    BY <1>6, <1>10, <1>11 DEF Noted
  <1>13. base.status = "ok" => \E n \in DOMAIN base.eff : base.eff[n].p = base.p /\ base.eff[n].kind = "clear"
    BY <1>4, <1>6, <1>8
  <1>14. PICK sl : sl = FailOver(s, base)
    OBVIOUS
  <1>15. sl \in SlotRecords /\ Asks(s, sl) /\ Noted(sl, by)
    <2>1. /\ base.asked # {}
          /\ rev.budget # "none" => config.slots[s].primary \in base.asked \/ Cooled(config.slots[s].primary)
          /\ \A n \in DOMAIN Ladder(s) : n <= base.at /\ MayAsk(s, n) => Ladder(s)[n] \in base.asked
      BY <1>1, <1>2, <1>8 DEF Asks
    <2> QED BY <1>8, <1>12, <1>13, <1>14, <2>1, FailOverAsks DEF Reviewed
  <1>16. slot' = [slot EXCEPT ![s] = sl]
    BY <1>3, <1>5, <1>7, <1>14 DEF Returned
  <1> QED BY <1>1, <1>2, <1>9, <1>15, <1>16, SlotKeeps DEF Reviewed, Typed

LEMMA CollectKeeps ==
  ASSUME Reviewed, AllNoted, Collect
  PROVE  Reviewed' /\ AllNoted'
  <1>1. /\ rev.pc = "panel" /\ config' = config /\ cache' = cache /\ ledger' = ledger /\ slot' = slot
        /\ out' = out /\ earned' = earned /\ blamed' = blamed /\ cd' = [p \in Providers |-> Applied(p)]
        /\ \A s \in Slots : slot[s].pc \in {"done", "absent"}
    BY DEF Collect, history
  <1>2. Slots' = Slots /\ Providers' = Providers /\ SlotRecords' = SlotRecords
    BY <1>1 DEF Slots, Providers, SlotRecords, Noticed
  <1>3. /\ DOMAIN rev' = DOMAIN rev /\ rev'.pc = "judge" /\ rev'.env = rev.env /\ rev'.c = rev.c /\ rev'.scope = rev.scope
        /\ rev'.budget = rev.budget /\ rev'.aborted = rev.aborted /\ rev'.tight = rev.tight
    BY DEF Collect, Reviewed, Typed, Idle
  <1>4. cd' \in [Providers -> Cooldown \cup {Null}]
    BY <1>1, AppliedStays DEF Reviewed
  <1>5. Typed'
    BY <1>1, <1>2, <1>3, <1>4 DEF Reviewed, Typed
  <1>6. AllNoted'
    BY <1>1, <1>2, <1>3 DEF AllNoted, Noted
  <1>7. Quiet' /\ AllAsk' /\ Remembered'
    BY <1>1, <1>3 DEF Reviewed, Quiet, AllAsk, Remembered
  <1>8. ASSUME NEW s \in Slots, slot[s].pc = "done", slot[s].status # "unbudgeted", \A t \in Slots : slot[t].asked = {}
        PROVE  Cooled(config.slots[s].primary)'
    <2>1. \A t \in Slots : slot[t].eff = <<>> /\ DOMAIN slot[t].eff = {}
      BY <1>1, <1>8 DEF Reviewed, AllAsk, Asks
    <2>2. \A p \in Providers, kind \in Kinds : Had(p, kind) = {}
      BY <2>1, HadOne
    <2>3. cd' = [p \in Providers |-> cd[p]]
      BY <1>1, <2>2, AppliedStays DEF Reviewed
    <2>4. cd' = cd
      BY <2>3 DEF Reviewed, Typed
    <2>5. Cooled(config.slots[s].primary)
      BY <1>1, <1>8 DEF Reviewed, AllAsk, Asks
    <2> QED BY <1>1, <2>4, <2>5 DEF Cooled
  <1>9. Explained'
    BY <1>1, <1>2, <1>8 DEF Explained
  <1> QED BY <1>5, <1>6, <1>7, <1>9 DEF Reviewed

LEMMA ElapseKeeps ==
  ASSUME Reviewed, AllNoted, Elapse
  PROVE  Reviewed' /\ AllNoted'
  <1>1. /\ rev.pc # "idle" /\ config' = config /\ cd' = cd /\ cache' = cache /\ ledger' = ledger /\ slot' = slot
        /\ out' = out /\ earned' = earned /\ blamed' = blamed
    BY DEF Elapse, history
  <1>2. Slots' = Slots /\ Providers' = Providers /\ SlotRecords' = SlotRecords
    BY <1>1 DEF Slots, Providers, SlotRecords, Noticed
  <1>3. /\ DOMAIN rev' = DOMAIN rev /\ rev'.pc = rev.pc /\ rev'.env = rev.env /\ rev'.c = rev.c /\ rev'.scope = rev.scope
        /\ rev'.tight = rev.tight /\ (rev.aborted => rev'.aborted) /\ (rev'.budget # "none" => rev.budget # "none")
        /\ rev'.budget \in {"ample", "clamped", "none"} /\ (rev'.aborted => rev'.budget = "none")
    BY DEF Elapse, Reviewed, Typed, Idle
  <1>4. Typed'
    BY <1>1, <1>2, <1>3 DEF Reviewed, Typed
  <1>5. ASSUME NEW s \in Slots
        PROVE  (rev.pc = "panel" => Asks(s, slot[s])') /\ Noted(slot[s], blamed)'
    <2>1. PICK sl, by : sl = slot[s] /\ by = blamed
      OBVIOUS
    <2>2. Noted(sl, by) /\ (rev.pc = "panel" => Asks(s, sl))
      BY <2>1 DEF Reviewed, AllAsk, AllNoted
    <2>3. rev.pc = "panel" => Asks(s, slot[s])'
      BY <1>1, <1>3, <2>1, <2>2, AsksCarries
    <2>4. Noted(slot[s], blamed)'
      BY <1>1, <1>3, <2>1, <2>2, NotedCarries
    <2> QED BY <2>3, <2>4
  <1>6. AllAsk' /\ AllNoted'
    BY <1>2, <1>3, <1>5 DEF AllAsk, AllNoted
  <1>7. Quiet' /\ Explained' /\ Remembered'
    BY <1>1, <1>2, <1>3 DEF Reviewed, Quiet, Explained, Remembered, Cooled
  <1> QED BY <1>4, <1>6, <1>7 DEF Reviewed

LEMMA ReviewedKeeps ==
  ASSUME Reviewed, AllNoted, [Next]_vars
  PROVE  Reviewed' /\ AllNoted'
  <1>1. CASE Tick
    BY <1>1, TickKeeps
  <1>2. CASE Begin \/ Gather
    BY <1>2, OutsideKeeps
  <1>3. CASE SkipPass \/ SkipIncomplete \/ ChecksFail \/ ServeLedger \/ ServeCache \/ NoReview \/ Reject \/ Kill
    BY <1>3, EndsKeep
  <1>4. CASE Launch
    BY <1>4, LaunchKeeps
  <1>5. CASE Collect
    BY <1>5, CollectKeeps
  <1>6. CASE Judge
    BY <1>6, JudgeKeeps
  <1>7. CASE Elapse
    BY <1>7, ElapseKeeps
  <1>8. CASE \E s \in Slots : EndRun(s) \/ KillRun(s) \/ RetryRun(s) \/ Returned(s)
    BY <1>8, EndRunKeeps, KillOrRetryKeeps, ReturnedKeeps
  <1>9. CASE UNCHANGED vars
    <2>1. /\ config' = config /\ cd' = cd /\ cache' = cache /\ ledger' = ledger /\ slot' = slot /\ rev' = rev
          /\ out' = out /\ earned' = earned /\ blamed' = blamed
      BY <1>9 DEF vars
    <2>2. Slots' = Slots /\ Providers' = Providers /\ SlotRecords' = SlotRecords
      BY <2>1 DEF Slots, Providers, SlotRecords, Noticed
    <2>3. Typed' /\ Quiet' /\ Remembered'
      BY <2>1, <2>2 DEF Reviewed, Typed, Quiet, Remembered
    <2>4. AllNoted'
      BY <2>1, <2>2 DEF AllNoted, Noted
    <2>5. Explained'
      BY <2>1, <2>2 DEF Reviewed, Explained, Cooled
    <2>6. ASSUME NEW s \in Slots, rev.pc = "panel" PROVE Asks(s, slot[s])'
      <3>1. PICK sl : sl = slot[s]
        OBVIOUS
      <3>2. Asks(s, sl)
        BY <2>6, <3>1 DEF Reviewed, AllAsk
      <3> QED BY <2>1, <3>1, <3>2, AsksCarries
    <2>7. AllAsk'
      BY <2>1, <2>2, <2>6 DEF AllAsk
    <2> QED BY <2>3, <2>4, <2>5, <2>7 DEF Reviewed
  <1> QED BY <1>1, <1>2, <1>3, <1>4, <1>5, <1>6, <1>7, <1>8, <1>9 DEF Next, InReview

LEMMA ReviewedAlways == Spec => [](Reviewed /\ AllNoted)
  <1>1. Init => Reviewed /\ AllNoted
    BY BeginsWell
  <1>2. (Reviewed /\ AllNoted) /\ [Next]_vars => (Reviewed /\ AllNoted)'
    BY ReviewedKeeps
  <1> QED BY <1>1, <1>2, PTL DEF Spec

\* Every variable has its type, whatever the configuration; a slot only runs providers
\* that the panel may use (the slots of runIteration, and the cooldowns it leaves).
THEOREM PanelTypes == Spec => []TypeOK
  <1>1. Reviewed => TypeOK
    <2>1. SUFFICES ASSUME Reviewed PROVE TypeOK
      OBVIOUS
    <2>2. ASSUME NEW s \in Slots
          PROVE  /\ slot[s].pc \in {"absent", "run", "ended", "done"} /\ slot[s].status \in RunStatuses
                 /\ slot[s].pc = "run" => slot[s].p \in config.registered
      <3>1. slot[s] \in SlotRecords
        BY <2>1 DEF Reviewed, Typed
      <3>2. slot[s].pc = "run" => slot[s].p \in config.registered
        BY <2>1, RunsInPanel DEF Asks
      <3> QED BY <3>1, <3>2 DEF SlotRecords
    <2> QED BY <2>1, <2>2 DEF Reviewed, Typed, TypeOK
  <1> QED BY <1>1, ReviewedAlways, PTL

\* While there is time, no slot gives up before it has asked everybody it may ask, for
\* any panel, any fallbacks and any cooldowns (the failover loops of runIteration).
THEOREM NobodyIsLeftOut == Spec => []NobodyLeftToAsk
  <1>1. Reviewed => NobodyLeftToAsk
    <2>1. SUFFICES ASSUME Reviewed, rev.pc = "panel", config.failover, rev.budget # "none",
                          NEW s \in Slots, slot[s].pc = "done", slot[s].status # "ok",
                          NEW p \in (ToSet(LastResort) \cap config.enabled) \cup ToSet(config.slots[s].fallback),
                          Usable(p), ~Cooled(p)
                   PROVE  p \in slot[s].asked
      BY DEF NobodyLeftToAsk
    <2>2. /\ \A n \in DOMAIN Ladder(s) : MayAsk(s, n) => Ladder(s)[n] \in slot[s].asked
          /\ config.slots[s].primary \in slot[s].asked \/ Cooled(config.slots[s].primary)
      BY <2>1 DEF Reviewed, AllAsk, Asks
    <2>3. CASE p \in ToSet(config.slots[s].fallback)
      <3>1. PICK n \in DOMAIN Ladder(s) : n <= Len(config.slots[s].fallback) /\ Ladder(s)[n] = p
        BY <2>1, <2>3, LadderNames DEF Reviewed
      <3>2. n \in Nat /\ Len(config.slots[s].fallback) \in Nat
        <4>1. config.slots[s].fallback \in Seq(Providers)
          BY <2>1, ConfigsAssumption DEF Reviewed, Typed, Slots, Providers
        <4>2. n \in Nat
          BY <2>1, <3>1, LadderNames DEF Reviewed
        <4> QED BY <4>1, <4>2
      <3>3. MayAsk(s, n)
        BY <2>1, <3>1, <3>2 DEF MayAsk
      <3> QED BY <2>2, <3>1, <3>3
    <2>4. CASE p \notin ToSet(config.slots[s].fallback) /\ p \in ToSet(LastResort) /\ p \in config.enabled
      <3>1. PICK n \in DOMAIN Ladder(s) : Ladder(s)[n] = p
        BY <2>1, <2>4, LadderNames DEF Reviewed
      <3>2. p # config.slots[s].primary => MayAsk(s, n)
        BY <2>1, <2>4, <3>1 DEF MayAsk
      <3> QED BY <2>1, <2>2, <3>1, <3>2
    <2> QED BY <2>1, <2>3, <2>4
  <1> QED BY <1>1, ReviewedAlways, PTL

\* One review takes a provider at most one step along the backoff schedule, only after
\* a failure of its own, and not if one of its runs was good, for any slots and any
\* order of ends and aborts; provided no provider takes the end of its time for a
\* quota (applyCooldownEffects, effectFor).
THEOREM StrikesFair == Tty = {} /\ Spec => StrikesAreFair
  <1>0. SUFFICES ASSUME Tty = {} PROVE Spec => StrikesAreFair
    OBVIOUS
  <1>1. ASSUME Reviewed, AllNoted, Tty = {}, [Next]_vars
        PROVE  StrikesAreFairStep
    <2>1. SUFFICES ASSUME NEW p \in Providers
                   PROVE  /\ Strikes(cd'[p]) <= Strikes(cd[p]) + 1
                          /\ rev.pc = "panel" /\ cd'[p] # cd[p] /\ cd'[p] # Null =>
                                p \in blamed /\ \A s \in Slots : slot[s].status = "ok" => slot[s].p # p
      BY DEF StrikesAreFairStep
    <2>2. cd[p] \in Cooldown \cup {Null}
      BY <1>1 DEF Reviewed, Typed
    <2>3. CASE cd' = cd
      <3>1. Strikes(cd[p]) \in Nat
        BY <2>2, PanelAssumption DEF Strikes, Cooldown
      <3> QED BY <2>3, <3>1
    <2>4. CASE Tick
      <3>1. cd'[p] = Older(cd[p]) /\ rev.pc = "idle"
        BY <2>4 DEF Tick
      <3> QED BY <2>2, <3>1, OlderStays
    <2>5. CASE Collect
      <3>1. cd'[p] = Applied(p) /\ rev.pc = "panel" /\ \A s \in Slots : slot[s].pc \in {"done", "absent"}
        BY <2>5 DEF Collect
      <3>2. /\ Strikes(Applied(p)) <= Strikes(cd[p]) + 1
            /\ Applied(p) # cd[p] /\ Applied(p) # Null =>
                  Had(p, "clear") = {} /\ (Had(p, "parsed") # {} \/ Had(p, "default") # {})
        BY <1>1, AppliedStays DEF Reviewed
      <3>3. ASSUME Had(p, "parsed") # {} \/ Had(p, "default") # {}
            PROVE  p \in blamed
        <4>1. PICK s \in Slots : \E n \in DOMAIN slot[s].eff : slot[s].eff[n].p = p /\ slot[s].eff[n].kind # "clear"
          BY <3>3, HadOne
        <4> QED BY <1>1, <4>1 DEF AllNoted, Noted
      <3>4. ASSUME Had(p, "clear") = {}, NEW s \in Slots, slot[s].status = "ok"
            PROVE  slot[s].p # p
        <4>1. slot[s].pc = "done"
          BY <1>1, <3>1, <3>4 DEF Reviewed, AllAsk, Asks, NoSlot
        <4>2. \E n \in DOMAIN slot[s].eff : slot[s].eff[n].p = slot[s].p /\ slot[s].eff[n].kind = "clear"
          BY <1>1, <3>4, <4>1 DEF AllNoted, Noted
        <4> QED BY <3>4, <4>2, HadOne
      <3> QED BY <3>1, <3>2, <3>3, <3>4
    <2>6. cd' = cd \/ Tick \/ Collect
      BY <1>1 DEF Next, InReview, vars, Begin, SkipPass, SkipIncomplete, ChecksFail, Gather, ServeLedger, ServeCache,
                  Launch, NoReview, Judge, Reject, EndRun, KillRun, RetryRun, Returned, Elapse, Kill
    <2> QED BY <2>3, <2>4, <2>5, <2>6
  <1>2. Reviewed /\ AllNoted /\ [Next]_vars => StrikesAreFairStep
    BY <1>0, <1>1
  <1> QED BY <1>2, ReviewedAlways, PTL DEF Spec, StrikesAreFair

\* A verdict that is served was earned by the same content in the same scope and
\* environment, and an outage is reported only if a reviewer was asked or is capped,
\* for any configuration (cache.ts, the pass ledger, allReviewersInfraFailed).
THEOREM Grounded == Spec => VerdictIsGrounded
  <1>1. ASSUME Reviewed, [Next]_vars
        PROVE  VerdictIsGroundedStep
    <2> DEFINE record == [c |-> rev.c, env |-> rev.env, scope |-> rev.scope]
    <2>1. CASE ServeLedger
      <3>1. rev.pc = "lookup" /\ ledger = record /\ out' = Result("PASS", "content-cache")
        BY <2>1 DEF ServeLedger, LedgerHit, Conclude, End
      <3>2. record \in [c : {i.c : i \in config.inputs}, env : config.envs, scope : {i.scope : i \in config.inputs}]
        BY <1>1, <3>1 DEF Reviewed, Remembered
      <3>3. ledger # Null
        BY <1>1, <3>1, <3>2, ConfigsAssumption DEF Reviewed, Typed
      <3> QED BY <1>1, <3>1, <3>3 DEF Reviewed, Remembered, VerdictIsGroundedStep
    <2>2. CASE ServeCache
      <3>1. rev.pc = "lookup" /\ CacheKey \in DOMAIN cache /\ cache[CacheKey] = "PASS"
        BY <2>2 DEF ServeCache, Cached
      <3>2. CacheKey.c = rev.c /\ CacheKey.env = rev.env /\ CacheKey.scope = rev.scope
        BY DEF CacheKey
      <3>3. record \in earned
        BY <1>1, <3>1, <3>2 DEF Reviewed, Remembered
      <3> QED BY <3>1, <3>3 DEF VerdictIsGroundedStep
    <2>3. CASE NoReview
      <3>1. PICK locked : out' = [Result("ERROR", "panel") EXCEPT !.quotaLocked = locked,
                                     !.infraFailed = \E s \in Settled : slot[s].status # "unbudgeted"]
        BY <2>3 DEF NoReview, Conclude, End
      <3>2. out'.source = "panel" /\ (out'.infraFailed <=> \E s \in Settled : slot[s].status # "unbudgeted")
        BY <3>1 DEF Result, NoVerdict
      <3>3. rev.pc = "judge"
        BY <2>3 DEF NoReview
      <3>4. out'.infraFailed => \E s \in Slots : slot[s].asked # {} \/ Cooled(config.slots[s].primary)
        BY <1>1, <3>2, <3>3 DEF Reviewed, Explained, Settled
      <3> QED BY <3>2, <3>4 DEF VerdictIsGroundedStep
    <2>4. CASE Judge \/ Reject \/ Kill \/ SkipPass \/ ChecksFail
      <3>1. PICK v, w : out' = Result(v, w) /\ w \in {"panel", "none", "skipped", "checks"}
        BY <2>4 DEF Judge, Reject, Kill, SkipPass, ChecksFail, Conclude, End
      <3>2. out'.source = w /\ out'.infraFailed = FALSE
        BY <3>1 DEF Result, NoVerdict
      <3> QED BY <3>1, <3>2 DEF VerdictIsGroundedStep
    <2>5. CASE SkipIncomplete
      <3>1. out' = [Result("ERROR", "skipped") EXCEPT !.infraFailed = TRUE] /\ rev.pc = "triage"
        BY <2>5 DEF SkipIncomplete, Conclude, End
      <3>2. out'.source = "skipped"
        BY <3>1 DEF Result, NoVerdict
      <3> QED BY <3>1, <3>2 DEF VerdictIsGroundedStep
    <2>6. CASE out' = out
      <3>1. rev.pc = "judge" => ~out.infraFailed
        BY <1>1 DEF Reviewed, Quiet, NoVerdict
      <3> QED BY <2>6, <3>1 DEF VerdictIsGroundedStep
    <2>7. CASE Begin
      <3>1. out' = NoVerdict /\ rev.pc = "idle" /\ NoVerdict.source = "none"
        BY <2>7 DEF Begin, NoVerdict
      <3> QED BY <3>1 DEF VerdictIsGroundedStep
    <2>8. \/ out' = out \/ Begin \/ SkipIncomplete \/ Judge \/ Reject \/ Kill \/ SkipPass \/ ChecksFail \/ NoReview
          \/ ServeCache \/ ServeLedger
      BY <1>1 DEF Next, InReview, vars, Tick, Gather, Launch, Collect, EndRun, KillRun, RetryRun, Returned, Elapse
    <2> QED BY <2>1, <2>2, <2>3, <2>4, <2>5, <2>6, <2>7, <2>8
  <1>2. Reviewed /\ [Next]_vars => VerdictIsGroundedStep
    BY <1>1
  <1> QED BY <1>2, ReviewedAlways, PTL DEF Spec, VerdictIsGrounded
=============================================================================

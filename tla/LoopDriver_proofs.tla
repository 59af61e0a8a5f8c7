------------------------- MODULE LoopDriver_proofs -------------------------
(***************************************************************************)
(* What holds of the review loop for every configuration, every panel and  *)
(* every agent: its state keeps its types, a cycle ends within the hard    *)
(* cap, no round starts over undecided findings, and an outage lets only   *)
(* so many stops go before a human is told.                                *)
(***************************************************************************)
EXTENDS LoopDriver, FiniteSetTheorems, TLAPS

(* The codes of an escalation: its reason, or the hard cap. *)
Codes == Reasons \cup {"hard-cap"}

(* What is always true of state.json: an escalation is announced in the     *)
(* step that makes it, the latch is an escalation, and the histories of a   *)
(* cycle are as long as the cycle, which the hard cap bounds.               *)
Sound(s) ==
  /\ s \in States
  /\ s.announced = s.escalated
  /\ Latched(s) => s.escalated
  /\ s.iteration <= HardCap(MaxIterations)
  /\ Len(s.rows) = s.iteration
  /\ Len(s.fps) <= s.iteration
  /\ s.fpThrough <= s.iteration

(* While the panel runs, no escalation is in force but the quota latch, and *)
(* a round is left below the hard cap.                                      *)
NoneInForce(s) == s.escalated => Latched(s)
RoundLeft(s) == s.iteration < HardCap(MaxIterations)

(* Open findings are findings of the current round that have no decision.   *)
OpenIsUndecided ==
  /\ open \subseteq Undecided
  /\ open # {} => st.iteration > 0 /\ ~st.escalated

(* A stop let go has been counted by one of the two counters. *)
Counters(s, w) ==
  ~Latched(s) => w <= s.quota + s.infra /\ s.quota <= QuotaCap

IInv ==
  /\ TypeOK
  /\ Sound(st)
  /\ pc = "reviewing" => NoneInForce(st) /\ RoundLeft(st) /\ open = {}
  /\ OpenIsUndecided
  /\ Counters(st, waived)

-----------------------------------------------------------------------------
(* The ladder. *)

(* A stop that climbs the whole ladder is below the hard cap and leaves     *)
(* nothing undecided.                                                        *)
LEMMA ReviewMeans ==
  ASSUME NEW s, Rung(s) = "review"
  PROVE  ~HardCapReached(s) /\ ~Unaddressed(s)
BY DEF Rung, Asked

(* Every other rung is an escalation, or the re-prompt. *)
LEMMA RungIsCode ==
  ASSUME NEW s
  PROVE  Rung(s) \in (Codes \ {Latch}) \cup {"re-prompt", "review"}
BY DEF Rung, Codes, Reasons, Latch

LEMMA HardCapIsNat == HardCap(MaxIterations) \in Nat \ {0}
BY ConfigAssumption DEF HardCap, LowerOf

(* The per-diff cap only lowers the hard cap. *)
LEMMA CapOnlyLowered ==
  ASSUME NEW s, s \in States, ~HardCapReached(s)
  PROVE  RoundLeft(s)
<1>1. /\ MaxIterations \in Nat \ {0}
      /\ s.override \in (Nat \ {0}) \cup {None}
      /\ s.iteration \in Nat
      /\ None \notin Nat
  BY ConfigAssumption DEF States
<1>2. MaxIter(s) \in Nat /\ MaxIter(s) <= MaxIterations
  BY <1>1 DEF MaxIter, LowerOf
<1> QED BY <1>1, <1>2 DEF HardCapReached, RoundLeft, HardCap, LowerOf

-----------------------------------------------------------------------------
(* What the operations on state.json keep. *)

LEMMA LatchIsCode == Latch # None /\ Latch \in Reasons
<1>1. Latch \in Reasons BY DEF Reasons
<1>2. None \notin Reasons BY ConfigAssumption
<1> QED BY <1>1, <1>2

(* A new cycle starts from empty histories. *)
LEMMA CyclesAreSound ==
  ASSUME NEW s, Sound(s)
  PROVE  Sound(NewCycle(s)) /\ Sound(CloseEscalation(s)) /\ Sound(Rearm(s))
<1> USE ConfigAssumption, HardCapIsNat, LatchIsCode
<1>1. ASSUME NEW t, Sound(t)  PROVE Sound(NewCycle(t))
  <2>0. <<>> \in Seq(SUBSET Findings) /\ <<>> \in Seq(Nat) /\ 0 \in 0..MaxIncomplete
    OBVIOUS
  <2>1. NewCycle(t) \in States
    BY <2>0, <1>1 DEF NewCycle, Sound, States
  <2> QED BY <1>1, <2>1 DEF NewCycle, Sound, States, Latched
<1>2. ASSUME NEW t, Sound(t)  PROVE Sound(CloseEscalation(t))
  BY <1>2 DEF CloseEscalation, Sound, States, Latched, Maybe
<1> QED BY <1>1, <1>2 DEF Rearm

(* Re-arming ends every escalation but the latch; without an escalation it  *)
(* leaves the cycle as it is.                                                *)
LEMMA Rearming ==
  ASSUME IInv
  PROVE  /\ Sound(Rearmed) /\ NoneInForce(Rearmed)
         /\ Rearmed.quota = st.quota /\ Rearmed.infra = st.infra
         /\ Latched(Rearmed) <=> Latched(st)
         /\ ~st.escalated => Rearmed.iteration = st.iteration /\ ~Rearmed.escalated
<1> DEFINE a == PathA(st)
<1> USE LatchIsCode
<1>1. /\ Sound(st) /\ run.head \in Nat /\ run.tree \in Nat
  BY DEF IInv, TypeOK
<1>2. Sound(Rearm(st)) BY <1>1, CyclesAreSound
<1>3. /\ Rearm(st).quota = st.quota /\ Rearm(st).infra = st.infra
      /\ ~Rearm(st).escalated /\ ~Latched(Rearm(st))
  BY <1>1 DEF Rearm, CloseEscalation, NewCycle, Latched, Sound, States
<1>4. ASSUME NEW s, Sound(s)
      PROVE  LET t == [s EXCEPT !.lastHead = run.head, !.lastTree = run.tree]
             IN  /\ Sound(t) /\ t.quota = s.quota /\ t.infra = s.infra
                 /\ Latched(t) <=> Latched(s)
                 /\ t.escalated = s.escalated /\ t.iteration = s.iteration
  BY <1>1, <1>4 DEF Sound, States, Latched
<1>5. /\ Sound(a) /\ a.quota = st.quota /\ a.infra = st.infra
      /\ Latched(a) <=> Latched(st)
      /\ ~st.escalated => a.iteration = st.iteration /\ ~a.escalated
  <2>1. CASE st.lastHead = run.head \/ StandsDown(st)
    BY <2>1, <1>1 DEF PathA
  <2>2. CASE ~(st.lastHead = run.head \/ StandsDown(st)) /\ ClosedByCommit(st)
    <3>1. a = [Rearm(st) EXCEPT !.lastHead = run.head, !.lastTree = run.tree]
      BY <2>2 DEF PathA
    <3>2. st.escalated BY <2>2 DEF ClosedByCommit
    <3>3. ~Latched(st) BY <2>2 DEF ClosedByCommit
    <3>4. /\ Sound(a) /\ a.quota = Rearm(st).quota /\ a.infra = Rearm(st).infra
          /\ Latched(a) <=> Latched(Rearm(st))
      BY <3>1, <1>2, <1>4
    <3> QED BY <3>2, <3>3, <3>4, <1>3
  <2>3. CASE ~(st.lastHead = run.head \/ StandsDown(st)) /\ ~ClosedByCommit(st)
    BY <2>3, <1>1, <1>4 DEF PathA
  <2> QED BY <2>1, <2>2, <2>3
<1>6. Sound(Rearm(a)) BY <1>5, CyclesAreSound
<1>7. /\ Rearm(a).quota = a.quota /\ Rearm(a).infra = a.infra
      /\ ~Rearm(a).escalated /\ ~Latched(Rearm(a))
  BY <1>5 DEF Rearm, CloseEscalation, NewCycle, Latched, Sound, States
<1>8. Rearmed = IF a.escalated /\ a.announced /\ ~Latched(a) THEN Rearm(a) ELSE a
  BY DEF Rearmed, PathB
<1> QED BY <1>5, <1>6, <1>7, <1>8 DEF NoneInForce, Sound

LEMMA WrongRejectsIsNat ==
  ASSUME pending \subseteq Findings
  PROVE  WrongRejects \in Nat
<1>1. IsFiniteSet(Findings) BY FindingsAssumption
<1>2. {f \in Required : dec[f] = "wrong"} \subseteq Findings
  BY DEF Required, Blocking
<1>3. IsFiniteSet({f \in Required : dec[f] = "wrong"})
  BY <1>1, <1>2, FS_Subset
<1> QED BY <1>3, FS_CardinalityType DEF WrongRejects

(* Counting false positives leaves the rounds and the escalation alone.     *)
LEMMA CountingIsSound ==
  ASSUME NEW s, Sound(s), pending \subseteq Findings
  PROVE  /\ Sound(Climbed(s))
         /\ \A x \in {"iteration", "quota", "infra", "escalated", "announced", "reason"} :
              Climbed(s)[x] = s[x]
<1> DEFINE h == [k \in 1..Len(s.rows) |-> IF IsNewest(s, k) THEN WrongRejects
                                          ELSE FpAt(s, k)]
<1>1. WrongRejects \in Nat BY WrongRejectsIsNat
<1>2. s.rows \in Seq(SUBSET Findings) /\ s.fps \in Seq(Nat) /\ s.iteration \in Nat
  BY DEF Sound, States
<1>3. \A k : FpAt(s, k) \in Nat BY <1>2 DEF FpAt
<1>4. h \in Seq(Nat) /\ Len(h) = Len(s.rows)
  <2>1. Len(s.rows) \in Nat BY <1>2
  <2>2. h \in [1..Len(s.rows) -> Nat] BY <1>1, <1>3
  <2> QED BY <2>1, <2>2
<1>5. DOMAIN s.rows = 1..Len(s.rows) BY <1>2
<1>6. Counted(s) = [s EXCEPT !.cumFp = @ + WrongRejects, !.fpThrough = s.iteration,
                             !.fps = h]
  BY <1>5 DEF Counted, Rounds
<1>7. Counted(s) \in States
  <2> HIDE DEF h
  <2>1. s.cumFp + WrongRejects \in Nat BY <1>1 DEF Sound, States
  <2> QED BY <2>1, <1>2, <1>4, <1>6 DEF Sound, States
<1>8. /\ Sound(Counted(s))
      /\ \A x \in {"iteration", "quota", "infra", "escalated", "announced", "reason"} :
           Counted(s)[x] = s[x]
  <2> HIDE DEF h
  <2>1. Counted(s).iteration = s.iteration /\ Counted(s).quota = s.quota
        /\ Counted(s).infra = s.infra /\ Counted(s).escalated = s.escalated
        /\ Counted(s).announced = s.announced /\ Counted(s).reason = s.reason
        /\ Counted(s).rows = s.rows /\ Counted(s).fps = h
        /\ Counted(s).fpThrough = s.iteration
    BY <1>6 DEF Sound, States
  <2> QED BY <2>1, <1>2, <1>4, <1>7 DEF Sound, Latched
<1> QED BY <1>8 DEF Climbed, CountFps

(* An announcement keeps the state sound, and starts the quota count anew. *)
LEMMA AnnouncingIsSound ==
  ASSUME NEW s, Sound(s), NEW code \in Codes,
         run.tree \in Nat, head \in Nat
  PROVE  /\ Sound(Announce(s, code))
         /\ NoneInForce(s) => Counters(Announce(s, code), 0)
<1> USE ConfigAssumption, LatchIsCode
<1>1. CASE s.announced
  <2>1. Announce(s, code) = s BY <1>1 DEF Announce
  <2>2. s.escalated BY <1>1 DEF Sound
  <2> QED BY <2>1, <2>2 DEF NoneInForce, Counters
<1>2. CASE ~s.announced
  <2> DEFINE t == [s EXCEPT !.escalated = TRUE, !.reason = ReasonOf(code),
                            !.announced = TRUE, !.quota = 0, !.escHead = head,
                            !.escTree = run.tree]
  <2>1. Announce(s, code) = t BY <1>2 DEF Announce
  <2>2. ReasonOf(code) \in Reasons BY DEF ReasonOf, Codes, Reasons
  <2>3. 0 \in 0..(QuotaCap + 1) /\ QuotaCap \in Nat OBVIOUS
  <2>4. t \in States BY <2>2, <2>3 DEF Sound, States, Maybe
  <2>5. /\ t.escalated = TRUE /\ t.announced = TRUE
        /\ t.iteration = s.iteration /\ t.rows = s.rows
        /\ t.fps = s.fps /\ t.fpThrough = s.fpThrough /\ t.quota = 0
        /\ t.infra = s.infra /\ s.infra \in Nat
    BY DEF Sound, States
  <2> HIDE DEF t
  <2>6. Sound(t) BY <2>4, <2>5 DEF Sound
  <2>7. Counters(t, 0) BY <2>3, <2>5 DEF Counters
  <2> QED BY <2>1, <2>6, <2>7
<1> QED BY <1>1, <1>2

(* A round that leaves its findings adds one row, below the hard cap. *)
LEMMA RoundsAreSound ==
  ASSUME NEW s, Sound(s), RoundLeft(s), run.head \in Nat, run.tree \in Nat,
         NEW fs \in SUBSET Findings, NEW cost \in Costs,
         NEW override \in Overrides
  PROVE  LET t == Round(s, fs, cost, override)
         IN  /\ Sound(t) /\ t.iteration = s.iteration + 1
             /\ t.escalated = s.escalated /\ t.reason = s.reason
             /\ t.quota = 0 /\ t.infra = 0
<1> DEFINE t == Round(s, fs, cost, override)
<1> USE ConfigAssumption, HardCapIsNat
<1>1. /\ s.rows \in Seq(SUBSET Findings) /\ s.fps \in Seq(Nat)
      /\ s.iteration \in Nat /\ s.cost \in Nat /\ cost \in Nat
  BY DEF Sound, States
<1>2. /\ Append(s.rows, fs) \in Seq(SUBSET Findings)
      /\ Len(Append(s.rows, fs)) = Len(s.rows) + 1
  BY <1>1
<1>3. t = [s EXCEPT !.incomplete = 0, !.infra = 0, !.quota = 0,
                    !.lastHead = run.head, !.lastTree = run.tree,
                    !.iteration = s.iteration + 1, !.cost = s.cost + cost,
                    !.rows = Append(s.rows, fs), !.override = override]
  BY DEF Round, Completed, Sound, States
<1>4. 0 \in 0..MaxIncomplete /\ 0 \in 0..InfraCap /\ 0 \in 0..(QuotaCap + 1)
  OBVIOUS
<1>5. t \in States
  <2> HIDE ConfigAssumption, HardCapIsNat
  <2>1. s.iteration + 1 \in Nat /\ s.cost + cost \in Nat BY <1>1
  <2>2. override \in Overrides \cup {None} OBVIOUS
  <2> QED BY <2>1, <2>2, <1>2, <1>3, <1>4 DEF Sound, States, Maybe
<1>6. /\ t.iteration = s.iteration + 1 /\ t.rows = Append(s.rows, fs)
      /\ t.fps = s.fps /\ t.fpThrough = s.fpThrough
      /\ t.escalated = s.escalated /\ t.announced = s.announced
      /\ t.reason = s.reason /\ t.quota = 0 /\ t.infra = 0
  BY <1>3 DEF Sound, States
<1>7. s.fpThrough \in Nat /\ Len(s.fps) \in Nat BY DEF Sound, States
<1> HIDE DEF t
<1>8. Sound(t)
  <2> HIDE ConfigAssumption
  <2>0. s.fpThrough <= s.iteration BY DEF Sound
  <2>1. t.iteration <= HardCap(MaxIterations)
    BY <1>1, <1>6 DEF RoundLeft
  <2>2. Len(t.rows) = t.iteration /\ Len(t.fps) <= t.iteration
    BY <1>1, <1>2, <1>6, <1>7 DEF Sound
  <2>3. t.fpThrough <= t.iteration
    BY <2>0, <1>1, <1>6, <1>7
  <2>4. t.announced = t.escalated /\ (Latched(t) => t.escalated)
    BY <1>6 DEF Sound, Latched
  <2> QED BY <2>1, <2>2, <2>3, <2>4, <1>5 DEF Sound
<1> QED BY <1>6, <1>8 DEF t

-----------------------------------------------------------------------------
(* The steps. *)

LEMMA CodesOfTheLadder ==
  ASSUME NEW s, Rung(s) \notin {"re-prompt", "review"}
  PROVE  Rung(s) \in Codes /\ Rung(s) # Latch
BY RungIsCode

(* What an answer writes. *)
LEMMA Answering ==
  ASSUME NEW a \in {"none", "green", "block", "deferred", "escalated", "stood down"},
         Answer(a)
  PROVE  /\ pc' = "agent" /\ answer' = a /\ chain' \in BOOLEAN
         /\ run' \in [head : Nat, tree : Nat, base : Nat, rewritten : BOOLEAN]
BY DEF Answer, Idle

(* Whatever is escalated, a human knows of the open findings, and the       *)
(* stops let go are counted from nothing.                                   *)
LEMMA Escalating ==
  ASSUME IInv, NEW s, Sound(s), NoneInForce(s), s.announced => open = {},
         NEW code \in Codes, Escalate(s, code)
  PROVE  /\ Sound(st') /\ Counters(st', waived')
         /\ pc' = "agent" /\ flag' \in Maybe(Nat) /\ chain' \in BOOLEAN
         /\ answer' \in {"block", "escalated"}
         /\ run' \in [head : Nat, tree : Nat, base : Nat, rewritten : BOOLEAN]
         /\ owed' \subseteq Nat /\ open' = {} /\ waived' = 0
<1>1. run.tree \in Nat /\ head \in Nat BY DEF IInv, TypeOK
<1>2. st' = Announce(s, code) BY DEF Escalate
<1>3. Sound(st') /\ Counters(st', 0) BY <1>1, <1>2, AnnouncingIsSound
<1>4. /\ pc' = "agent" /\ answer' \in {"block", "escalated"} /\ chain' \in BOOLEAN
      /\ run' \in [head : Nat, tree : Nat, base : Nat, rewritten : BOOLEAN]
  <2> DEFINE a == IF s.announced \/ ReasonOf(code) \in LetsGo THEN "escalated" ELSE "block"
  <2>1. Answer(a) BY DEF Escalate
  <2>2. a \in {"block", "escalated"} OBVIOUS
  <2> HIDE DEF a
  <2> QED BY <2>1, <2>2, Answering
<1>5. flag' \in Maybe(Nat) BY DEF Escalate, Reaped, IInv, TypeOK, Maybe
<1>6. owed' \subseteq Nat BY DEF Escalate, IInv, TypeOK
<1>7. open' = {} /\ waived' = 0 BY DEF Escalate
<1> QED BY <1>3, <1>4, <1>5, <1>6, <1>7

LEMMA IInvInit == Init => IInv
<1> SUFFICES ASSUME Init PROVE IInv OBVIOUS
<1> USE ConfigAssumption, HardCapIsNat, LatchIsCode DEF Init
<1>1. /\ <<>> \in Seq(SUBSET Findings) /\ <<>> \in Seq(Nat) /\ Len(<<>>) = 0
      /\ 0 \in 0..MaxIncomplete /\ 0 \in 0..InfraCap /\ 0 \in 0..(QuotaCap + 1)
  OBVIOUS
<1>2. st \in States BY <1>1 DEF States, Maybe
<1>3. Sound(st) BY <1>1, <1>2 DEF Sound, Latched
<1>4. TypeOK BY <1>2 DEF TypeOK, Maybe, Idle, Blank
<1>5. OpenIsUndecided BY DEF OpenIsUndecided
<1>6. Counters(st, waived) BY DEF Counters
<1> QED BY <1>3, <1>4, <1>5, <1>6 DEF IInv

(* A step of the world: nothing of the loop changes but what is captured,   *)
(* flagged or decided.                                                       *)
LEMMA AgentSteps ==
  ASSUME IInv, Agent
  PROVE  IInv'
<1>1. ASSUME NEW f \in Findings, NEW d \in Admissible(f) \cup {"invalid"}, Decide(f, d)
      PROVE  IInv'
  <2> USE <1>1 DEF Decide, world
  <2>1. TypeOK' BY DEF IInv, TypeOK, Admissible, Decisions, Rejections
  <2>2. Sound(st)' BY DEF IInv
  <2>3. OpenIsUndecided'
    <3>1. Required' = Required BY DEF Required, Blocking
    <3>2. Undecided' = {g \in Required : dec'[g] \notin Decisions}
      BY <3>1 DEF Undecided, Decided
    <3>3. Undecided = {g \in Required : dec[g] \notin Decisions}
      BY DEF Undecided, Decided
    <3>4. \A g \in Required : dec'[g] = IF g = f THEN d ELSE dec[g]
      BY DEF IInv, TypeOK, Required, Blocking
    <3>5. \A g \in Undecided : g # f => g \in Undecided'
      BY <3>2, <3>3, <3>4
    <3>6. d = "invalid" => Undecided \subseteq Undecided'
      BY <3>2, <3>3, <3>4 DEF Decisions
    <3>7. open' \subseteq open BY DEF IInv
    <3>8. open' \subseteq Undecided'
      BY <3>5, <3>6 DEF IInv, OpenIsUndecided
    <3> QED BY <3>7, <3>8 DEF IInv, OpenIsUndecided
  <2>4. Counters(st, waived)' BY DEF IInv
  <2> QED BY <2>1, <2>2, <2>3, <2>4 DEF IInv
<1>2. ASSUME NEW traced \in BOOLEAN, Edit(traced)
      PROVE  IInv'
  <2>1. /\ edits' \in Nat /\ tree' \in Nat /\ late' \subseteq Nat
    <3>1. head \in Nat /\ edits \in Nat /\ late \subseteq Nat BY DEF IInv, TypeOK
    <3>2. edits' = edits + 1 /\ tree' = edits' /\ late' = late \cup {head + 1}
      BY <1>2 DEF Edit
    <3> QED BY <3>1, <3>2
  <2> USE <1>2 DEF Edit, IInv
  <2>2. TypeOK'
    <3>1. flag' \in Maybe(Nat) BY DEF TypeOK, Maybe
    <3>2. run' \in [head : Nat, tree : Nat, base : Nat, rewritten : BOOLEAN]
      BY DEF TypeOK
    <3> QED BY <2>1, <3>1, <3>2 DEF TypeOK
  <2>3. OpenIsUndecided'
    BY DEF OpenIsUndecided, Undecided, Required, Decided
  <2> QED BY <2>2, <2>3
<1>3. CASE Commit
  <2>1. head' \in Nat /\ tree' \in Nat
    <3>1. head \in Nat BY DEF IInv, TypeOK
    <3>2. head' = head + 1 /\ tree' = 0 BY <1>3 DEF Commit
    <3> QED BY <3>1, <3>2
  <2> USE <1>3 DEF Commit, IInv
  <2>2. TypeOK' BY <2>1 DEF TypeOK
  <2>3. OpenIsUndecided'
    BY DEF OpenIsUndecided, Undecided, Required, Decided
  <2> QED BY <2>2, <2>3
<1> QED BY <1>1, <1>2, <1>3 DEF Agent

(* What the steps of a stop find in the state. *)
LEMMA Found ==
  ASSUME IInv
  PROVE  /\ TypeOK /\ Sound(st) /\ OpenIsUndecided /\ Counters(st, waived)
         /\ st.escalated => open = {}
         /\ DecRearmed \in [Findings -> Decisions \cup {"invalid", None}]
         /\ ~st.escalated => DecRearmed = dec
         /\ Counters(Rearmed, waived)
<1>1. Blank \in [Findings -> Decisions \cup {"invalid", None}] BY DEF Blank
<1>2. TypeOK /\ Sound(st) /\ OpenIsUndecided /\ Counters(st, waived) BY DEF IInv
<1>3. Counters(Rearmed, waived) BY <1>2, Rearming DEF Counters
<1> QED BY <1>1, <1>2, <1>3 DEF DecRearmed, TypeOK, OpenIsUndecided

(* A step that decides nothing, with the findings it found. *)
LEMMA OpenStays ==
  ASSUME OpenIsUndecided, open' = open, pending' = pending, dec' = dec,
         open # {} => st'.iteration = st.iteration /\ ~st'.escalated
  PROVE  OpenIsUndecided'
<1>1. Undecided' = Undecided BY DEF Undecided, Required, Blocking, Decided
<1> QED BY <1>1 DEF OpenIsUndecided

(* After a stop, the agent is at work again and nothing else is in flight.  *)
LEMMA Assemble ==
  ASSUME TypeOK', Sound(st'), pc' # "reviewing", OpenIsUndecided',
         Counters(st', waived')
  PROVE  IInv'
BY DEF IInv

LEMMA SkipKeeps == ASSUME IInv, Skip PROVE IInv'
<1> USE DEF Skip, Capture, world
<1>1. TypeOK' BY Found DEF TypeOK
<1>2. OpenIsUndecided' BY Found, OpenStays DEF OpenIsUndecided
<1>3. Sound(st') /\ Counters(st', waived') BY Found
<1> QED BY <1>1, <1>2, <1>3, Assemble

LEMMA GatherKeeps == ASSUME IInv, Gather PROVE IInv'
<1> USE DEF Gather, Capture, world
<1>0. Base \in Nat BY Found DEF Base, TypeOK, Maybe, Sound, States
<1>1. TypeOK'
  <2>1. run' \in [head : Nat, tree : Nat, base : Nat, rewritten : BOOLEAN]
    BY <1>0, Found DEF TypeOK
  <2>2. flag' \in Maybe(Nat) BY <1>0, Found DEF TypeOK, Maybe
  <2> QED BY <2>1, <2>2, Found DEF TypeOK
<1>2. OpenIsUndecided' BY Found, OpenStays DEF OpenIsUndecided
<1>3. Sound(st') /\ Counters(st', waived') BY Found
<1> QED BY <1>1, <1>2, <1>3, Assemble

LEMMA NothingToReviewKeeps == ASSUME IInv, NothingToReview PROVE IInv'
<1> USE DEF NothingToReview, world
<1>1. TypeOK' BY Found, Answering DEF TypeOK
<1>2. OpenIsUndecided' BY Found, OpenStays DEF OpenIsUndecided
<1>3. Sound(st') /\ Counters(st', waived') BY Found
<1>4. pc' # "reviewing" BY Answering
<1> QED BY <1>1, <1>2, <1>3, <1>4, Assemble

LEMMA RepromptKeeps == ASSUME IInv, Reprompt PROVE IInv'
<1> USE DEF Reprompt, world
<1>0. Sound(st') /\ Counters(st', waived') BY Found, Rearming
<1>1. TypeOK'
  <2>1. st' \in States BY <1>0 DEF Sound
  <2> QED BY <2>1, Found, Answering DEF TypeOK
<1>2. OpenIsUndecided'
  <2>1. CASE open = {} BY <2>1 DEF OpenIsUndecided
  <2>2. CASE open # {} BY <2>2, Found, Rearming, OpenStays DEF OpenIsUndecided
  <2> QED BY <2>1, <2>2
<1>3. pc' # "reviewing" BY Answering
<1> QED BY <1>0, <1>1, <1>2, <1>3, Assemble

LEMMA EndLoopKeeps == ASSUME IInv, EndLoop PROVE IInv'
<1> USE DEF EndLoop, world
<1> DEFINE s == Climbed(Rearmed)
           code == Rung(Rearmed)
<1>1. Sound(s) /\ NoneInForce(s)
  BY Rearming, CountingIsSound DEF IInv, TypeOK, NoneInForce, Latched
<1>2. s.announced => open = {}
  <2>1. s.announced = Rearmed.escalated
    BY Rearming, CountingIsSound DEF IInv, TypeOK, Sound
  <2> QED BY <2>1, Rearming, Found
<1>3. code \in Codes /\ Escalate(s, code) BY CodesOfTheLadder
<1> HIDE DEF s, code
<1>4. /\ Sound(st') /\ Counters(st', waived')
      /\ pc' = "agent" /\ flag' \in Maybe(Nat) /\ chain' \in BOOLEAN
      /\ answer' \in {"block", "escalated"}
      /\ run' \in [head : Nat, tree : Nat, base : Nat, rewritten : BOOLEAN]
      /\ owed' \subseteq Nat /\ open' = {} /\ waived' = 0
  BY <1>1, <1>2, <1>3, Escalating
<1>5. TypeOK'
  <2>1. st' \in States BY <1>4 DEF Sound
  <2> QED BY <1>4, <2>1, Found DEF TypeOK
<1>6. OpenIsUndecided' BY <1>4 DEF OpenIsUndecided
<1> QED BY <1>4, <1>5, <1>6, Assemble

LEMMA PutOffEndKeeps == ASSUME IInv, PutOffEnd PROVE IInv'
<1> USE DEF PutOffEnd, LetGo, world
<1>0. /\ Sound(Rearmed) /\ QuotaCap \in Nat /\ InfraCap \in Nat /\ waived \in Nat
      /\ Rearmed.quota < QuotaCap
  BY ConfigAssumption, Rearming, Found DEF TypeOK
<1>1. /\ st' = [Rearmed EXCEPT !.quota = Rearmed.quota + 1]
      /\ waived' = LowerOf(waived + 1, QuotaCap + InfraCap + 1)
  BY <1>0 DEF Sound, States
<1>2. Rearmed.quota + 1 \in 0..(QuotaCap + 1) BY <1>0 DEF Sound, States
<1>3. st' \in States BY <1>0, <1>1, <1>2 DEF Sound, States
<1>4. /\ st'.iteration = Rearmed.iteration /\ st'.rows = Rearmed.rows
      /\ st'.fps = Rearmed.fps /\ st'.fpThrough = Rearmed.fpThrough
      /\ st'.escalated = Rearmed.escalated /\ st'.announced = Rearmed.announced
      /\ st'.reason = Rearmed.reason /\ st'.infra = Rearmed.infra
      /\ st'.quota = Rearmed.quota + 1
  BY <1>0, <1>1 DEF Sound, States
<1>5. Sound(st') BY <1>0, <1>3, <1>4 DEF Sound, Latched
<1>6. Counters(st', waived') /\ waived' \in Nat
  <2>1. Rearmed.quota \in Nat /\ Rearmed.infra \in Nat BY <1>0 DEF Sound, States
  <2>2. waived' \in Nat /\ waived' <= waived + 1 BY <1>0, <1>1 DEF LowerOf
  <2>3. Latched(st') <=> Latched(Rearmed) BY <1>4 DEF Latched
  <2> QED BY <1>0, <1>4, <2>1, <2>2, <2>3, Found DEF Counters
<1>7. TypeOK' BY <1>3, <1>6, Found, Answering DEF TypeOK
<1>8. OpenIsUndecided'
  <2>1. CASE open = {} BY <2>1 DEF OpenIsUndecided
  <2>2. CASE open # {} BY <2>2, <1>4, Found, Rearming, OpenStays DEF OpenIsUndecided
  <2> QED BY <2>1, <2>2
<1>9. pc' # "reviewing" BY Answering
<1> QED BY <1>5, <1>6, <1>7, <1>8, <1>9, Assemble

LEMMA StartReviewKeeps == ASSUME IInv, StartReview PROVE IInv'
<1> USE DEF StartReview, world
<1>1. /\ Sound(st') /\ st'.iteration = Rearmed.iteration
      /\ st'.quota = Rearmed.quota /\ st'.infra = Rearmed.infra
      /\ st'.escalated = Rearmed.escalated /\ st'.reason = Rearmed.reason
  BY Rearming, CountingIsSound DEF IInv, TypeOK
<1>2. NoneInForce(st') /\ Counters(st', waived')
  BY <1>1, Rearming, Found DEF NoneInForce, Counters, Latched
<1>3. RoundLeft(st')
  BY <1>1, Rearming, ReviewMeans, CapOnlyLowered DEF RoundLeft, Sound
<1>4. open = {}
  BY Rearming, ReviewMeans, Found DEF OpenIsUndecided, Unaddressed
<1>5. TypeOK'
  <2>1. st' \in States BY <1>1 DEF Sound
  <2>2. run' \in [head : Nat, tree : Nat, base : Nat, rewritten : BOOLEAN]
    BY Found DEF TypeOK
  <2> QED BY <2>1, <2>2, Found DEF TypeOK
<1>6. OpenIsUndecided' BY <1>4 DEF OpenIsUndecided
<1> QED BY <1>1, <1>2, <1>3, <1>4, <1>5, <1>6 DEF IInv

(* What the steps of a return find: the panel was asked below the hard cap, *)
(* with nothing open and no escalation in force but the latch.              *)
LEMMA FoundReviewing ==
  ASSUME IInv, pc = "reviewing"
  PROVE  /\ TypeOK /\ Sound(st) /\ Counters(st, waived)
         /\ NoneInForce(st) /\ RoundLeft(st) /\ open = {}
         /\ st.announced => Latched(st)
         /\ Blank \in [Findings -> Decisions \cup {"invalid", None}]
BY DEF IInv, Sound, NoneInForce, Blank

(* Counting a deferral or a timeout touches nothing else. *)
Count(s, q, i, n) == [s EXCEPT !.quota = q, !.infra = i, !.incomplete = n]

LEMMA CountersOnly ==
  ASSUME NEW s, Sound(s), NEW q \in 0..(QuotaCap + 1), NEW i \in 0..InfraCap,
         NEW n \in 0..MaxIncomplete
  PROVE  /\ Sound(Count(s, q, i, n))
         /\ Count(s, q, i, n).quota = q /\ Count(s, q, i, n).infra = i
         /\ Count(s, q, i, n).escalated = s.escalated
         /\ Count(s, q, i, n).reason = s.reason
         /\ Count(s, q, i, n).announced = s.announced
<1> DEFINE t == Count(s, q, i, n)
<1>1. t \in States BY DEF Sound, States, Count
<1>2. /\ t.quota = q /\ t.infra = i /\ t.escalated = s.escalated
      /\ t.reason = s.reason /\ t.announced = s.announced
      /\ t.iteration = s.iteration /\ t.rows = s.rows /\ t.fps = s.fps
      /\ t.fpThrough = s.fpThrough
  BY DEF Sound, States, Count
<1> HIDE DEF t
<1>3. Sound(t) BY <1>1, <1>2 DEF Sound, Latched
<1> QED BY <1>2, <1>3 DEF t

(* A verdict ends the latch, and with it every escalation. *)
LEMMA Unlatching ==
  ASSUME NEW s, Sound(s), NoneInForce(s)
  PROVE  /\ Sound(Unlatched(s)) /\ ~Unlatched(s).escalated /\ ~Latched(Unlatched(s))
         /\ Unlatched(s).iteration = s.iteration
<1>1. CASE Latched(s)
  <2>1. Unlatched(s) = CloseEscalation(s) BY <1>1 DEF Unlatched
  <2>2. /\ CloseEscalation(s).escalated = FALSE /\ CloseEscalation(s).reason = None
        /\ CloseEscalation(s).iteration = s.iteration
    BY DEF CloseEscalation, Sound, States
  <2> QED BY <2>1, <2>2, CyclesAreSound, LatchIsCode DEF Latched
<1>2. CASE ~Latched(s)
  BY <1>2 DEF Unlatched, NoneInForce, Sound, States
<1> QED BY <1>1, <1>2

LEMMA FailKeeps ==
  ASSUME IInv, NEW fs \in SUBSET Findings, NEW cost \in Costs,
         NEW override \in Overrides, Fail(fs, cost, override)
  PROVE  IInv'
<1> USE DEF Fail, world
<1>1. /\ Sound(Unlatched(st)) /\ ~Unlatched(st).escalated
      /\ ~Latched(Unlatched(st)) /\ RoundLeft(Unlatched(st))
  BY FoundReviewing, Unlatching DEF RoundLeft
<1>2. run.head \in Nat /\ run.tree \in Nat BY FoundReviewing DEF TypeOK
<1>3. st' = Round(Unlatched(st), fs, cost, override) OBVIOUS
<1>4. /\ Sound(st') /\ st'.iteration = Unlatched(st).iteration + 1
      /\ st'.escalated = Unlatched(st).escalated
      /\ st'.quota = 0 /\ st'.infra = 0
  BY <1>1, <1>2, <1>3, RoundsAreSound
<1>5. Counters(st', waived')
  <2>1. QuotaCap \in Nat /\ waived' = 0 BY ConfigAssumption
  <2> QED BY <1>4, <2>1 DEF Counters
<1>6. TypeOK'
  <2>1. st' \in States BY <1>4 DEF Sound
  <2>2. open' \subseteq Findings BY DEF Blocking
  <2> QED BY <2>1, <2>2, FoundReviewing, Answering DEF TypeOK
<1>7. OpenIsUndecided'
  <2>1. Required' = Blocking(fs) BY DEF Required, Blocking
  <2>2. \A f \in Findings : dec'[f] = None BY DEF Blank
  <2>3. None \notin Decisions BY ConfigAssumption
  <2>4. Undecided' = {f \in Required' : dec'[f] \notin Decisions}
    BY DEF Undecided, Decided
  <2>5. Blocking(fs) \subseteq Undecided'
    BY <2>1, <2>2, <2>3, <2>4 DEF Blocking
  <2>6. st'.iteration > 0 /\ ~st'.escalated
    <3>1. Unlatched(st).iteration \in Nat BY <1>1 DEF Sound, States
    <3> QED BY <1>1, <1>4, <3>1
  <2> QED BY <2>5, <2>6 DEF OpenIsUndecided
<1>8. pc' # "reviewing" BY Answering
<1> QED BY <1>4, <1>5, <1>6, <1>7, <1>8, Assemble

LEMMA ErrorKeeps ==
  ASSUME IInv, NEW cost \in Costs, NEW override \in Overrides, Error(cost, override)
  PROVE  IInv'
<1> USE DEF Error, world
<1>1. run.head \in Nat /\ run.tree \in Nat BY FoundReviewing DEF TypeOK
<1>2. st' = Round(st, {}, cost, override) OBVIOUS
<1>3. Sound(st') /\ st'.quota = 0 /\ st'.infra = 0
  BY <1>1, <1>2, FoundReviewing, RoundsAreSound
<1>4. Counters(st', waived')
  <2>1. QuotaCap \in Nat /\ waived' = 0 BY ConfigAssumption
  <2> QED BY <1>3, <2>1 DEF Counters
<1>5. TypeOK'
  <2>1. st' \in States BY <1>3 DEF Sound
  <2> QED BY <2>1, FoundReviewing, Answering DEF TypeOK
<1>6. OpenIsUndecided' BY FoundReviewing DEF OpenIsUndecided
<1>7. pc' # "reviewing" BY Answering
<1> QED BY <1>3, <1>4, <1>5, <1>6, <1>7, Assemble

LEMMA PassKeeps == ASSUME IInv, Pass PROVE IInv'
<1> USE DEF Pass, world
<1> DEFINE u == Unlatched(st)
           n == NewCycle(Completed(u))
<1>1. Sound(u) BY FoundReviewing, Unlatching
<1>2. Sound(Completed(u))
  <2>1. 0 \in 0..MaxIncomplete /\ 0 \in 0..InfraCap /\ 0 \in 0..(QuotaCap + 1)
    BY ConfigAssumption
  <2>2. run.head \in Nat /\ run.tree \in Nat BY FoundReviewing DEF TypeOK
  <2> HIDE DEF u
  <2>3. Completed(u) \in States BY <1>1, <2>1, <2>2 DEF Completed, Sound, States
  <2> QED BY <1>1, <2>3 DEF Completed, Sound, States, Latched
<1>3. Sound(n) BY <1>2, CyclesAreSound
<1>4. st' = [n EXCEPT !.override = None, !.escalated = FALSE, !.reason = None,
                      !.announced = FALSE]
  OBVIOUS
<1>5. n.quota = 0 /\ n.infra = 0
  BY <1>1, <1>2 DEF NewCycle, Completed, Sound, States
<1> HIDE DEF u, n
<1>6. /\ st'.quota = 0 /\ st'.infra = 0 /\ st'.escalated = FALSE
      /\ st'.announced = FALSE /\ st'.reason = None
      /\ st'.iteration = n.iteration /\ st'.rows = n.rows /\ st'.fps = n.fps
      /\ st'.fpThrough = n.fpThrough
  BY <1>3, <1>4, <1>5 DEF Sound, States
<1>7. st' \in States BY <1>3, <1>4 DEF Sound, States, Maybe
<1>8. Sound(st') BY <1>3, <1>6, <1>7, LatchIsCode DEF Sound, Latched
<1>9. Counters(st', waived')
  <2>1. QuotaCap \in Nat /\ waived' = 0 BY ConfigAssumption
  <2> QED BY <1>6, <2>1 DEF Counters
<1>10. TypeOK'
  <2>1. flag' \in Maybe(Nat) BY FoundReviewing DEF Reaped, TypeOK, Maybe
  <2>2. owed' \subseteq Nat BY FoundReviewing DEF TypeOK
  <2>3. /\ pc' = "agent" /\ answer' \in {"block", "green"} /\ chain' \in BOOLEAN
        /\ run' \in [head : Nat, tree : Nat, base : Nat, rewritten : BOOLEAN]
    <3> DEFINE a == IF AcknowledgePass /\ ~chain THEN "block" ELSE "green"
    <3>1. Answer(a) /\ a \in {"block", "green"} OBVIOUS
    <3> HIDE DEF a
    <3> QED BY <3>1, Answering
  <2> QED BY <1>7, <2>1, <2>2, <2>3, FoundReviewing DEF TypeOK
<1>11. OpenIsUndecided' BY DEF OpenIsUndecided
<1>12. pc' # "reviewing"
  BY DEF Answer
<1> QED BY <1>8, <1>9, <1>10, <1>11, <1>12, Assemble

(* A review that did not happen: what each of its outcomes leaves.          *)
LEMMA WithoutReview ==
  ASSUME IInv, pc = "reviewing", pending' = {}, UNCHANGED <<dec, world, late>>,
         Sound(st'), Counters(st', waived'), pc' = "agent", flag' \in Maybe(Nat),
         run' \in [head : Nat, tree : Nat, base : Nat, rewritten : BOOLEAN],
         chain' \in BOOLEAN, answer' \in {"block", "deferred", "escalated"},
         owed' \subseteq Nat, open' = {}, waived' \in Nat
  PROVE  IInv'
<1>1. st' \in States BY DEF Sound
<1>2. TypeOK' BY <1>1, FoundReviewing DEF TypeOK, world
<1>3. OpenIsUndecided' BY DEF OpenIsUndecided
<1> QED BY <1>2, <1>3, Assemble

(* A block that changes nothing. *)
LEMMA Refusing ==
  ASSUME IInv, pc = "reviewing", pending' = {}, UNCHANGED <<dec, world, late>>,
         Answer("block"), Sound(st'), Counters(st', waived),
         UNCHANGED <<flag, owed, open, waived>>
  PROVE  IInv'
<1>1. /\ flag' \in Maybe(Nat) /\ owed' \subseteq Nat /\ open' = {} /\ waived' \in Nat
  BY FoundReviewing DEF TypeOK
<1>2. Counters(st', waived') OBVIOUS
<1>3. pc' = "agent" /\ chain' \in BOOLEAN /\ answer' = "block"
      /\ run' \in [head : Nat, tree : Nat, base : Nat, rewritten : BOOLEAN]
  BY Answering
<1> QED BY <1>1, <1>2, <1>3, WithoutReview

(* A stop let go, counted by the quota counter or the infra counter. *)
LEMMA LettingGo ==
  ASSUME IInv, pc = "reviewing", pending' = {}, UNCHANGED <<dec, world, late>>,
         LetGo, Sound(st'), Counters(st', waived + 1),
         UNCHANGED <<flag, owed, open>>
  PROVE  IInv'
<1>1. /\ flag' \in Maybe(Nat) /\ owed' \subseteq Nat /\ open' = {} /\ waived \in Nat
  BY FoundReviewing DEF TypeOK
<1>2. waived' \in Nat /\ waived' <= waived + 1
  <2>1. waived' = LowerOf(waived + 1, QuotaCap + InfraCap + 1) BY DEF LetGo
  <2>2. QuotaCap \in Nat /\ InfraCap \in Nat BY ConfigAssumption
  <2> QED BY <1>1, <2>1, <2>2 DEF LowerOf
<1>3. Counters(st', waived')
  <2>1. st'.quota \in Nat /\ st'.infra \in Nat BY DEF Sound, States
  <2> QED BY <1>1, <1>2, <2>1 DEF Counters
<1>4. pc' = "agent" /\ chain' \in BOOLEAN /\ answer' = "deferred"
      /\ run' \in [head : Nat, tree : Nat, base : Nat, rewritten : BOOLEAN]
  BY Answering DEF LetGo
<1> QED BY <1>1, <1>2, <1>3, <1>4, WithoutReview

(* The panel that did not answer is an escalation. *)
LEMMA GivingUp ==
  ASSUME IInv, pc = "reviewing", pending' = {}, UNCHANGED <<dec, world, late>>,
         NEW s, Sound(s), s.escalated = st.escalated, s.announced = st.announced,
         s.reason = st.reason, NEW code \in Codes, Escalate(s, code)
  PROVE  IInv'
<1>1. NoneInForce(s) /\ (s.announced => open = {})
  BY FoundReviewing DEF NoneInForce, Latched
<1>2. /\ Sound(st') /\ Counters(st', waived')
      /\ pc' = "agent" /\ flag' \in Maybe(Nat) /\ chain' \in BOOLEAN
      /\ answer' \in {"block", "escalated"}
      /\ run' \in [head : Nat, tree : Nat, base : Nat, rewritten : BOOLEAN]
      /\ owed' \subseteq Nat /\ open' = {} /\ waived' = 0
  BY <1>1, Escalating
<1> QED BY <1>2, WithoutReview

LEMMA QuotaLockedKeeps == ASSUME IInv, QuotaLocked PROVE IInv'
<1> DEFINE next == LowerOf(st.quota + 1, QuotaCap + 1)
           counted == [st EXCEPT !.incomplete = 0, !.quota = next]
<1>1. pc = "reviewing" /\ pending' = {} /\ UNCHANGED <<dec, world, late>>
  BY DEF QuotaLocked
<1>2. /\ st.quota \in 0..(QuotaCap + 1) /\ st.infra \in 0..InfraCap
      /\ QuotaCap \in Nat /\ 0 \in 0..MaxIncomplete
  BY <1>1, ConfigAssumption, FoundReviewing DEF Sound, States
<1>3. next \in 0..(QuotaCap + 1) /\ (st.quota <= QuotaCap => next = st.quota + 1)
  BY <1>2 DEF LowerOf
<1>4. /\ Sound(counted) /\ counted.quota = next /\ counted.infra = st.infra
      /\ counted.escalated = st.escalated /\ counted.reason = st.reason
      /\ counted.announced = st.announced
  <2> HIDE DEF next
  <2>1. counted = Count(st, next, st.infra, 0)
    BY <1>1, FoundReviewing DEF Count, Sound, States
  <2> QED BY <2>1, <1>1, <1>2, <1>3, FoundReviewing, CountersOnly
<1>5. \/ Latched(st) /\ st' = counted /\ LetGo /\ UNCHANGED <<flag, owed, open>>
      \/ Answer("block") /\ UNCHANGED <<st, flag, owed, open, waived>>
      \/ Escalate(counted, Latch)
      \/ ~QuotaSpent(next) /\ st' = counted /\ LetGo /\ UNCHANGED <<flag, owed, open>>
  BY DEF QuotaLocked
<1> HIDE DEF counted
<1>6. CASE Latched(st) /\ st' = counted /\ LetGo /\ UNCHANGED <<flag, owed, open>>
  <2>1. Counters(st', waived + 1) BY <1>4, <1>6 DEF Counters, Latched
  <2> QED BY <1>1, <1>4, <1>6, <2>1, LettingGo
<1>7. CASE Answer("block") /\ UNCHANGED <<st, flag, owed, open, waived>>
  BY <1>1, <1>7, FoundReviewing, Refusing
<1>8. CASE Escalate(counted, Latch)
  <2>1. Latch \in Codes BY LatchIsCode DEF Codes
  <2> QED BY <1>1, <1>4, <1>8, <2>1, GivingUp
<1>9. CASE ~QuotaSpent(next) /\ st' = counted /\ LetGo /\ UNCHANGED <<flag, owed, open>>
  <2>1. next <= QuotaCap BY <1>2, <1>3, <1>9 DEF QuotaSpent
  <2>2. waived \in Nat BY <1>1, FoundReviewing DEF TypeOK
  <2>3. ~Latched(st') => waived <= st.quota + st.infra /\ st.quota <= QuotaCap
    BY <1>1, <1>4, <1>9, FoundReviewing DEF Counters, Latched
  <2> HIDE DEF next
  <2>4. Counters(st', waived + 1)
    BY <1>2, <1>3, <1>4, <1>9, <2>1, <2>2, <2>3 DEF Counters
  <2> QED BY <1>1, <1>4, <1>9, <2>4, LettingGo
<1> QED BY <1>5, <1>6, <1>7, <1>8, <1>9

LEMMA InfraFailedKeeps == ASSUME IInv, InfraFailed PROVE IInv'
<1> DEFINE calm == [st EXCEPT !.infra = 0]
           counted == [st EXCEPT !.infra = st.infra + 1, !.incomplete = 0]
<1>1. pc = "reviewing" /\ pending' = {} /\ UNCHANGED <<dec, world, late>>
  BY DEF InfraFailed
<1>2. /\ st.quota \in 0..(QuotaCap + 1) /\ st.infra \in 0..InfraCap
      /\ InfraCap \in Nat /\ 0 \in 0..MaxIncomplete /\ 0 \in 0..InfraCap
      /\ st.incomplete \in 0..MaxIncomplete
  BY <1>1, ConfigAssumption, FoundReviewing DEF Sound, States
<1>3. \/ Answer("block") /\ UNCHANGED <<st, flag, owed, open, waived>>
      \/ Escalate(calm, "infra-unavailable")
      \/ /\ ~InfraSpent(st.infra + 1) /\ st' = counted /\ LetGo
         /\ UNCHANGED <<flag, owed, open>>
  BY <1>1, FoundReviewing DEF InfraFailed, Sound, States
<1>4. CASE Answer("block") /\ UNCHANGED <<st, flag, owed, open, waived>>
  BY <1>1, <1>4, FoundReviewing, Refusing
<1>5. CASE Escalate(calm, "infra-unavailable")
  <2>1. calm = Count(st, st.quota, 0, st.incomplete)
    BY <1>1, FoundReviewing DEF Count, Sound, States
  <2> HIDE DEF calm
  <2>2. /\ Sound(calm) /\ calm.escalated = st.escalated
        /\ calm.reason = st.reason /\ calm.announced = st.announced
    BY <2>1, <1>1, <1>2, FoundReviewing, CountersOnly
  <2>3. "infra-unavailable" \in Codes BY DEF Codes, Reasons
  <2> QED BY <1>1, <1>5, <2>2, <2>3, GivingUp
<1>6. CASE /\ ~InfraSpent(st.infra + 1) /\ st' = counted /\ LetGo
           /\ UNCHANGED <<flag, owed, open>>
  <2>1. st.infra + 1 \in 0..InfraCap BY <1>2, <1>6 DEF InfraSpent
  <2>2. counted = Count(st, st.quota, st.infra + 1, 0)
    BY <1>1, FoundReviewing DEF Count, Sound, States
  <2> HIDE DEF counted
  <2>3. /\ Sound(counted) /\ counted.quota = st.quota
        /\ counted.infra = st.infra + 1 /\ counted.reason = st.reason
    BY <2>1, <2>2, <1>1, <1>2, FoundReviewing, CountersOnly
  <2>4. waived \in Nat BY <1>1, FoundReviewing DEF TypeOK
  <2>5. Counters(st', waived + 1)
    BY <1>1, <1>2, <1>6, <2>3, <2>4, FoundReviewing DEF Counters, Latched
  <2> QED BY <1>1, <1>6, <2>3, <2>5, LettingGo
<1> QED BY <1>3, <1>4, <1>5, <1>6

LEMMA TimedOutKeeps == ASSUME IInv, TimedOut PROVE IInv'
<1> DEFINE n == LowerOf(st.incomplete + 1, MaxIncomplete)
           counted == [st EXCEPT !.incomplete = n]
<1>1. pc = "reviewing" /\ pending' = {} /\ UNCHANGED <<dec, world, late>>
  BY DEF TimedOut
<1>2. /\ st.quota \in 0..(QuotaCap + 1) /\ st.infra \in 0..InfraCap
      /\ MaxIncomplete \in Nat /\ st.incomplete \in 0..MaxIncomplete
  BY <1>1, ConfigAssumption, FoundReviewing DEF Sound, States
<1>3. n \in 0..MaxIncomplete BY <1>2 DEF LowerOf
<1>4. \/ st' = counted /\ Answer("block") /\ UNCHANGED <<flag, owed, open, waived>>
      \/ Escalate(counted, "review-timeout")
  BY <1>1, FoundReviewing DEF TimedOut, Sound, States
<1> HIDE DEF n
<1>5. counted = Count(st, st.quota, st.infra, n)
  BY <1>1, FoundReviewing DEF Count, Sound, States
<1> HIDE DEF counted
<1>6. /\ Sound(counted) /\ counted.quota = st.quota /\ counted.infra = st.infra
      /\ counted.escalated = st.escalated /\ counted.reason = st.reason
      /\ counted.announced = st.announced
  <2>1. Sound(st) BY <1>1, FoundReviewing
  <2> QED BY <2>1, <1>2, <1>3, <1>5, CountersOnly
<1>7. CASE st' = counted /\ Answer("block") /\ UNCHANGED <<flag, owed, open, waived>>
  <2>1. Counters(st', waived)
    BY <1>1, <1>6, <1>7, FoundReviewing DEF Counters, Latched
  <2> QED BY <1>1, <1>6, <1>7, <2>1, Refusing
<1>8. CASE Escalate(counted, "review-timeout")
  <2>1. "review-timeout" \in Codes BY DEF Codes, Reasons
  <2> QED BY <1>1, <1>6, <1>8, <2>1, GivingUp
<1> QED BY <1>4, <1>7, <1>8

-----------------------------------------------------------------------------
(* The work there is.  A commit that no gate has captured and no flag       *)
(* covers is left out, and a latch keeps its flag.                           *)

(* A tree that was recorded is older than the work since. *)
Fresh(t) == t <= edits /\ (head + 1 \in late => tree > t)
Trees(s) ==
  /\ s.lastHead <= head /\ Fresh(s.lastTree)
  /\ s.escTree # None => Fresh(s.escTree)

(* While a gate runs, nothing is committed but what it captured. *)
Watched ==
  /\ run.head <= head /\ Fresh(run.tree)
  /\ late \subseteq {head + 1}
  /\ \A n \in owed : n > run.base

(* All work is behind a flag, or has come since the last gate. *)
Flagged ==
  /\ tree <= edits
  /\ head + 1 \in late => tree # 0
  /\ \A n \in owed \cup late : n <= head + 1
  /\ flag # None => flag <= head /\ \A n \in owed \cup late : n > flag
  /\ flag = None => owed = {} /\ open = {} /\ late \subseteq {head + 1}

Told ==
  /\ answer = "green" => owed = {} /\ open = {}
  /\ answer = "stood down" => owed = {}

Covered ==
  /\ Trees(st) /\ Flagged /\ Told
  /\ pc # "agent" => Watched /\ answer = "none"
  /\ pc = "reviewing" => flag # None

(* What the operations on state.json record. *)
LEMMA RecordsOnly ==
  ASSUME NEW s, s \in States, NEW t, Trees(s), t.escTree \in {s.escTree, None},
         \/ t.lastHead = s.lastHead /\ t.lastTree = s.lastTree
         \/ Watched /\ t.lastHead = run.head /\ t.lastTree = run.tree
  PROVE  Trees(t)
BY DEF Trees, Watched

LEMMA RearmedRecords ==
  ASSUME IInv, Trees(st), Watched
  PROVE  Trees(Rearmed)
<1> DEFINE a == PathA(st)
           At(s) == [s EXCEPT !.lastHead = run.head, !.lastTree = run.tree]
<1>1. Sound(st) /\ Sound(Rearm(st)) BY CyclesAreSound DEF IInv
<1>2. ASSUME NEW s, Sound(s)
      PROVE  /\ At(s).escTree = s.escTree /\ At(s).lastHead = run.head /\ At(s).lastTree = run.tree
             /\ Rearm(s).escTree = None /\ Rearm(s).lastHead = s.lastHead
             /\ Rearm(s).lastTree = s.lastTree
  BY <1>2 DEF Sound, States, Rearm, CloseEscalation, NewCycle
<1>3. Trees(Rearm(st)) BY <1>1, <1>2, RecordsOnly DEF Sound
<1>4. Trees(At(st)) /\ Trees(At(Rearm(st)))
  BY <1>1, <1>2, <1>3, RecordsOnly DEF Sound
<1>5. a \in {st, At(st), At(Rearm(st))} BY DEF PathA
<1>6. Sound(a)
  <2>1. run.head \in Nat /\ run.tree \in Nat BY DEF IInv, TypeOK
  <2>2. ASSUME NEW s, Sound(s) PROVE Sound(At(s))
    BY <2>1, <2>2 DEF Sound, States, Latched
  <2> QED BY <1>1, <1>5, <2>2
<1>7. Trees(a) BY <1>3, <1>4, <1>5, <1>1
<1> HIDE DEF a
<1>8. Trees(Rearm(a)) BY <1>2, <1>6, <1>7, RecordsOnly DEF Sound
<1>9. Rearmed \in {a, Rearm(a)} BY DEF Rearmed, PathB, a
<1> QED BY <1>7, <1>8, <1>9

LEMMA ClimbedRecords ==
  ASSUME NEW s, Sound(s), Trees(s)
  PROVE  Trees(Climbed(s))
<1>1. /\ Counted(s).escTree = s.escTree /\ Counted(s).lastHead = s.lastHead
      /\ Counted(s).lastTree = s.lastTree
  BY DEF Counted, Sound, States
<1>2. Climbed(s) \in {s, Counted(s)} BY DEF Climbed, CountFps
<1> QED BY <1>1, <1>2, RecordsOnly DEF Sound

(* A tree that is recorded with an escalation was captured with the diff.   *)
LEMMA AnnouncedRecords ==
  ASSUME NEW s, Sound(s), Trees(s), Watched, NEW code
  PROVE  Trees(Announce(s, code))
<1> DEFINE t == [s EXCEPT !.escalated = TRUE, !.reason = ReasonOf(code), !.announced = TRUE,
                          !.quota = 0, !.escHead = head, !.escTree = run.tree]
<1>1. t.escTree = run.tree /\ t.lastHead = s.lastHead /\ t.lastTree = s.lastTree
  BY DEF Sound, States
<1>2. Announce(s, code) \in {s, t} BY DEF Announce
<1> HIDE DEF t
<1>3. Trees(t) BY <1>1 DEF Trees, Watched
<1> QED BY <1>2, <1>3

(* The steps of a gate that ends. *)
LEMMA GateEnds ==
  ASSUME Covered, pc # "agent", pc' = "agent", UNCHANGED <<world, late>>,
         Trees(st'), owed' \subseteq owed,
         flag' = flag \/ (flag' = None /\ owed' = {}),
         flag' = None => open' = {},
         answer' = "green" => owed' = {} /\ open' = {}, answer' # "stood down"
  PROVE  Covered'
<1> USE DEF world
<1>1. Trees(st)' BY DEF Trees, Fresh
<1>2. Flagged' BY DEF Covered, Flagged, Watched
<1>3. Told' BY DEF Told
<1> QED BY <1>1, <1>2, <1>3 DEF Covered

LEMMA EscalatingCovers ==
  ASSUME IInv, Covered, pc # "agent", UNCHANGED <<world, late>>,
         NEW s, Sound(s), NoneInForce(s), Trees(s), s.announced => open = {},
         NEW code \in Codes, Escalate(s, code), LatchKeepsFlag'
  PROVE  Covered'
<1>1. Watched /\ Flagged BY DEF Covered
<1>2. Trees(st') BY <1>1, AnnouncedRecords DEF Escalate
<1>3. pc' = "agent" /\ answer' \in {"block", "escalated"} /\ open' = {}
  BY Escalating
<1>4. Captured = owed BY <1>1 DEF Captured, Watched
<1>5. owed' \subseteq owed BY DEF Escalate
<1>6. flag' = flag \/ (flag' = None /\ owed' = {})
  <2>1. CASE code = Latch BY <2>1 DEF Escalate
  <2>2. CASE s.announced /\ flag' # flag
    <3>1. st' = s BY <2>2 DEF Escalate, Announce
    <3>2. Latched(st') BY <2>2, <3>1 DEF NoneInForce, Sound
    <3>3. flag' # None BY <1>3, <3>2 DEF LatchKeepsFlag, Latched
    <3>4. flag' \in {flag, None} BY DEF Escalate, Reaped
    <3> QED BY <2>2, <3>3, <3>4
  <2>3. CASE ~s.announced /\ code # Latch
    <3>1. owed' = owed \ Captured /\ flag' = Reaped BY <2>3 DEF Escalate
    <3> QED BY <1>4, <3>1 DEF Reaped
  <2> QED BY <2>1, <2>2, <2>3
<1> QED BY <1>2, <1>3, <1>5, <1>6, GateEnds

LEMMA AgentCovers ==
  ASSUME IInv, Covered, Agent, UnseenCommits = {}
  PROVE  Covered'
<1>0. /\ head \in Nat /\ edits \in Nat /\ tree \in Nat /\ None \notin Nat
      /\ owed \subseteq Nat /\ late \subseteq Nat /\ flag \in Maybe(Nat)
      /\ st.lastTree \in Nat /\ st.lastHead \in Nat /\ st.escTree \in Maybe(Nat)
      /\ run.tree \in Nat /\ run.head \in Nat /\ run.base \in Nat
  BY ConfigAssumption DEF IInv, TypeOK, States
<1>1. ASSUME NEW f \in Findings, NEW d \in Admissible(f) \cup {"invalid"}, Decide(f, d)
      PROVE  Covered'
  <2> USE <1>1 DEF Decide, world
  <2>1. open' \subseteq open OBVIOUS
  <2>2. Trees(st)' BY DEF Covered, Trees, Fresh
  <2>3. Flagged' BY <2>1 DEF Covered, Flagged
  <2> QED BY <2>2, <2>3 DEF Covered, Told
<1>2. ASSUME NEW traced \in BOOLEAN, Edit(traced)
      PROVE  Covered'
  <2> USE DEF Edit
  <2>1. /\ edits' = edits + 1 /\ tree' = edits + 1 /\ late' = late \cup {head + 1}
        /\ head' = head /\ st' = st /\ owed' = owed /\ open' = open /\ answer' = "none" /\ pc' = pc
        /\ flag' = IF traced /\ flag = None THEN head ELSE flag
    BY <1>2
  <2>2. run'.head = run.head /\ run'.tree = run.tree /\ run'.base = run.base
    BY <1>2 DEF IInv, TypeOK
  <2>3. ASSUME NEW t \in Nat, Fresh(t)
        PROVE  t <= edits' /\ (head' + 1 \in late' => tree' > t)
    BY <1>0, <2>1, <2>3 DEF Fresh
  <2>4. Trees(st)'
    <3>1. Trees(st) BY DEF Covered
    <3>2. st.lastTree <= edits' /\ (head' + 1 \in late' => tree' > st.lastTree)
      BY <1>0, <2>3, <3>1 DEF Trees
    <3>3. st.escTree # None =>
            st.escTree <= edits' /\ (head' + 1 \in late' => tree' > st.escTree)
      BY <1>0, <2>3, <3>1 DEF Trees, Maybe
    <3> QED BY <2>1, <3>1, <3>2, <3>3 DEF Trees, Fresh
  <2>5. Flagged' BY <1>0, <2>1 DEF Covered, Flagged, Maybe
  <2>6. pc # "agent" => Watched'
    <3>1. pc # "agent" =>
            run.tree <= edits' /\ (head' + 1 \in late' => tree' > run.tree)
      BY <1>0, <2>3 DEF Covered, Watched
    <3> QED BY <2>1, <2>2, <3>1 DEF Covered, Watched, Fresh
  <2> QED BY <1>0, <2>1, <2>4, <2>5, <2>6 DEF Covered, Told
<1>3. CASE Commit
  <2>1. /\ head' = head + 1 /\ tree' = 0 /\ edits' = edits /\ st' = st /\ run' = run /\ flag' = flag /\ pc' = pc
        /\ owed' = owed /\ late' = late /\ open' = open /\ answer' = "none"
        /\ head + 1 \notin late \/ (pc = "agent" /\ flag # None)
    BY <1>3 DEF Commit
  <2>2. head' + 1 \notin late BY <1>0, <2>1 DEF Covered, Flagged
  <2>3. Trees(st)' BY <1>0, <2>1, <2>2 DEF Covered, Trees, Fresh
  <2>4. Flagged' BY <1>0, <2>1, <2>2 DEF Covered, Flagged, Maybe
  <2>5. pc # "agent" => Watched' BY <1>0, <2>1, <2>2 DEF Covered, Watched, Fresh
  <2> QED BY <2>1, <2>3, <2>4, <2>5 DEF Covered, Told
<1> QED BY <1>1, <1>2, <1>3 DEF Agent

LEMMA SkipCovers == ASSUME IInv, Covered, Skip PROVE Covered'
<1>0. /\ head \in Nat /\ tree \in Nat /\ None \notin Nat /\ st.lastTree \in Nat
  BY ConfigAssumption DEF IInv, TypeOK, States
<1>1. /\ flag = None /\ (st.lastTree = tree \/ (st.escTree = tree /\ st.escTree # None))
  BY <1>0 DEF Skip, HandedOff, Unchanged
<1>2. head + 1 \notin late BY <1>0, <1>1 DEF Covered, Trees, Fresh
<1>3. owed = {} /\ late = {} /\ open = {} BY <1>1, <1>2 DEF Covered, Flagged
<1>4. /\ owed' = {} /\ late' = {} /\ open' = {} /\ pc' = "agent"
      /\ UNCHANGED <<st, flag, head, tree, edits>>
  BY <1>3 DEF Skip, Capture, world
<1> QED BY <1>3, <1>4 DEF Covered, Trees, Fresh, Flagged, Told

LEMMA GatherCovers == ASSUME IInv, Covered, Gather PROVE Covered'
<1>0. /\ head \in Nat /\ tree \in Nat /\ None \notin Nat /\ flag \in Maybe(Nat) /\ st.lastHead \in Nat
      /\ owed \subseteq Nat /\ late \subseteq Nat
  BY ConfigAssumption DEF IInv, TypeOK, States
<1>1. /\ run'.head = head /\ run'.tree = tree /\ run'.base = Base /\ pc' = "gathered" /\ answer' = "none"
      /\ owed' = owed \cup late /\ late' = {} /\ UNCHANGED <<st, open, head, tree, edits>>
      /\ flag' = IF tree # 0 \/ Base # head THEN Base ELSE flag
  BY DEF Gather, Capture, world
<1>2. Base <= head /\ \A n \in owed \cup late : n > Base
  BY <1>0 DEF Base, Covered, Trees, Flagged, Maybe
<1>3. flag' = None => owed' = {} /\ open' = {}
  BY <1>0, <1>1 DEF Base, Covered, Flagged, Maybe
<1>4. Trees(st)' BY <1>1 DEF Covered, Trees, Fresh
<1>5. Flagged' BY <1>0, <1>1, <1>2, <1>3 DEF Covered, Flagged, Base
<1>6. Watched' BY <1>0, <1>1, <1>2 DEF Covered, Flagged, Watched, Fresh
<1> QED BY <1>1, <1>4, <1>5, <1>6 DEF Covered, Told

LEMMA StopCovers ==
  ASSUME IInv, Covered, LatchKeepsFlag',
         NothingToReview \/ Reprompt \/ EndLoop \/ PutOffEnd \/ StartReview
  PROVE  Covered'
<1>1. /\ pc = "gathered" /\ Watched /\ Flagged /\ Trees(st) BY DEF NothingToReview, Reprompt, EndLoop, PutOffEnd, StartReview, Climb, Covered
<1>2. Sound(Rearmed) /\ NoneInForce(Rearmed) /\ Trees(Rearmed)
  BY <1>1, Rearming, RearmedRecords
<1>3. CASE NothingToReview
  <2>1. owed = {} /\ open = {} BY <1>1, <1>3 DEF NothingToReview, Flagged
  <2> QED BY <1>1, <1>3, <2>1, GateEnds DEF NothingToReview, Answer, world
<1>4. CASE Reprompt
  <2>1. pc' = "agent" /\ answer' = "block" /\ st' = Rearmed /\ UNCHANGED <<flag, world, owed, late, open>> /\ flag # None
    BY <1>4 DEF Reprompt, Answer, Climb
  <2> QED BY <1>1, <1>2, <2>1, GateEnds
<1>5. CASE PutOffEnd
  <2>1. pc' = "agent" /\ answer' = "deferred" /\ UNCHANGED <<flag, world, owed, late, open>> /\ flag # None
    BY <1>5 DEF PutOffEnd, LetGo, Answer, Climb
  <2>2. Trees(st')
    <3>1. /\ st'.escTree = Rearmed.escTree /\ st'.lastHead = Rearmed.lastHead
          /\ st'.lastTree = Rearmed.lastTree
      BY <1>2, <1>5 DEF PutOffEnd, Sound, States
    <3> QED BY <1>2, <3>1, RecordsOnly DEF Sound
  <2> QED BY <1>1, <2>1, <2>2, GateEnds
<1>6. CASE EndLoop
  <2> DEFINE s == Climbed(Rearmed)
             code == Rung(Rearmed)
  <2>1. Sound(s) /\ NoneInForce(s)
    BY Rearming, CountingIsSound DEF IInv, TypeOK, NoneInForce, Latched
  <2>2. s.announced => open = {}
    <3>1. s.announced = Rearmed.escalated
      BY Rearming, CountingIsSound DEF IInv, TypeOK, Sound
    <3> QED BY <3>1, Rearming, Found
  <2>3. code \in Codes /\ Escalate(s, code) BY <1>6, CodesOfTheLadder DEF EndLoop
  <2>4. Trees(s) BY <1>2, ClimbedRecords
  <2>5. UNCHANGED <<world, late>> BY <1>6 DEF EndLoop
  <2> HIDE DEF s, code
  <2> QED BY <1>1, <2>1, <2>2, <2>3, <2>4, <2>5, EscalatingCovers
<1>7. CASE StartReview
  <2>1. /\ pc' = "reviewing" /\ st' = Climbed(Rearmed) /\ flag # None
        /\ UNCHANGED <<flag, world, answer, owed, late, open>>
    BY <1>7 DEF StartReview, Climb
  <2>2. run'.head = run.head /\ run'.tree = run.tree /\ run'.base = run.base
    BY <1>7 DEF StartReview, IInv, TypeOK
  <2>3. Trees(st') BY <1>2, <2>1, ClimbedRecords
  <2>4. Trees(st)' BY <2>1, <2>3 DEF Trees, Fresh, world
  <2> QED BY <1>1, <2>1, <2>2, <2>4 DEF Covered, Watched, Flagged, Told, Fresh, world
<1> QED BY <1>3, <1>4, <1>5, <1>6, <1>7

(* A stop that no review answered leaves the flag. *)
LEMMA NoReviewCovers ==
  ASSUME Covered, pc = "reviewing", pc' = "agent", UNCHANGED <<world, late, flag, owed>>,
         Trees(st'), answer' \in {"block", "deferred"}
  PROVE  Covered'
<1>1. flag' # None BY DEF Covered
<1> QED BY <1>1, GateEnds

(* The counters of state.json do not say what was reviewed. *)
LEMMA CountRecords ==
  ASSUME NEW s, Sound(s), Trees(s), NEW q, NEW i, NEW n
  PROVE  Trees(Count(s, q, i, n))
<1>1. /\ Count(s, q, i, n).escTree = s.escTree /\ Count(s, q, i, n).lastHead = s.lastHead
      /\ Count(s, q, i, n).lastTree = s.lastTree
  BY DEF Count, Sound, States
<1> QED BY <1>1, RecordsOnly DEF Sound

(* What a completed review records was captured before it. *)
LEMMA ReviewRecords ==
  ASSUME IInv, pc = "reviewing", NEW u \in {st, Unlatched(st)}
  PROVE  /\ Completed(u).escTree \in {st.escTree, None}
         /\ Completed(u).lastHead = run.head /\ Completed(u).lastTree = run.tree
         /\ Completed(u) \in States
<1>1. /\ u \in States /\ u.escTree \in {st.escTree, None}
  <2>1. st \in States BY FoundReviewing DEF TypeOK
  <2>2. CloseEscalation(st).escTree = None /\ CloseEscalation(st) \in States
    BY <2>1, ConfigAssumption DEF CloseEscalation, States, Maybe
  <2> QED BY <2>1, <2>2 DEF Unlatched
<1>2. /\ 0 \in 0..MaxIncomplete /\ 0 \in 0..InfraCap /\ 0 \in 0..(QuotaCap + 1)
      /\ run.head \in Nat /\ run.tree \in Nat
  <2>1. run.head \in Nat /\ run.tree \in Nat BY FoundReviewing DEF TypeOK
  <2> QED BY <2>1, ConfigAssumption
<1>3. Completed(u) \in States BY <1>1, <1>2 DEF Completed, States
<1>4. /\ Completed(u).escTree = u.escTree
      /\ Completed(u).lastHead = run.head /\ Completed(u).lastTree = run.tree
  BY <1>1 DEF Completed, States
<1> QED BY <1>1, <1>3, <1>4

LEMMA FailCovers ==
  ASSUME IInv, Covered, NEW fs \in SUBSET Findings, NEW cost \in Costs,
         NEW override \in Overrides, Fail(fs, cost, override)
  PROVE  Covered'
<1> DEFINE c == Completed(Unlatched(st))
<1>1. /\ pc = "reviewing" /\ pc' = "agent" /\ answer' = "block"
      /\ UNCHANGED <<world, late, flag, owed>>
      /\ st' = Round(Unlatched(st), fs, cost, override)
  BY DEF Fail, Answer
<1>2. /\ c.escTree \in {st.escTree, None} /\ c.lastHead = run.head
      /\ c.lastTree = run.tree /\ c \in States
  BY <1>1, ReviewRecords
<1>3. st'.escTree = c.escTree /\ st'.lastHead = c.lastHead /\ st'.lastTree = c.lastTree
  BY <1>1, <1>2 DEF Round, States
<1>4. Trees(st') BY <1>1, <1>2, <1>3, FoundReviewing, RecordsOnly DEF Covered, Sound
<1> QED BY <1>1, <1>4, NoReviewCovers

LEMMA ErrorCovers ==
  ASSUME IInv, Covered, NEW cost \in Costs, NEW override \in Overrides,
         Error(cost, override)
  PROVE  Covered'
<1> DEFINE c == Completed(st)
<1>1. /\ pc = "reviewing" /\ pc' = "agent" /\ answer' = "block"
      /\ UNCHANGED <<world, late, flag, owed>> /\ st' = Round(st, {}, cost, override)
  BY DEF Error, Answer
<1>2. /\ c.escTree \in {st.escTree, None} /\ c.lastHead = run.head
      /\ c.lastTree = run.tree /\ c \in States
  BY <1>1, ReviewRecords
<1>3. st'.escTree = c.escTree /\ st'.lastHead = c.lastHead /\ st'.lastTree = c.lastTree
  BY <1>1, <1>2 DEF Round, States
<1>4. Trees(st') BY <1>1, <1>2, <1>3, FoundReviewing, RecordsOnly DEF Covered, Sound
<1> QED BY <1>1, <1>4, NoReviewCovers

LEMMA PassCovers == ASSUME IInv, Covered, Pass PROVE Covered'
<1> DEFINE c == Completed(Unlatched(st))
<1>1. /\ pc = "reviewing" /\ pc' = "agent" /\ answer' \in {"block", "green"}
      /\ UNCHANGED <<world, late>> /\ flag' = Reaped /\ open' = {} /\ owed' = owed \ Captured
      /\ st' = [NewCycle(c) EXCEPT !.override = None, !.escalated = FALSE,
                                   !.reason = None, !.announced = FALSE]
  BY DEF Pass, Answer
<1>2. /\ c.escTree \in {st.escTree, None} /\ c.lastHead = run.head
      /\ c.lastTree = run.tree /\ c \in States
  BY <1>1, ReviewRecords
<1>3. st'.escTree = c.escTree /\ st'.lastHead = c.lastHead /\ st'.lastTree = c.lastTree
  <2> HIDE DEF c
  <2> QED BY <1>1, <1>2 DEF NewCycle, States
<1>4. Trees(st') BY <1>1, <1>2, <1>3, FoundReviewing, RecordsOnly DEF Covered, Sound
<1>5. owed' = {} BY <1>1 DEF Covered, Watched, Captured
<1>6. flag' \in {flag, None} BY <1>1 DEF Reaped
<1> QED BY <1>1, <1>4, <1>5, <1>6, GateEnds

(* A review that did not happen leaves the work flagged, or tells a human.  *)
LEMMA GivingUpCovers ==
  ASSUME IInv, Covered, pc = "reviewing", UNCHANGED <<world, late>>,
         NEW s, Sound(s), Trees(s), s.escalated = st.escalated,
         s.announced = st.announced, s.reason = st.reason,
         NEW code \in Codes, Escalate(s, code), LatchKeepsFlag'
  PROVE  Covered'
<1>1. NoneInForce(s) /\ (s.announced => open = {})
  BY FoundReviewing DEF NoneInForce, Latched
<1> QED BY <1>1, EscalatingCovers

LEMMA QuotaLockedCovers == ASSUME IInv, Covered, QuotaLocked, LatchKeepsFlag' PROVE Covered'
<1> DEFINE next == LowerOf(st.quota + 1, QuotaCap + 1)
           counted == [st EXCEPT !.incomplete = 0, !.quota = next]
<1>1. pc = "reviewing" /\ UNCHANGED <<world, late>> BY DEF QuotaLocked
<1>2. Sound(st) /\ Trees(st) BY <1>1, FoundReviewing DEF Covered
<1>3. st.quota \in 0..(QuotaCap + 1) /\ QuotaCap \in Nat
  BY <1>2, ConfigAssumption DEF Sound, States
<1>4. next \in 0..(QuotaCap + 1) BY <1>3 DEF LowerOf
<1>5. 0 \in 0..MaxIncomplete /\ st.infra \in 0..InfraCap
  BY <1>2, ConfigAssumption DEF Sound, States
<1>6. \/ /\ st' = counted \/ st' = st
         /\ LetGo \/ Answer("block")
         /\ UNCHANGED <<flag, owed>>
      \/ Escalate(counted, Latch)
  BY DEF QuotaLocked
<1> HIDE DEF next
<1>7. counted = Count(st, next, st.infra, 0) BY <1>2 DEF Count, Sound, States
<1> HIDE DEF counted
<1>8. /\ Sound(counted) /\ counted.escalated = st.escalated
      /\ counted.reason = st.reason /\ counted.announced = st.announced
  BY <1>2, <1>4, <1>5, <1>7, CountersOnly
<1>9. Trees(counted) BY <1>2, <1>7, CountRecords
<1>10. CASE /\ st' = counted \/ st' = st
            /\ LetGo \/ Answer("block")
            /\ UNCHANGED <<flag, owed>>
  <2>1. pc' = "agent" /\ answer' \in {"block", "deferred"}
    BY <1>10 DEF LetGo, Answer
  <2> QED BY <1>1, <1>2, <1>9, <1>10, <2>1, NoReviewCovers
<1>11. CASE Escalate(counted, Latch)
  <2>1. Latch \in Codes BY LatchIsCode DEF Codes
  <2> QED BY <1>1, <1>8, <1>9, <1>11, <2>1, GivingUpCovers
<1> QED BY <1>6, <1>10, <1>11

LEMMA InfraFailedCovers == ASSUME IInv, Covered, InfraFailed, LatchKeepsFlag' PROVE Covered'
<1> DEFINE calm == [st EXCEPT !.infra = 0]
           counted == [st EXCEPT !.infra = st.infra + 1, !.incomplete = 0]
<1>1. pc = "reviewing" /\ UNCHANGED <<world, late>> BY DEF InfraFailed
<1>2. Sound(st) /\ Trees(st) BY <1>1, FoundReviewing DEF Covered
<1>3. /\ st.quota \in 0..(QuotaCap + 1) /\ 0 \in 0..InfraCap
      /\ st.incomplete \in 0..MaxIncomplete
  BY <1>2, ConfigAssumption DEF Sound, States
<1>4. \/ /\ st' = counted \/ st' = st
         /\ LetGo \/ Answer("block")
         /\ UNCHANGED <<flag, owed>>
      \/ Escalate(calm, "infra-unavailable")
  BY <1>2 DEF InfraFailed, Sound, States
<1>5. /\ counted = Count(st, st.quota, st.infra + 1, 0)
      /\ calm = Count(st, st.quota, 0, st.incomplete)
  BY <1>2 DEF Count, Sound, States
<1> HIDE DEF calm, counted
<1>6. Trees(calm) /\ Trees(counted) BY <1>2, <1>5, CountRecords
<1>7. CASE /\ st' = counted \/ st' = st
           /\ LetGo \/ Answer("block")
           /\ UNCHANGED <<flag, owed>>
  <2>1. pc' = "agent" /\ answer' \in {"block", "deferred"}
    BY <1>7 DEF LetGo, Answer
  <2> QED BY <1>1, <1>2, <1>6, <1>7, <2>1, NoReviewCovers
<1>8. CASE Escalate(calm, "infra-unavailable")
  <2>1. /\ Sound(calm) /\ calm.escalated = st.escalated
        /\ calm.reason = st.reason /\ calm.announced = st.announced
    BY <1>2, <1>3, <1>5, CountersOnly
  <2>2. "infra-unavailable" \in Codes BY DEF Codes, Reasons
  <2> QED BY <1>1, <1>6, <1>8, <2>1, <2>2, GivingUpCovers
<1> QED BY <1>4, <1>7, <1>8

LEMMA TimedOutCovers == ASSUME IInv, Covered, TimedOut, LatchKeepsFlag' PROVE Covered'
<1> DEFINE n == LowerOf(st.incomplete + 1, MaxIncomplete)
           counted == [st EXCEPT !.incomplete = n]
<1>1. pc = "reviewing" /\ UNCHANGED <<world, late>> BY DEF TimedOut
<1>2. Sound(st) /\ Trees(st) BY <1>1, FoundReviewing DEF Covered
<1>3. /\ st.quota \in 0..(QuotaCap + 1) /\ st.infra \in 0..InfraCap
      /\ MaxIncomplete \in Nat /\ st.incomplete \in 0..MaxIncomplete
  BY <1>2, ConfigAssumption DEF Sound, States
<1>4. n \in 0..MaxIncomplete BY <1>3 DEF LowerOf
<1>5. \/ st' = counted /\ Answer("block") /\ UNCHANGED <<flag, owed>>
      \/ Escalate(counted, "review-timeout")
  BY <1>2 DEF TimedOut, Sound, States
<1> HIDE DEF n
<1>6. counted = Count(st, st.quota, st.infra, n) BY <1>2 DEF Count, Sound, States
<1> HIDE DEF counted
<1>7. Trees(counted) BY <1>2, <1>6, CountRecords
<1>8. CASE st' = counted /\ Answer("block") /\ UNCHANGED <<flag, owed>>
  <2>1. pc' = "agent" /\ answer' = "block" BY <1>8 DEF Answer
  <2> QED BY <1>1, <1>7, <1>8, <2>1, NoReviewCovers
<1>9. CASE Escalate(counted, "review-timeout")
  <2>1. /\ Sound(counted) /\ counted.escalated = st.escalated
        /\ counted.reason = st.reason /\ counted.announced = st.announced
    BY <1>2, <1>3, <1>4, <1>6, CountersOnly
  <2>2. "review-timeout" \in Codes BY DEF Codes, Reasons
  <2> QED BY <1>1, <1>7, <1>9, <2>1, <2>2, GivingUpCovers
<1> QED BY <1>5, <1>8, <1>9

LEMMA ReturnCovers ==
  ASSUME IInv, Covered, Return, LatchKeepsFlag'
  PROVE  Covered'
<1>1. ASSUME NEW c \in Costs, NEW o \in Overrides, Error(c, o)
      PROVE  Covered'
  BY <1>1, ErrorCovers
<1>2. ASSUME NEW c \in Costs, NEW o \in Overrides, NEW fs \in SUBSET Findings,
             Fail(fs, c, o)
      PROVE  Covered'
  BY <1>2, FailCovers
<1> QED
  BY <1>1, <1>2, PassCovers, QuotaLockedCovers, InfraFailedCovers, TimedOutCovers
  DEF Return

-----------------------------------------------------------------------------
(* The theorems. *)

(* The inductive invariant: every action of the agent, the gate and the     *)
(* panel keeps the state sound, the rounds below the hard cap and the open  *)
(* findings undecided.                                                       *)
THEOREM Invariance == Spec => []IInv
<1>1. ASSUME IInv, [Next]_vars
      PROVE  IInv'
  <2>1. CASE Agent BY <1>1, <2>1, AgentSteps
  <2>2. CASE Stop
    BY <1>1, <2>2, SkipKeeps, GatherKeeps, NothingToReviewKeeps, RepromptKeeps,
       EndLoopKeeps, PutOffEndKeeps, StartReviewKeeps DEF Stop
  <2>3. CASE Return
    <3>1. CASE Pass \/ QuotaLocked \/ InfraFailed \/ TimedOut
      BY <1>1, <3>1, PassKeeps, QuotaLockedKeeps, InfraFailedKeeps, TimedOutKeeps
    <3>2. ASSUME NEW c \in Costs, NEW o \in Overrides, Error(c, o)
          PROVE  IInv'
      BY <1>1, <3>2, ErrorKeeps
    <3>3. ASSUME NEW c \in Costs, NEW o \in Overrides, NEW fs \in SUBSET Findings,
                 Fail(fs, c, o)
          PROVE  IInv'
      BY <1>1, <3>3, FailKeeps
    <3> QED BY <2>3, <3>1, <3>2, <3>3 DEF Return
  <2>4. CASE UNCHANGED vars
    <3> USE <2>4 DEF vars, world
    <3>1. TypeOK' BY <1>1, Found DEF TypeOK
    <3>2. OpenIsUndecided' BY <1>1, Found, OpenStays DEF OpenIsUndecided
    <3> QED BY <1>1, <3>1, <3>2 DEF IInv
  <2> QED BY <1>1, <2>1, <2>2, <2>3, <2>4 DEF Next
<1> QED BY IInvInit, <1>1, PTL DEF Spec

(* The state of the loop keeps its types, and no counter its limit: for any *)
(* configuration the deferrals and timeouts that state.json counts are      *)
(* within the configured caps.                                               *)
THEOREM TypeCorrect == Spec => []TypeOK
<1>1. IInv => TypeOK BY DEF IInv
<1> QED BY <1>1, Invariance, PTL

(* No cycle has more rounds than the hard cap of the configured maximum,    *)
(* whatever the per-diff cap, the findings and the outages.                  *)
THEOREM LoopEnds == Spec => []RoundsBounded
<1>1. IInv => RoundsBounded BY DEF IInv, Sound, RoundsBounded
<1> QED BY <1>1, Invariance, PTL

(* The histories of a cycle are as long as the cycle, so that reading them  *)
(* by index compares the rounds it means.                                    *)
THEOREM Aligned == Spec => []HistoriesAligned
<1>1. IInv => HistoriesAligned BY DEF IInv, Sound, HistoriesAligned
<1> QED BY <1>1, Invariance, PTL

(* No review starts while a blocking finding of the last one has neither a  *)
(* decision nor a human who knows of it.                                     *)
THEOREM NothingDropped == Spec => []NoFindingDropped
<1>1. IInv => NoFindingDropped BY DEF IInv, NoFindingDropped
<1> QED BY <1>1, Invariance, PTL

(* Outages of alternating kinds let at most QuotaCap + InfraCap stops in a  *)
(* row go unreviewed before a human is told.                                 *)
THEOREM OutagesBounded == Spec => []DefersBounded
<1>1. ASSUME IInv PROVE DefersBounded
  <2>1. /\ st.quota \in 0..(QuotaCap + 1) /\ st.infra \in 0..InfraCap
        /\ waived \in Nat
    BY <1>1 DEF IInv, TypeOK, States
  <2>2. QuotaCap \in Nat /\ InfraCap \in Nat BY ConfigAssumption
  <2> QED BY <1>1, <2>1, <2>2 DEF IInv, Counters, DefersBounded
<1> QED BY <1>1, Invariance, PTL

(* While a gate works on a flag no commit slips past it, and while the      *)
(* quota latch holds the flag is kept: then no work is ever out of sight.   *)
THEOREM InSight ==
  ASSUME UnseenCommits = {}
  PROVE  Spec /\ []LatchKeepsFlag => []Covered
<1>1. Init => Covered
  <2> SUFFICES ASSUME Init PROVE Covered OBVIOUS
  <2>1. Trees(st) BY DEF Init, Trees, Fresh
  <2>2. Flagged /\ Told BY DEF Init, Flagged, Told
  <2> QED BY <2>1, <2>2 DEF Init, Covered
<1>2. ASSUME IInv, Covered, LatchKeepsFlag', [Next]_vars
      PROVE  Covered'
  <2>1. CASE Agent BY <1>2, <2>1, AgentCovers
  <2>2. CASE Stop BY <1>2, <2>2, SkipCovers, GatherCovers, StopCovers DEF Stop
  <2>3. CASE Return BY <1>2, <2>3, ReturnCovers
  <2>4. CASE UNCHANGED vars
    <3> USE <2>4 DEF vars, world
    <3>1. Trees(st)' /\ Flagged' BY <1>2 DEF Covered, Trees, Flagged, Fresh
    <3>2. Told' BY <1>2 DEF Covered, Told
    <3>3. pc' # "agent" => Watched' BY <1>2 DEF Covered, Watched, Fresh
    <3> QED BY <1>2, <3>1, <3>2, <3>3 DEF Covered
  <2> QED BY <1>2, <2>1, <2>2, <2>3, <2>4 DEF Next
<1> QED BY <1>1, <1>2, Invariance, PTL DEF Spec

(* "No code changes" and a pass are only said of work that was reviewed or  *)
(* that a human was told of, for any configuration, any number of findings, *)
(* edits and commits.                                                        *)
THEOREM GreenEarned ==
  ASSUME UnseenCommits = {}
  PROVE  Spec /\ []LatchKeepsFlag => []GreenIsEarned
<1>1. Covered => GreenIsEarned BY DEF Covered, Told, GreenIsEarned
<1> QED BY <1>1, InSight, PTL

(* And the gate stands down over nothing else. *)
THEOREM StandDownTold ==
  ASSUME UnseenCommits = {}
  PROVE  Spec /\ []LatchKeepsFlag => []StandDownIsTold
<1>1. Covered => StandDownIsTold BY DEF Covered, Told, StandDownIsTold
<1> QED BY <1>1, InSight, PTL
=============================================================================

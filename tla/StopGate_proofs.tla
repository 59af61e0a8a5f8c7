--------------------------- MODULE StopGate_proofs ---------------------------
(***************************************************************************)
(* What is proved of the Stop gate for any number of sessions and every    *)
(* bound.  For every set of race windows: the state keeps its types and    *)
(* reviews never overlap, because whoever reviews has the gate lock, and   *)
(* End, through which every hook leaves, by itself or killed, releases no  *)
(* one else's.  Where none of the windows opens: no work is lost between   *)
(* the hooks, and whoever is let go owes none.                             *)
(***************************************************************************)
EXTENDS StopGate, TLAPS

(* Whoever reviews has the lock. *)
LockHeld == \A s \in Sessions : Reviewing(s) => lock = s

IInv == pc \in [Sessions -> Places] /\ LockHeld

LEMMA Initially == Init => IInv
BY DEF Init, IInv, LockHeld, Reviewing, Places

(* A hook that ends keeps no lock of its own, and no other hook loses its. *)
LEMMA Ending ==
  ASSUME NEW s \in Sessions, IInv, End(s)
  PROVE  IInv'
BY DEF End, Goto, Released, IInv, LockHeld, Reviewing, Places

(* A hook that goes on under the lock it has. *)
LEMMA Continuing ==
  ASSUME NEW s \in Sessions, NEW where \in Places, IInv,
         Goto(s, where), UNCHANGED lock,
         Reviewing(s) \/ where \in {"agent", "head", "tree", "lock", "wipe", "unflag",
                                     "undefer", "unstate", "seed", "hash", "save"}
  PROVE  IInv'
BY DEF Goto, IInv, LockHeld, Reviewing, Places

(* A hook that gets the free lock. *)
LEMMA Locking ==
  ASSUME NEW s \in Sessions, NEW where \in Places, IInv,
         Goto(s, where), lock = None, lock' = s
  PROVE  IInv'
BY StopGateAssumption DEF Goto, IInv, LockHeld, Reviewing, Places

LEMMA Standing ==
  ASSUME IInv, UNCHANGED <<pc, lock>>
  PROVE  IInv'
BY DEF IInv, LockHeld, Reviewing

LEMMA Stopping ==
  ASSUME NEW s \in Sessions, IInv, Stop(s)
  PROVE  IInv'
<1>1. CASE Probe(s)
  <2>1. UNCHANGED lock BY <1>1 DEF Probe
  <2>2. Goto(s, "lock") \/ Goto(s, "head") BY <1>1 DEF Probe
  <2> QED BY <2>1, <2>2, Continuing DEF Places
<1>2. CASE ProbeHead(s)
  <2>1. UNCHANGED lock BY <1>2 DEF ProbeHead
  <2>2. Goto(s, "tree") \/ Goto(s, "lock") BY <1>2 DEF ProbeHead
  <2> QED BY <2>1, <2>2, Continuing DEF Places
<1>3. CASE ProbeTree(s)
  <2>1. End(s) \/ (Goto(s, "lock") /\ UNCHANGED lock) BY <1>3 DEF ProbeTree
  <2> QED BY <2>1, Ending, Continuing DEF Places
<1>4. CASE TakeLock(s)
  <2>1. lock = None /\ lock' = s /\ Goto(s, "consume") BY <1>4 DEF TakeLock
  <2> QED BY <2>1, Locking DEF Places
<1>5. CASE Contend(s) BY <1>5, Ending DEF Contend
<1>6. CASE Consume(s)
  <2>1. Reviewing(s) /\ UNCHANGED lock BY <1>6 DEF Consume, Reviewing
  <2>2. Goto(s, "unmark") \/ Goto(s, "setup") BY <1>6 DEF Consume
  <2> QED BY <2>1, <2>2, Continuing DEF Places
<1>7. CASE Unmark(s)
  <2>1. Reviewing(s) /\ UNCHANGED lock /\ Goto(s, "setup") BY <1>7 DEF Unmark, Reviewing
  <2> QED BY <2>1, Continuing DEF Places
<1>8. CASE Setup(s)
  <2>1. Reviewing(s) /\ UNCHANGED lock /\ Goto(s, "base") BY <1>8 DEF Setup, Reviewing
  <2> QED BY <2>1, Continuing DEF Places
<1>9. CASE Gather(s)
  <2>1. Reviewing(s) /\ UNCHANGED lock /\ Goto(s, "snapshot") BY <1>9 DEF Gather, Reviewing
  <2> QED BY <2>1, Continuing DEF Places
<1>10. CASE Snapshot(s)
  <2>1. Reviewing(s) /\ UNCHANGED lock /\ Goto(s, "drive") BY <1>10 DEF Snapshot, Reviewing
  <2> QED BY <2>1, Continuing DEF Places
<1>11. CASE KeepClosed(s) BY <1>11, Ending DEF KeepClosed
<1>12. CASE Drive(s)
  <2>1. End(s) \/ (Reviewing(s) /\ Goto(s, "panel") /\ UNCHANGED lock)
    BY <1>12 DEF Drive, Reviewing
  <2> QED BY <2>1, Ending, Continuing DEF Places
<1>13. CASE Verdict(s)
  <2>1. \/ End(s)
        \/ Reviewing(s) /\ Goto(s, "reap") /\ UNCHANGED lock
    BY <1>13 DEF Verdict, Pass, Fail, HandOver, Panel, Reviewing
  <2> QED BY <2>1, Ending, Continuing DEF Places
<1>14. CASE NoVerdict(s) BY <1>14, Ending DEF NoVerdict
<1>15. CASE Reap(s)
  <2>1. End(s) \/ (Reviewing(s) /\ Goto(s, "settle") /\ UNCHANGED lock)
    BY <1>15 DEF Reap, Reviewing
  <2> QED BY <2>1, Ending, Continuing DEF Places
<1>16. CASE Settle(s) BY <1>16, Ending DEF Settle
<1> QED BY <1>1, <1>2, <1>3, <1>4, <1>5, <1>6, <1>7, <1>8, <1>9, <1>10, <1>11, <1>12,
           <1>13, <1>14, <1>15, <1>16 DEF Stop

LEMMA Starting ==
  ASSUME NEW s \in Sessions, IInv, Reset(s) \/ Start(s)
  PROVE  IInv'
<1>1. CASE Reset(s)
  <2>1. Goto(s, "wipe") /\ ((lock = None /\ lock' = s) \/ UNCHANGED lock) BY <1>1 DEF Reset
  <2> QED BY <2>1, Locking, Continuing DEF Places
<1>2. CASE Wipe(s)
  <2>1. Goto(s, "unflag") /\ UNCHANGED lock BY <1>2 DEF Wipe
  <2> QED BY <2>1, Continuing DEF Places
<1>6. CASE Unflag(s) \/ Undefer(s) \/ Unstate(s)
  <2>1. (Goto(s, "undefer") \/ Goto(s, "unstate") \/ Goto(s, "seed")) /\ UNCHANGED lock
    BY <1>6 DEF Unflag, Undefer, Unstate
  <2> QED BY <2>1, Continuing DEF Places
<1>3. CASE Seed(s)
  <2>1. (Goto(s, "save") \/ Goto(s, "hash")) /\ UNCHANGED lock BY <1>3 DEF Seed
  <2> QED BY <2>1, Continuing DEF Places
<1>4. CASE SeedTree(s)
  <2>1. Goto(s, "save") /\ UNCHANGED lock BY <1>4 DEF SeedTree
  <2> QED BY <2>1, Continuing DEF Places
<1>5. CASE Save(s) BY <1>5, Ending DEF Save
<1> QED BY <1>1, <1>2, <1>3, <1>4, <1>5, <1>6 DEF Start

LEMMA Preserved == IInv /\ [Next]_vars => IInv'
<1> SUFFICES ASSUME IInv, [Next]_vars PROVE IInv' OBVIOUS
<1>1. CASE Commit BY <1>1, Standing DEF Commit
<1>2. ASSUME NEW s \in Sessions, Edit(s) PROVE IInv'
  BY <1>2, Standing DEF Edit
<1>3. ASSUME NEW s \in Sessions, Trigger(s) PROVE IInv'
  BY <1>3, Standing DEF Trigger, TriggerRead, TriggerWrite
<1>4. ASSUME NEW s \in Sessions, Kill(s) PROVE IInv'
  BY <1>4, Ending DEF Kill
<1>5. CASE UNCHANGED vars BY <1>5, Standing DEF vars
<1> QED BY <1>1, <1>2, <1>3, <1>4, <1>5, Stopping, Starting DEF Next

(* Reviews never overlap, in spite of session starts without the lock and   *)
(* killed hooks: runGate takes the gate lock before the first step of a     *)
(* review and gives it back with the last.                                  *)
THEOREM Serial == Spec => []OneReview
<1>1. IInv => OneReview BY DEF IInv, LockHeld, OneReview
<1> QED BY <1>1, Initially, Preserved, PTL DEF Spec

-----------------------------------------------------------------------------
-----------------------------------------------------------------------------
(* Types. *)

LEMMA TypeInit == Init => TypeOK
<1> SUFFICES ASSUME Init PROVE TypeOK OBVIOUS
<1>1. st \in States
  <2>1. Fresh \in States BY StopGateAssumption DEF Fresh, States, Maybe
  <2> QED BY <2>1 DEF Init, States, Maybe
<1>2. run \in [head : Nat, base : Maybe(Nat), since : Nat, tree : Nat,
               got : SUBSET Works, say : Answers]
  BY DEF Init, Idle, NoScoping, Maybe, Answers
<1>3. NoTrigger \in [stage : {"idle", "called", "read"}, base : Maybe(Nat), since : Nat]
  BY DEF NoTrigger, NoScoping, Maybe
<1>4. owed \subseteq Works BY DEF Init
<1> QED BY <1>1, <1>2, <1>3, <1>4 DEF Init, TypeOK, Nothing, Maybe, Places, Answers

(* A hook that ends, or goes on. *)
LEMMA EndTypes ==
  ASSUME TypeOK, NEW s \in Sessions, End(s)
  PROVE  /\ pc' \in [Sessions -> Places] /\ lock' \in Maybe(Sessions)
         /\ seen' \in [Sessions -> [head : Maybe(Nat), tree : Maybe(Nat), carried : BOOLEAN]]
         /\ run' \in [head : Nat, base : Maybe(Nat), since : Nat, tree : Nat,
                      got : SUBSET Works, say : Answers]
         /\ aside' \in Maybe(Flags)
BY DEF TypeOK, End, Goto, Released, Idle, NoScoping, Nothing, Places, Answers, Maybe

LEMMA SayTypes ==
  ASSUME TypeOK, NEW s \in Sessions, NEW a \in Answers, Say(s, a)
  PROVE  answer' \in [Sessions -> Answers]
BY DEF TypeOK, Say

LEMMA GotoTypes ==
  ASSUME TypeOK, NEW s \in Sessions, NEW where \in Places, Goto(s, where)
  PROVE  pc' \in [Sessions -> Places]
BY DEF TypeOK, Goto

LEMMA AgentTypes ==
  ASSUME TypeOK, Commit \/ \E s \in Sessions : Edit(s)
  PROVE  TypeOK'
<1>1. ASSUME NEW s \in Sessions, Edit(s)
      PROVE  TypeOK'
  <2>1. "none" \in Answers BY DEF Answers
  <2>2. answer' \in [Sessions -> Answers] BY <1>1, <2>1, SayTypes DEF Edit
  <2>3. trig' \in [Sessions -> [stage : {"idle", "called", "read"}, base : Maybe(Nat), since : Nat]]
    BY <1>1 DEF Edit, TypeOK
  <2>5. owed' \subseteq Works
    <3>1. <<s, head + 1, edits'>> \in Works BY <1>1 DEF Edit, TypeOK, Works
    <3> QED BY <1>1, <3>1 DEF Edit, TypeOK
  <2>6. tree' \in Nat /\ edits' \in Nat BY <1>1 DEF Edit, TypeOK
  <2> QED BY <1>1, <2>2, <2>3, <2>5, <2>6 DEF Edit, TypeOK, files, bounds
<1>2. CASE Commit
  <2>1. /\ head' = head + 1 /\ tree' = 0
        /\ UNCHANGED <<files, lock, edits, trig, pc, seen, run, aside, answer, owed, bounds>>
    BY <1>2 DEF Commit
  <2> QED BY <2>1 DEF TypeOK, files, bounds
<1> QED BY <1>1, <1>2

LEMMA TriggerTypes ==
  ASSUME TypeOK, NEW s \in Sessions, Trigger(s)
  PROVE  TypeOK'
<1>1. CASE TriggerRead(s)
  <2>1. BatchBase \in Maybe(Nat) /\ Stamps \subseteq Nat
    <3>1. BatchBase \in Maybe(Nat) BY DEF TypeOK, BatchBase, Maybe, Flags
    <3>2. dirty # None => dirty.since \in Nat BY DEF TypeOK, Maybe, Flags
    <3>3. edits \in Nat BY DEF TypeOK
    <3>5. dirty # None => Stamps = {dirty.since} BY DEF Stamps
    <3>6. dirty = None => Stamps \subseteq 1..(edits + 1) BY DEF Stamps
    <3>7. 1..(edits + 1) \subseteq Nat BY <3>3
    <3> QED BY <3>1, <3>2, <3>5, <3>6, <3>7
  <2>2. trig' \in [Sessions -> [stage : {"idle", "called", "read"}, base : Maybe(Nat), since : Nat]]
    <3>1. PICK m \in Stamps : trig' = [trig EXCEPT ![s] = [stage |-> "read", base |-> BatchBase,
                                                          since |-> m]]
      BY <1>1 DEF TriggerRead
    <3>2. m \in Nat BY <2>1
    <3> QED BY <2>1, <3>1, <3>2 DEF TypeOK
  <2> QED BY <1>1, <2>2 DEF TriggerRead, TypeOK, files, world, bounds
<1>2. CASE TriggerWrite(s)
  <2>1. trig' \in [Sessions -> [stage : {"idle", "called", "read"}, base : Maybe(Nat), since : Nat]]
    BY <1>2 DEF TriggerWrite, TypeOK, NoTrigger, NoScoping, Maybe
  <2>2. dirty' \in Maybe(Flags) BY <1>2 DEF TriggerWrite, TypeOK, Maybe, Flags, Flag
  <2> QED BY <1>2, <2>1, <2>2 DEF TriggerWrite, TypeOK, files, world, bounds
<1> QED BY <1>1, <1>2 DEF Trigger

LEMMA ProbeTypes ==
  ASSUME TypeOK, NEW s \in Sessions, Probe(s) \/ ProbeHead(s) \/ ProbeTree(s)
  PROVE  TypeOK'
<1>1. CASE Probe(s)
  <2>1. answer' \in [Sessions -> Answers] BY <1>1, SayTypes DEF Probe, Answers
  <2>2. pc' \in [Sessions -> Places] BY <1>1, GotoTypes DEF Probe, Places
  <2>3. seen' \in [Sessions -> [head : Maybe(Nat), tree : Maybe(Nat), carried : BOOLEAN]]
    <3>1. CASE MustReview BY <1>1, <3>1 DEF Probe, TypeOK
    <3>2. CASE ~MustReview
      <4>1. Baseline \in [head : Maybe(Nat), tree : Maybe(Nat), carried : BOOLEAN]
        BY <3>2 DEF MustReview, Baseline, TypeOK, Maybe, States
      <4> QED BY <1>1, <3>2, <4>1 DEF Probe, TypeOK
    <3> QED BY <3>1, <3>2
  <2> QED BY <1>1, <2>1, <2>2, <2>3 DEF Probe, TypeOK, files, world, bounds
<1>2. CASE ProbeHead(s)
  <2>1. pc' \in [Sessions -> Places] BY <1>2, GotoTypes DEF ProbeHead, Places
  <2> QED BY <1>2, <2>1 DEF ProbeHead, TypeOK, files, world, bounds
<1>3. CASE ProbeTree(s)
  <2>1. CASE End(s) /\ Say(s, IF seen[s].carried THEN "stood down" ELSE "green")
    <3>1. answer' \in [Sessions -> Answers] BY <2>1, SayTypes DEF Answers
    <3> QED BY <1>3, <2>1, <3>1, EndTypes DEF ProbeTree, TypeOK, files, world, bounds
  <2>2. CASE Goto(s, "lock") /\ UNCHANGED <<lock, seen, run, aside, answer>>
    <3>1. pc' \in [Sessions -> Places] BY <2>2, GotoTypes DEF Places
    <3> QED BY <1>3, <2>2, <3>1 DEF ProbeTree, TypeOK, files, world, bounds
  <2> QED BY <1>3, <2>1, <2>2 DEF ProbeTree
<1> QED BY <1>1, <1>2, <1>3

(* A hook that ends with an answer and leaves everything else but state and *)
(* flags as it was.                                                          *)
LEMMA LeaveTypes ==
  ASSUME TypeOK, NEW s \in Sessions, NEW a \in Answers, End(s), Say(s, a) \/ UNCHANGED answer,
         UNCHANGED <<world, trig, bounds>>,
         st' \in Maybe(States), dirty' \in Maybe(Flags), deferred' \in BOOLEAN,
         owed' \subseteq Works \/ UNCHANGED owed
  PROVE  TypeOK'
<1>1. answer' \in [Sessions -> Answers] BY SayTypes DEF TypeOK
<1> QED BY <1>1, EndTypes DEF TypeOK, world, bounds

(* One that goes on. *)
LEMMA GoOnTypes ==
  ASSUME TypeOK, NEW s \in Sessions, NEW where \in Places, Goto(s, where),
         UNCHANGED <<world, trig, answer>>, UNCHANGED <<kills>>, resets' \in Nat,
         st' \in Maybe(States), dirty' \in Maybe(Flags), aside' \in Maybe(Flags),
         deferred' \in BOOLEAN, lock' \in Maybe(Sessions),
         seen' \in [Sessions -> [head : Maybe(Nat), tree : Maybe(Nat), carried : BOOLEAN]],
         run' \in [head : Nat, base : Maybe(Nat), since : Nat, tree : Nat,
                   got : SUBSET Works, say : Answers],
         owed' \subseteq Works
  PROVE  TypeOK'
BY GotoTypes DEF TypeOK, world

LEMMA LockTypes ==
  ASSUME TypeOK, NEW s \in Sessions, TakeLock(s) \/ Contend(s) \/ Consume(s) \/ Unmark(s)
  PROVE  TypeOK'
<1>1. CASE TakeLock(s)
  <2>1. "consume" \in Places /\ lock' \in Maybe(Sessions) BY <1>1 DEF TakeLock, Places, Maybe
  <2> QED BY <1>1, <2>1, GoOnTypes DEF TakeLock, TypeOK, files, bounds
<1>2. CASE Contend(s)
  <2>1. "deferred" \in Answers /\ "block" \in Answers BY DEF Answers
  <2>2. Say(s, "deferred") \/ Say(s, "block") BY <1>2 DEF Contend
  <2> QED BY <1>2, <2>1, <2>2, LeaveTypes DEF Contend, TypeOK
<1>3. CASE Consume(s)
  <2>1. dirty' \in Maybe(Flags)
    <3>1. Flag(LastHead, NoScoping) \in Flags BY DEF Flag, NoScoping, LastHead, Flags, TypeOK, Maybe, States
    <3> QED BY <1>3, <3>1 DEF Consume, TypeOK, Maybe
  <2>2. "unmark" \in Places /\ "setup" \in Places BY DEF Places
  <2>3. Goto(s, "unmark") \/ Goto(s, "setup") BY <1>3 DEF Consume
  <2> QED BY <1>3, <2>1, <2>2, <2>3, GoOnTypes DEF Consume, TypeOK, bounds
<1>4. CASE Unmark(s)
  <2>1. "setup" \in Places BY DEF Places
  <2> QED BY <1>4, <2>1, GoOnTypes DEF Unmark, TypeOK, bounds
<1> QED BY <1>1, <1>2, <1>3, <1>4

LEMMA DiffTypes ==
  ASSUME TypeOK, NEW s \in Sessions,
         Setup(s) \/ Gather(s) \/ Snapshot(s) \/ KeepClosed(s)
  PROVE  TypeOK'
<1>1. LastHead \in Maybe(Nat) /\ Flag(LastHead, NoScoping) \in Flags
  BY DEF LastHead, Flag, NoScoping, Flags, TypeOK, Maybe, States
<1>2. CASE Setup(s)
  <2>1. "base" \in Places BY DEF Places
  <2>2. st' \in Maybe(States)
    <3>1. Fresh \in States BY StopGateAssumption DEF Fresh, States, Maybe
    <3> QED BY <1>2, <3>1 DEF Setup, TypeOK, Maybe
  <2>3. run' \in [head : Nat, base : Maybe(Nat), since : Nat, tree : Nat,
                  got : SUBSET Works, say : Answers]
    BY <1>2 DEF Setup, TypeOK
  <2> QED BY <1>2, <2>1, <2>2, <2>3, GoOnTypes DEF Setup, TypeOK, bounds
<1>3. CASE Gather(s)
  <2>1. "snapshot" \in Places BY DEF Places
  <2>2. dirty' \in Maybe(Flags) BY <1>1, <1>3 DEF Gather, TypeOK, Maybe
  <2>3. \E b \in Maybe(Nat), m \in Nat : run' = [run EXCEPT !.base = b, !.since = m]
    BY <1>1, <1>3 DEF Gather, NoScoping, TypeOK, Maybe, Flags
  <2>4. run' \in [head : Nat, base : Maybe(Nat), since : Nat, tree : Nat,
                  got : SUBSET Works, say : Answers]
    BY <2>3 DEF TypeOK
  <2> QED BY <1>3, <2>1, <2>2, <2>4, GoOnTypes DEF Gather, TypeOK, bounds
<1>4. CASE Snapshot(s)
  <2>1. "drive" \in Places BY DEF Places
  <2>2. dirty' \in Maybe(Flags) BY <1>1, <1>4 DEF Snapshot, TypeOK, Maybe
  <2>3. run' \in [head : Nat, base : Maybe(Nat), since : Nat, tree : Nat,
                  got : SUBSET Works, say : Answers]
    <3> DEFINE g == {w \in owed : InDiff(w, run.base, run.since)}
    <3>1. g \subseteq Works /\ run' = [run EXCEPT !.tree = tree, !.got = g]
      BY <1>4 DEF Snapshot, TypeOK
    <3> HIDE DEF g
    <3> QED BY <3>1 DEF TypeOK
  <2> QED BY <1>4, <2>1, <2>2, <2>3, GoOnTypes DEF Snapshot, TypeOK, bounds
<1>5. CASE KeepClosed(s)
  <2>1. "block" \in Answers BY DEF Answers
  <2> QED BY <1>5, <2>1, LeaveTypes DEF KeepClosed, TypeOK, files
<1> QED BY <1>2, <1>3, <1>4, <1>5

LEMMA DriverTypes ==
  ASSUME TypeOK, NEW s \in Sessions, Drive(s) \/ Verdict(s) \/ NoVerdict(s)
  PROVE  TypeOK'
<1>1. /\ "green" \in Answers /\ "block" \in Answers /\ "deferred" \in Answers
      /\ "escalated" \in Answers /\ "panel" \in Places /\ "reap" \in Places
  BY DEF Answers, Places
<1>2. CASE Drive(s)
  <2>1. CASE End(s) /\ (Say(s, "green") \/ Say(s, "block")) /\ UNCHANGED <<st, dirty>>
    BY <1>1, <1>2, <2>1, LeaveTypes DEF Drive, TypeOK
  <2>2. CASE /\ dirty # None /\ st # None /\ dirty' = [dirty EXCEPT !.read = TRUE]
             /\ st' = Rearmed /\ Goto(s, "panel")
             /\ UNCHANGED <<lock, seen, run, aside, answer>>
    <3>1. dirty' \in Maybe(Flags) BY <2>2 DEF TypeOK, Maybe, Flags
    <3>2. st' \in Maybe(States)
      <4> DEFINE s1 == [st EXCEPT !.lastHead = run.head, !.lastTree = run.tree]
                 s2 == [st EXCEPT !.escalated = FALSE, !.escHead = None, !.escTree = None,
                                  !.iteration = 0]
                 s3 == [s1 EXCEPT !.escalated = FALSE, !.escHead = None, !.escTree = None,
                                  !.iteration = 0]
      <4>1. st \in States /\ run.head \in Nat /\ run.tree \in Nat /\ 0 \in 0..MaxRounds
        BY <2>2, StopGateAssumption DEF TypeOK, Maybe
      <4>2. s1 \in States BY <4>1 DEF States, Maybe
      <4>3. s2 \in States BY <4>1 DEF States, Maybe
      <4>4. Rearmed \in {st, s1, s2, s3} BY DEF Rearmed
      <4> HIDE DEF s1
      <4>5. s3 \in States BY <4>1, <4>2 DEF States, Maybe
      <4> QED BY <2>2, <4>1, <4>2, <4>3, <4>4, <4>5 DEF Maybe
    <3> QED BY <1>1, <1>2, <2>2, <3>1, <3>2, GoOnTypes DEF Drive, TypeOK, bounds
  <2> QED BY <1>2, <2>1, <2>2 DEF Drive
<1>3. CASE Verdict(s)
  <2>1. /\ st \in States /\ run.head \in Nat /\ run.tree \in Nat /\ 0 \in 0..MaxRounds
        /\ st.iteration \in 0..MaxRounds /\ MaxRounds \in Nat
    BY <1>3, StopGateAssumption DEF Verdict, Pass, Fail, HandOver, Panel, TypeOK, Maybe, States
  <2>2. Reviewed(st) \in States /\ Reviewed(st).iteration = st.iteration
    BY <2>1 DEF Reviewed, States, Maybe
  <2>3. \A a \in Answers : [run EXCEPT !.say = a] \in
          [head : Nat, base : Maybe(Nat), since : Nat, tree : Nat, got : SUBSET Works, say : Answers]
    BY DEF TypeOK
  <2>4. CASE Pass(s)
    <3>1. st' \in Maybe(States) BY <2>1, <2>2, <2>4 DEF Pass, States, Maybe
    <3> QED BY <1>1, <2>3, <2>4, <3>1, GoOnTypes DEF Pass, TypeOK, bounds
  <2>5. CASE Fail(s)
    <3>1. st' \in Maybe(States) BY <2>1, <2>2, <2>5 DEF Fail, AtCap, Panel, States, Maybe
    <3> QED BY <1>1, <2>5, <3>1, LeaveTypes DEF Fail, TypeOK
  <2>6. CASE HandOver(s)
    <3>1. st' \in Maybe(States) BY <2>1, <2>6 DEF HandOver, States, Maybe, TypeOK
    <3> QED BY <1>1, <2>3, <2>6, <3>1, GoOnTypes DEF HandOver, TypeOK, bounds
  <2> QED BY <1>3, <2>4, <2>5, <2>6 DEF Verdict
<1>4. CASE NoVerdict(s)
  <2>1. Say(s, "deferred") \/ Say(s, "block") BY <1>4 DEF NoVerdict
  <2> QED BY <1>1, <1>4, <2>1, LeaveTypes DEF NoVerdict, TypeOK, files
<1> QED BY <1>2, <1>3, <1>4

LEMMA ReapTypes ==
  ASSUME TypeOK, NEW s \in Sessions, Reap(s) \/ Settle(s)
  PROVE  TypeOK'
<1>1. run.say \in Answers /\ "settle" \in Places /\ None \in Maybe(Flags)
  BY DEF TypeOK, Places, Maybe
<1>2. CASE Reap(s) /\ dirty = None
  BY <1>1, <1>2, LeaveTypes DEF Reap, TypeOK
<1>3. CASE Reap(s) /\ dirty # None
  BY <1>1, <1>3, GoOnTypes DEF Reap, TypeOK, bounds
<1>4. CASE Settle(s)
  <2>1. dirty' \in Maybe(Flags) BY <1>4 DEF Settle, TypeOK
  <2> QED BY <1>1, <1>4, <2>1, LeaveTypes DEF Settle, TypeOK
<1> QED BY <1>2, <1>3, <1>4

LEMMA StartTypes ==
  ASSUME TypeOK, NEW s \in Sessions, Reset(s) \/ Start(s)
  PROVE  TypeOK'
<1> DEFINE Seens == [head : Maybe(Nat), tree : Maybe(Nat), carried : BOOLEAN]
<1>1. /\ "wipe" \in Places /\ "unflag" \in Places /\ "undefer" \in Places
      /\ "unstate" \in Places /\ "seed" \in Places /\ "hash" \in Places /\ "save" \in Places
      /\ "none" \in Answers /\ None \in Maybe(Flags) /\ None \in Maybe(States)
  BY DEF Places, Answers, Maybe
<1>2. CASE Reset(s)
  <2>1. answer' \in [Sessions -> Answers] BY <1>1, <1>2, SayTypes DEF Reset
  <2>2. pc' \in [Sessions -> Places] BY <1>1, <1>2, GotoTypes DEF Reset
  <2>3. lock' \in Maybe(Sessions) /\ resets' \in Nat
    <3>1. lock' \in {s, lock} /\ resets' = resets + 1 BY <1>2 DEF Reset
    <3> QED BY <3>1 DEF TypeOK, Maybe
  <2> QED BY <1>2, <2>1, <2>2, <2>3 DEF Reset, TypeOK, files, world
<1>3. CASE Wipe(s)
  <2>1. seen' \in [Sessions -> Seens]
    <3> DEFINE new == IF st # None /\ st.escalated
                      THEN [head |-> st.lastHead, tree |-> st.lastTree, carried |-> TRUE]
                      ELSE Nothing
    <3>1. new \in Seens BY DEF TypeOK, Maybe, States, Nothing
    <3>2. seen' = [seen EXCEPT ![s] = new] BY <1>3 DEF Wipe
    <3> HIDE DEF new
    <3> QED BY <3>1, <3>2 DEF TypeOK
  <2> QED BY <1>1, <1>3, <2>1, GoOnTypes DEF Wipe, TypeOK, files, bounds
<1>7. CASE Unflag(s) BY <1>1, <1>7, GoOnTypes DEF Unflag, TypeOK, bounds
<1>8. CASE Undefer(s) BY <1>1, <1>8, GoOnTypes DEF Undefer, TypeOK, bounds
<1>9. CASE Unstate(s) BY <1>1, <1>9, GoOnTypes DEF Unstate, TypeOK, bounds
<1>4. CASE Seed(s)
  <2>1. st' \in Maybe(States)
    <3>1. Fresh \in States BY StopGateAssumption DEF Fresh, States, Maybe
    <3> QED BY <1>4, <3>1 DEF Seed, TypeOK, Maybe
  <2>2. seen' \in [Sessions -> Seens]
    <3>1. \A r \in Seens : [r EXCEPT !.head = head] \in Seens BY DEF TypeOK, Maybe
    <3> QED BY <1>4, <3>1 DEF Seed, TypeOK
  <2>3. Goto(s, "save") \/ Goto(s, "hash") BY <1>4 DEF Seed
  <2> QED BY <1>1, <1>4, <2>1, <2>2, <2>3, GoOnTypes DEF Seed, TypeOK, bounds
<1>5. CASE SeedTree(s)
  <2>1. seen' \in [Sessions -> Seens]
    <3>1. \A r \in Seens : [r EXCEPT !.tree = tree] \in Seens BY DEF TypeOK, Maybe
    <3> QED BY <1>5, <3>1 DEF SeedTree, TypeOK
  <2> QED BY <1>1, <1>5, <2>1, GoOnTypes DEF SeedTree, TypeOK, files, bounds
<1>6. CASE Save(s)
  <2>1. st' \in Maybe(States)
    <3>1. /\ seen[s].head \in Maybe(Nat) /\ SeededTree(s) \in Maybe(Nat)
          /\ st # None => st.lastHead \in Maybe(Nat) /\ st \in States
      BY DEF SeededTree, TypeOK, Maybe, States
    <3>2. CASE st = None BY <1>6, <3>2 DEF Save, Maybe
    <3>3. CASE st # None
      <4> DEFINE h == IF seen[s].head = None THEN st.lastHead ELSE seen[s].head
      <4>1. st' = [st EXCEPT !.lastHead = h, !.lastTree = SeededTree(s)]
        BY <1>6, <3>3 DEF Save
      <4>2. h \in Maybe(Nat) BY <3>1, <3>3
      <4> HIDE DEF h
      <4> QED BY <3>1, <3>3, <4>1, <4>2 DEF States, Maybe
    <3> QED BY <3>2, <3>3
  <2> QED BY <1>1, <1>6, <2>1, LeaveTypes DEF Save, TypeOK
<1> QED BY <1>2, <1>3, <1>4, <1>5, <1>6, <1>7, <1>8, <1>9 DEF Start

LEMMA KillTypes ==
  ASSUME TypeOK, NEW s \in Sessions, Kill(s)
  PROVE  TypeOK'
<1>1. answer' \in [Sessions -> Answers] BY SayTypes DEF Kill, Answers
<1>2. kills' \in Nat
  <2>1. kills' = kills + 1 BY DEF Kill
  <2> QED BY <2>1 DEF TypeOK
<1> QED BY <1>1, <1>2, EndTypes DEF Kill, TypeOK, files, world

LEMMA StopTypes ==
  ASSUME TypeOK, NEW s \in Sessions, Stop(s)
  PROVE  TypeOK'
BY ProbeTypes, LockTypes, DiffTypes, DriverTypes, ReapTypes DEF Stop

LEMMA TypeNext ==
  ASSUME TypeOK, Next
  PROVE  TypeOK'
<1>1. CASE Commit BY <1>1, AgentTypes
<1>2. ASSUME NEW s \in Sessions,
             Edit(s) \/ Trigger(s) \/ Stop(s) \/ Reset(s) \/ Start(s) \/ Kill(s)
      PROVE  TypeOK'
  BY <1>2, AgentTypes, TriggerTypes, StopTypes, StartTypes, KillTypes
<1> QED BY <1>1, <1>2 DEF Next

(* The hooks keep the types of the files they share, and the rounds of a    *)
(* cycle below their cap, whatever the windows.                              *)
THEOREM TypeCorrect == Spec => []TypeOK
<1>1. TypeOK /\ UNCHANGED vars => TypeOK'
  BY DEF vars, files, world, bounds, TypeOK
<1> QED BY TypeInit, TypeNext, <1>1, PTL DEF Spec

-----------------------------------------------------------------------------
(* The work of the sessions, where none of the situations in Situations      *)
(* arises.  The invariant says what each of the places that remember work    *)
(* holds of it: the base of every flag, on disk, set aside or about to be    *)
(* written, is older than all work, and its stamp than every new file with   *)
(* work; work no flag covers is uncommitted, and  *)
(* in a tree that was never recorded; and what came after a gate's diff is   *)
(* behind a trigger that has yet to write.                                   *)

(* What a gate or a session start has recorded is not of the future. *)
NotAfter(limit, n) == n # None => n <= limit
Known ==
  /\ tree <= edits /\ run.head <= head /\ run.tree <= edits
  /\ \A w \in owed : w[2] <= head + 1 /\ (w[2] > head => tree # 0 /\ w[3] <= tree)
  /\ st # None => /\ NotAfter(head, st.lastHead) /\ NotAfter(edits, st.lastTree)
                  /\ NotAfter(head, st.escHead) /\ NotAfter(edits, st.escTree)
  /\ \A s \in Sessions : NotAfter(head, seen[s].head) /\ NotAfter(edits, seen[s].tree)

(* The lock and the flag set aside belong to whoever is at work; only a     *)
(* session start leaves the checkout without state.                         *)
Held ==
  /\ \A s \in Sessions : lock = s <=> Reviewing(s) \/ Resetting(s)
  /\ aside # None <=> \E s \in Sessions : pc[s] = "settle"
  /\ st = None => \E s \in Sessions : pc[s] = "seed"
  /\ st # None /\ st.lastHead = None => \E s \in Sessions : pc[s] \in {"hash", "save"}
  /\ \A s \in Sessions : \/ pc[s] \in {"hash", "save"}
                         \/ /\ pc[s] \in {"unflag", "undefer", "unstate", "seed"}
                            /\ seen[s].carried
                         => seen[s].head # None

(* Every base on disk or on its way there is older than the work owed. *)
Covers(base) == base # None /\ base <= head /\ \A w \in owed : base < w[2]
Based ==
  /\ dirty # None => Covers(dirty.base)
  /\ aside # None => Covers(aside.base)
  /\ \A s \in Sessions : /\ trig[s].stage = "read" => Covers(trig[s].base)
                         /\ pc[s] = "snapshot" => Covers(run.base)

(* Every stamp is older than the new files with work owed. *)
Reaches(since) == since <= edits + 1 /\ \A w \in owed : w[2] > head => since <= w[3]
Stamped ==
  /\ dirty # None => Reaches(dirty.since)
  /\ aside # None => Reaches(aside.since)
  /\ \A s \in Sessions : /\ trig[s].stage = "read" => Reaches(trig[s].since)
                         /\ pc[s] = "snapshot" => Reaches(run.since)

(* What no flag covers is not committed, and the tree it is in is not one   *)
(* that was recorded.                                                        *)
Flagged == NextFlag = None => \A w \in owed : w[2] > head
Distinct ==
  st # None => \A w \in owed : w[2] > head =>
    /\ st.escalated => tree # st.lastTree /\ tree # st.escTree
    /\ NextFlag = None /\ ~Unflagging => tree # st.lastTree

(* A probe that reads on finds a later HEAD or another tree. *)
Probing ==
  \A s \in Sessions : pc[s] \in {"head", "tree"} =>
    /\ pc[s] = "tree" => seen[s].head = head
    /\ \A w \in owed : w[1] = s =>
         seen[s].head # head \/ (w[2] > head /\ tree # seen[s].tree)

(* While a gate works on its diff, work that came later is in another tree, *)
(* and behind a trigger that has yet to write.                              *)
Pending(w) == w[2] > head /\ trig[w[1]].stage # "idle"
Working ==
  \A s \in Sessions :
    /\ pc[s] \in {"drive", "panel"} => \A w \in owed \ run.got :
         /\ w[1] # s
         /\ w[2] > head => tree # run.tree /\ tree # st.lastTree
         /\ pc[s] = "drive" \/ dirty.read => Pending(w)
    /\ pc[s] = "drive" /\ dirty = None => \A w \in owed : w[1] # s
    /\ pc[s] \in {"panel", "reap"} => dirty # None
    /\ pc[s] = "panel" => ~st.escalated
    /\ pc[s] = "reap" => \A w \in owed :
         /\ w[1] # s
         /\ w[2] > head => tree # st.lastTree
         /\ dirty.read => Pending(w)
    /\ pc[s] = "settle" => \A w \in owed : w[1] # s

(* A session starts over work that is not committed. *)
Starts ==
  \A s \in Sessions :
    /\ pc[s] = "hash" => ~seen[s].carried
    /\ Resetting(s) => \A w \in owed :
         /\ w[2] > head
         /\ pc[s] # "wipe" /\ seen[s].carried => tree # seen[s].tree

(* Whoever was let go owes nothing. *)
Earned ==
  \A s \in Sessions : answer[s] \in {"green", "stood down"} => \A w \in owed : w[1] # s

Tied == /\ TypeOK /\ Held /\ Known /\ Based /\ Stamped /\ Flagged
        /\ Distinct /\ Probing /\ Working /\ Starts /\ Earned

(* Whoever has the lock is the only one at work on the checkout. *)
Alone(s) ==
  /\ lock = s
  /\ \A t \in Sessions : t # s => pc[t] \in {"agent", "head", "tree", "lock"}
  /\ pc[s] # "settle" => aside = None
  /\ pc[s] = "settle" => aside # None
  /\ pc[s] # "seed" => st # None
  /\ Reviewing(s) => st.lastHead # None

LEMMA HasLock ==
  ASSUME TypeOK, Held, NEW s \in Sessions, Reviewing(s) \/ Resetting(s)
  PROVE  Alone(s)
<1>1. lock = s BY DEF Held
<1>2. ASSUME NEW t \in Sessions, t # s PROVE pc[t] \in {"agent", "head", "tree", "lock"}
  <2>1. ~Reviewing(t) /\ ~Resetting(t) BY <1>1, <1>2 DEF Held
  <2> QED BY <2>1 DEF TypeOK, Places, Reviewing, Resetting
<1>3. pc[s] # "settle" => aside = None BY <1>2 DEF Held
<1>4. pc[s] = "settle" => aside # None BY DEF Held
<1>5. pc[s] # "seed" => st # None BY <1>2 DEF Held
<1>6. Reviewing(s) => st # None /\ st.lastHead # None BY <1>2 DEF Held, Reviewing
<1> QED BY <1>1, <1>2, <1>3, <1>4, <1>5, <1>6 DEF Alone

USE DEF Works, Unflagging, NoScoping, May, Goto, Say, End, Released, Idle, Nothing, files, world, bounds,
        Reviewing, Resetting

(* One lemma for each action: every part of the invariant is kept.          *)
LEMMA EditTied ==
  ASSUME Races = {}, Tied, NEW s \in Sessions, Edit(s), TypeOK'
  PROVE  Tied'
<1> USE DEF Tied, Edit
<1>2. Earned' BY DEF Earned, Working, TypeOK
<1> USE StopGateAssumption DEF TypeOK, Maybe, States, Flags, Places
<1>3. Held' BY DEF Held
<1>4. Known' BY DEF Known, NotAfter
<1>5. Based' BY DEF Based, Covers, Held, Known, NotAfter
<1>6. Flagged' BY DEF Flagged, NextFlag, Newer, Held, Known, NotAfter
<1>7. Distinct' BY DEF Distinct, NextFlag, Newer, Held, Known, NotAfter
<1>8. Probing' BY DEF Probing, Held, Known, NotAfter
<1>9. Starts' BY DEF Starts, Held, Known, NotAfter
<1>10. Working' BY DEF Working, Pending, Held, Known, NotAfter
<1>11. Stamped' BY DEF Stamped, Reaches, Held, Known, NotAfter
<1> QED BY <1>2, <1>3, <1>4, <1>5, <1>6, <1>7, <1>8, <1>9, <1>10, <1>11

LEMMA CommitTied ==
  ASSUME Races = {}, Tied, Commit, TypeOK'
  PROVE  Tied'
<1> USE DEF Tied, Commit
<1>2. Earned' BY DEF Earned, Working, TypeOK
<1> USE StopGateAssumption DEF TypeOK, Maybe, States, Flags, Places
<1>3. Held' BY DEF Held
<1>4. Known' BY DEF Known, NotAfter
<1>5. Based' BY DEF Based, Covers, Held, Known, NotAfter
<1>1. dirty = None => \A w \in owed : w[2] # head + 1 OBVIOUS
<1>6. Flagged'
  <2>1. NextFlag' = NextFlag /\ (NextFlag = None => dirty = None) BY DEF NextFlag, Newer
  <2>2. \A w \in owed : w[2] \in Nat /\ head \in Nat OBVIOUS
  <2>3. head' = head + 1 /\ owed' = owed OBVIOUS
  <2> HIDE DEF Commit, TypeOK
  <2> QED BY <1>1, <2>1, <2>2, <2>3 DEF Flagged
<1>7. Distinct' BY DEF Distinct, NextFlag, Newer, Held, Known, NotAfter
<1>8. Probing' BY DEF Probing, Held, Known, NotAfter
<1>9. Starts' BY DEF Starts, Held, Known, NotAfter
<1>10. Working' BY DEF Working, Pending, Held, Known, NotAfter
<1>11. Stamped' BY DEF Stamped, Reaches, Held, Known, NotAfter
<1> QED BY <1>2, <1>3, <1>4, <1>5, <1>6, <1>7, <1>8, <1>9, <1>10, <1>11

LEMMA TriggerReadTied ==
  ASSUME Races = {}, Tied, NEW s \in Sessions, TriggerRead(s), TypeOK'
  PROVE  Tied'
<1> USE DEF Tied, TriggerRead, BatchBase, Stamps
<1>2. Earned' BY DEF Earned, Working, TypeOK
<1> USE StopGateAssumption DEF TypeOK, Maybe, States, Flags, Places
<1>3. Held' BY DEF Held
<1>4. Known' BY DEF Known, NotAfter
<1>5. Based' BY DEF Based, Covers, Held, Known, NotAfter, Flagged, NextFlag
<1>6. Flagged' BY DEF Flagged, NextFlag, Newer, Held, Known, NotAfter
<1>7. Distinct' BY DEF Distinct, NextFlag, Newer, Held, Known, NotAfter
<1>8. Probing' BY DEF Probing, Held, Known, NotAfter
<1>9. Starts' BY DEF Starts, Held, Known, NotAfter
<1>10. Working' BY DEF Working, Pending, Held, Known, NotAfter
<1>11. Stamped' BY DEF Stamped, Reaches, Held, Known, NotAfter, Flagged, NextFlag
<1> QED BY <1>2, <1>3, <1>4, <1>5, <1>6, <1>7, <1>8, <1>9, <1>10, <1>11

LEMMA TriggerWriteTied ==
  ASSUME Races = {}, Tied, NEW s \in Sessions, TriggerWrite(s), TypeOK'
  PROVE  Tied'
<1> USE DEF Tied, TriggerWrite, NoTrigger
<1>2. Earned' BY DEF Earned, Working, TypeOK
<1> USE StopGateAssumption DEF TypeOK, Maybe, States, Flags, Places
<1>1. /\ dirty' # None /\ ~dirty'.read
      /\ dirty'.base = trig[s].base /\ dirty'.since = trig[s].since
      /\ \A t \in Sessions : pc[t] # "drive"
  <2>1. Flag(trig[s].base, trig[s].since) \in Flags BY DEF Flag
  <2> QED BY <2>1 DEF Flag
<1>3. Held' BY DEF Held
<1>4. Known' BY DEF Known, NotAfter
<1>5. Based' BY <1>1 DEF Based, Covers, Held, Known, NotAfter
<1>a. NextFlag' # None BY <1>1 DEF NextFlag
<1>6. Flagged' BY <1>a DEF Flagged
<1>7. Distinct' BY <1>a DEF Distinct
<1>8. Probing' BY DEF Probing, Held, Known, NotAfter
<1>9. Starts' BY DEF Starts, Held, Known, NotAfter
<1>10. Working' BY <1>1 DEF Working, Pending, Held, Known, NotAfter
<1>11. Stamped' BY <1>1 DEF Stamped, Reaches, Held, Known, NotAfter
<1> QED BY <1>2, <1>3, <1>4, <1>5, <1>6, <1>7, <1>8, <1>9, <1>10, <1>11

LEMMA ProbeTied ==
  ASSUME Races = {}, Tied, NEW s \in Sessions, Probe(s), TypeOK'
  PROVE  Tied'
<1> USE DEF Tied, Probe
<1>2. Earned' BY DEF Earned, Working, TypeOK
<1> USE StopGateAssumption DEF TypeOK, Maybe, States, Flags, Places
<1>1. aside = None OBVIOUS
<1>a. \/ pc' = [pc EXCEPT ![s] = "lock"] /\ seen' = seen
      \/ /\ pc' = [pc EXCEPT ![s] = "head"] /\ seen' = [seen EXCEPT ![s] = Baseline]
         /\ dirty = None /\ st # None
  BY DEF MustReview
<1>3. Held'
  <2>1. /\ pc[s] = "agent" /\ pc'[s] \in {"head", "lock"}
        /\ \A t \in Sessions \ {s} : pc'[t] = pc[t] /\ seen'[t] = seen[t]
        /\ UNCHANGED <<lock, aside, st>>
    BY <1>a
  <2>2. Held OBVIOUS
  <2> HIDE DEF Tied, Probe, TypeOK
  <2> QED BY <2>1, <2>2 DEF Held
<1>b. st # None => /\ NotAfter(head, Baseline.head) /\ NotAfter(edits, Baseline.tree)
  BY DEF Known, NotAfter, Baseline
<1>c. st # None /\ dirty = None => \A w \in owed : w[2] > head /\ tree # Baseline.tree
  BY <1>1 DEF Flagged, Distinct, NextFlag, Baseline
<1>4. Known'
  <2>1. \A t \in Sessions : NotAfter(head, seen'[t].head) /\ NotAfter(edits, seen'[t].tree)
    BY <1>a, <1>b DEF Known
  <2> QED BY <2>1 DEF Known
<1>5. Based' BY DEF Based, Covers, Held, Known, NotAfter
<1>6. Flagged' BY DEF Flagged, NextFlag, Newer, Held, Known, NotAfter
<1>7. Distinct' BY DEF Distinct, NextFlag, Newer, Held, Known, NotAfter
<1>8. Probing' BY <1>a, <1>c DEF Probing
<1>9. Starts' BY DEF Starts, Held, Known, NotAfter
<1>10. Working' BY DEF Working, Pending, Held, Known, NotAfter
<1>11. Stamped' BY DEF Stamped, Reaches, Held, Known, NotAfter
<1> QED BY <1>2, <1>3, <1>4, <1>5, <1>6, <1>7, <1>8, <1>9, <1>10, <1>11

LEMMA ProbeHeadTied ==
  ASSUME Races = {}, Tied, NEW s \in Sessions, ProbeHead(s), TypeOK'
  PROVE  Tied'
<1> USE DEF Tied, ProbeHead
<1>2. Earned' BY DEF Earned, Working, TypeOK
<1> USE StopGateAssumption DEF TypeOK, Maybe, States, Flags, Places
<1>3. Held' BY DEF Held
<1>4. Known' BY DEF Known, NotAfter
<1>5. Based' BY DEF Based, Covers, Held, Known, NotAfter
<1>6. Flagged' BY DEF Flagged, NextFlag, Newer, Held, Known, NotAfter
<1>7. Distinct' BY DEF Distinct, NextFlag, Newer, Held, Known, NotAfter
<1>8. Probing' BY DEF Probing, Held, Known, NotAfter
<1>9. Starts' BY DEF Starts, Held, Known, NotAfter
<1>10. Working' BY DEF Working, Pending, Held, Known, NotAfter
<1>11. Stamped' BY DEF Stamped, Reaches, Held, Known, NotAfter
<1> QED BY <1>2, <1>3, <1>4, <1>5, <1>6, <1>7, <1>8, <1>9, <1>10, <1>11

LEMMA ProbeTreeTied ==
  ASSUME Races = {}, Tied, NEW s \in Sessions, ProbeTree(s), TypeOK'
  PROVE  Tied'
<1> USE DEF Tied, ProbeTree, SameTree
<1>a. lock # s BY DEF Held
<1>b. /\ lock' = lock /\ run' = run /\ aside' = aside
      /\ \/ /\ seen[s].tree = tree /\ pc' = [pc EXCEPT ![s] = "agent"]
            /\ seen' = [seen EXCEPT ![s] = Nothing]
         \/ /\ pc' = [pc EXCEPT ![s] = "lock"] /\ seen' = seen /\ answer' = answer
  BY <1>a
<1>c. seen[s].tree = tree => \A w \in owed : w[1] # s BY DEF Probing
<1>d. /\ \A t \in Sessions \ {s} : answer'[t] = answer[t]
      /\ answer'[s] = answer[s] \/ seen[s].tree = tree
  BY DEF TypeOK
<1>2. Earned' BY <1>c, <1>d DEF Earned
<1>e. UNCHANGED <<files, world, trig, owed, bounds>> /\ pc[s] = "tree" OBVIOUS
<1> HIDE DEF ProbeTree
<1>3. Held'
  <2>1. /\ pc'[s] \in {"agent", "lock"}
        /\ \A t \in Sessions \ {s} : pc'[t] = pc[t] /\ seen'[t] = seen[t]
    BY <1>b DEF TypeOK
  <2>2. UNCHANGED <<lock, aside, st>> BY <1>b, <1>e
  <2> QED BY <1>e, <2>1, <2>2 DEF Held
<1> USE <1>b, StopGateAssumption DEF TypeOK, Maybe, States, Flags, Places
<1>4. Known' BY <1>e DEF Known, NotAfter
<1>5. Based' BY <1>e DEF Based, Covers, Held, Known, NotAfter
<1>6. Flagged' BY <1>e DEF Flagged, NextFlag, Newer, Held, Known, NotAfter
<1>7. Distinct' BY <1>e DEF Distinct, NextFlag, Newer, Held, Known, NotAfter
<1>8. Probing' BY <1>e DEF Probing, Held, Known, NotAfter
<1>9. Starts' BY <1>e DEF Starts, Held, Known, NotAfter
<1>10. Working' BY <1>e DEF Working, Pending, Held, Known, NotAfter
<1>11. Stamped' BY <1>e DEF Stamped, Reaches, Held, Known, NotAfter
<1> QED BY <1>2, <1>3, <1>4, <1>5, <1>6, <1>7, <1>8, <1>9, <1>10, <1>11

LEMMA TakeLockTied ==
  ASSUME Races = {}, Tied, NEW s \in Sessions, TakeLock(s), TypeOK'
  PROVE  Tied'
<1> USE DEF Tied, TakeLock
<1>2. Earned' BY DEF Earned, Working, TypeOK
<1> USE StopGateAssumption DEF TypeOK, Maybe, States, Flags, Places
<1>3. Held' BY DEF Held
<1>4. Known' BY DEF Known, NotAfter
<1>5. Based' BY DEF Based, Covers, Held, Known, NotAfter
<1>6. Flagged' BY DEF Flagged, NextFlag, Newer, Held, Known, NotAfter
<1>7. Distinct' BY DEF Distinct, NextFlag, Newer, Held, Known, NotAfter
<1>8. Probing' BY DEF Probing, Held, Known, NotAfter
<1>9. Starts' BY DEF Starts, Held, Known, NotAfter
<1>10. Working' BY DEF Working, Pending, Held, Known, NotAfter
<1>11. Stamped' BY DEF Stamped, Reaches, Held, Known, NotAfter
<1> QED BY <1>2, <1>3, <1>4, <1>5, <1>6, <1>7, <1>8, <1>9, <1>10, <1>11

LEMMA ContendTied ==
  ASSUME Races = {}, Tied, NEW s \in Sessions, Contend(s), TypeOK'
  PROVE  Tied'
<1> USE DEF Tied, Contend
<1>2. Earned' BY DEF Earned, Working, TypeOK
<1> USE StopGateAssumption DEF TypeOK, Maybe, States, Flags, Places
<1>3. Held' BY DEF Held
<1>4. Known' BY DEF Known, NotAfter
<1>5. Based' BY DEF Based, Covers, Held, Known, NotAfter
<1>6. Flagged' BY DEF Flagged, NextFlag, Newer, Held, Known, NotAfter
<1>7. Distinct' BY DEF Distinct, NextFlag, Newer, Held, Known, NotAfter
<1>8. Probing' BY DEF Probing, Held, Known, NotAfter
<1>9. Starts' BY DEF Starts, Held, Known, NotAfter
<1>10. Working' BY DEF Working, Pending, Held, Known, NotAfter
<1>11. Stamped' BY DEF Stamped, Reaches, Held, Known, NotAfter
<1> QED BY <1>2, <1>3, <1>4, <1>5, <1>6, <1>7, <1>8, <1>9, <1>10, <1>11

LEMMA ConsumeTied ==
  ASSUME Races = {}, Tied, NEW s \in Sessions, Consume(s), TypeOK'
  PROVE  Tied'
<1> USE DEF Tied, Consume, Flag, LastHead
<1>1. Alone(s) BY HasLock
<1>2. Earned' BY <1>1 DEF Earned, Working, TypeOK
<1> USE StopGateAssumption DEF TypeOK, Maybe, States, Flags, Places
<1>a. /\ st # None /\ aside = None /\ st.lastHead # None
      /\ dirty = None => Covers(st.lastHead)
  BY <1>1 DEF Alone, Covers, Known, NotAfter, Flagged, NextFlag
<1>b. \/ dirty' = dirty
      \/ dirty = None /\ dirty' = [base |-> st.lastHead, since |-> 0, read |-> FALSE]
  BY <1>a
<1>c. dirty' = None \/ Covers(dirty'.base) BY <1>a, <1>b DEF Based
<1>3. Held' BY <1>1 DEF Held
<1>4. Known' BY <1>1 DEF Known, NotAfter
<1>5. Based'
  <2>1. dirty' # None => (Covers(dirty.base))' BY <1>c DEF Covers
  <2>2. aside = None BY <1>a
  <2> QED BY <2>1, <2>2 DEF Based, Covers
<1>6. Flagged' BY <1>1 DEF Flagged, NextFlag, Newer, Held, Known, NotAfter
<1>7. Distinct' BY <1>1 DEF Distinct, NextFlag, Newer, Held, Known, NotAfter
<1>8. Probing' BY DEF Probing, Held, Known, NotAfter
<1>9. Starts' BY DEF Starts, Held, Known, NotAfter
<1>10. Working' BY <1>1 DEF Working, Pending, Held, Known, NotAfter
<1>11. Stamped' BY DEF Stamped, Reaches
<1> QED BY <1>2, <1>3, <1>4, <1>5, <1>6, <1>7, <1>8, <1>9, <1>10, <1>11

LEMMA UnmarkTied ==
  ASSUME Races = {}, Tied, NEW s \in Sessions, Unmark(s), TypeOK'
  PROVE  Tied'
<1> USE DEF Tied, Unmark, Alone
<1>1. Alone(s) BY HasLock
<1>2. Earned' BY <1>1 DEF Earned, Working, TypeOK
<1> USE StopGateAssumption DEF TypeOK, Maybe, States, Flags, Places
<1>3. Held' BY <1>1 DEF Held
<1>4. Known' BY <1>1 DEF Known, NotAfter
<1>5. Based' BY <1>1 DEF Based, Covers, Held, Known, NotAfter
<1>6. Flagged' BY <1>1 DEF Flagged, NextFlag, Newer, Held, Known, NotAfter
<1>7. Distinct' BY <1>1 DEF Distinct, NextFlag, Newer, Held, Known, NotAfter
<1>8. Probing' BY <1>1 DEF Probing, Held, Known, NotAfter
<1>9. Starts' BY <1>1 DEF Starts, Held, Known, NotAfter
<1>10. Working' BY <1>1 DEF Working, Pending, Held, Known, NotAfter
<1>11. Stamped' BY <1>1 DEF Stamped, Reaches, Held, Known, NotAfter
<1> QED BY <1>2, <1>3, <1>4, <1>5, <1>6, <1>7, <1>8, <1>9, <1>10, <1>11

LEMMA SetupTied ==
  ASSUME Races = {}, Tied, NEW s \in Sessions, Setup(s), TypeOK'
  PROVE  Tied'
<1> USE DEF Tied, Setup, Fresh, Alone
<1>1. Alone(s) BY HasLock
<1>2. Earned' BY <1>1 DEF Earned, Working, TypeOK
<1> USE StopGateAssumption DEF TypeOK, Maybe, States, Flags, Places
<1>3. Held' BY <1>1 DEF Held
<1>4. Known' BY <1>1 DEF Known, NotAfter
<1>5. Based' BY <1>1 DEF Based, Covers, Held, Known, NotAfter
<1>6. Flagged' BY <1>1 DEF Flagged, NextFlag, Newer, Held, Known, NotAfter
<1>7. Distinct' BY <1>1 DEF Distinct, NextFlag, Newer, Held, Known, NotAfter
<1>8. Probing' BY <1>1 DEF Probing, Held, Known, NotAfter
<1>9. Starts' BY <1>1 DEF Starts, Held, Known, NotAfter
<1>10. Working' BY <1>1 DEF Working, Pending, Held, Known, NotAfter
<1>11. Stamped' BY <1>1 DEF Stamped, Reaches, Held, Known, NotAfter
<1> QED BY <1>2, <1>3, <1>4, <1>5, <1>6, <1>7, <1>8, <1>9, <1>10, <1>11

LEMMA GatherTied ==
  ASSUME Races = {}, Tied, NEW s \in Sessions, Gather(s), TypeOK'
  PROVE  Tied'
<1> USE DEF Tied, Gather, Flag, LastHead
<1>1. Alone(s) BY HasLock
<1>2. Earned' BY <1>1 DEF Earned, Working, TypeOK, Alone
<1> USE StopGateAssumption DEF TypeOK, Maybe, States, Flags, Places
<1>a. /\ st # None /\ aside = None /\ st.lastHead # None
      /\ dirty = None => Covers(st.lastHead)
  BY <1>1 DEF Alone, Covers, Known, NotAfter, Flagged, NextFlag
<1>b. /\ run' = [run EXCEPT !.base = IF dirty = None THEN st.lastHead ELSE dirty.base,
                             !.since = IF dirty = None THEN 0 ELSE dirty.since]
      /\ \/ dirty' = dirty
         \/ dirty = None /\ dirty' = [base |-> st.lastHead, since |-> 0, read |-> FALSE]
  BY <1>a
<1>c. /\ dirty' = None \/ Covers(dirty'.base) 
      /\ Covers(run'.base) /\ run'.head = run.head /\ run'.tree = run.tree /\ run'.got = run.got
  BY <1>a, <1>b DEF Based
<1>d. UNCHANGED <<st, deferred, lock, world, trig, seen, aside, answer, owed, bounds>>
      /\ pc' = [pc EXCEPT ![s] = "snapshot"]
  OBVIOUS
<1>3. Held' BY <1>1, <1>c, <1>d DEF Held
<1>4. Known' BY <1>1, <1>c, <1>d DEF Known, NotAfter
<1>5. Based' BY <1>a, <1>c, <1>d DEF Based, Covers
<1>6. Flagged' BY <1>1, <1>c, <1>d DEF Flagged, NextFlag, Newer, Held, Known, NotAfter
<1>7. Distinct' BY <1>1, <1>c, <1>d DEF Distinct, NextFlag, Newer, Held, Known, NotAfter
<1>8. Probing' BY <1>1, <1>c, <1>d DEF Probing, Held, Known, NotAfter
<1>9. Starts' BY <1>1, <1>c, <1>d DEF Starts, Held, Known, NotAfter
<1>10. Working' BY <1>1, <1>c, <1>d DEF Working, Pending, Held, Known, NotAfter
<1>11. Stamped'
  <2>1. /\ dirty' = None \/ Reaches(dirty'.since)
        /\ Reaches(run'.since)
    BY <1>a, <1>b DEF Stamped, Reaches
  <2> QED BY <1>a, <1>d, <2>1 DEF Stamped, Reaches
<1> QED BY <1>2, <1>3, <1>4, <1>5, <1>6, <1>7, <1>8, <1>9, <1>10, <1>11

LEMMA SnapshotTied ==
  ASSUME Races = {}, Tied, NEW s \in Sessions, Snapshot(s), TypeOK'
  PROVE  Tied'
<1> USE DEF Tied, Snapshot, Flag, LastHead, Unflagged, EmptyDiff, InDiff
<1>1. Alone(s) BY HasLock
<1>2. Earned' BY <1>1 DEF Earned, Working, TypeOK, Alone
<1> USE StopGateAssumption DEF TypeOK, Maybe, States, Flags, Places
<1>a. st # None /\ aside = None /\ st.lastHead # None /\ Covers(run.base)
  BY <1>1 DEF Alone, Based
<1>b. run'.got = owed /\ run'.tree = tree /\ run'.base = run.base /\ run'.head = run.head
  <2>1. \A w \in owed : IF w[2] > head THEN run.since <= w[3]
                         ELSE run.base # None /\ run.base < w[2]
    BY <1>a DEF Covers, Stamped, Reaches
  <2> QED BY <2>1
<1>c. dirty = None => Covers(st.lastHead)
  <2>1. dirty = None => \A w \in owed : w[2] > head BY <1>a DEF Flagged, NextFlag
  <2>2. st.lastHead <= head /\ st.lastHead \in Nat /\ head \in Nat BY <1>a DEF Known, NotAfter
  <2>3. \A w \in owed : w[2] \in Nat OBVIOUS
  <2> HIDE DEF Snapshot, TypeOK
  <2> QED BY <1>a, <2>1, <2>2, <2>3 DEF Covers
<1>d. \/ dirty' = dirty
      \/ dirty = None /\ dirty' = [base |-> st.lastHead, since |-> 0, read |-> FALSE] /\ dirty' # None
  <2>1. [base |-> st.lastHead, since |-> 0, read |-> FALSE] \in Flags BY <1>a
  <2> QED BY <1>a, <2>1
<1>i. dirty = None /\ ~EmptyDiff(run.base, run.since) => dirty' # None
  <2>1. [base |-> st.lastHead, since |-> 0, read |-> FALSE] \in Flags BY <1>a
  <2> QED BY <1>a, <2>1
<1>e. dirty' = None => owed = {}
  <2>1. SUFFICES ASSUME dirty' = None, NEW w \in owed PROVE FALSE OBVIOUS
  <2>2. dirty = None /\ tree = 0 /\ run.base = head
    <3>1. dirty = None BY <1>d, <2>1
    <3>2. run.base = head /\ (tree = 0 \/ tree < run.since) BY <1>a, <1>i, <2>1, <3>1 DEF Covers
    <3>3. Reaches(run.since) /\ w[2] > head BY <1>a, <3>2 DEF Stamped, Covers
    <3>4. run.since <= w[3] /\ w[3] <= tree BY <3>3 DEF Reaches, Known
    <3>5. run.since \in Nat /\ w[3] \in Nat /\ tree \in Nat OBVIOUS
    <3>6. ~(tree < run.since)
      <4> HIDE DEF TypeOK, Tied, Snapshot, EmptyDiff, InDiff
      <4> QED BY <3>4, <3>5
    <3> QED BY <3>1, <3>2, <3>6
  <2>3. w[2] > head /\ tree # 0 BY <1>a, <2>2 DEF Covers, Known
  <2> QED BY <2>2, <2>3
<1>f. pc[s] = "snapshot" /\ pc' = [pc EXCEPT ![s] = "drive"] OBVIOUS
<1>g. UNCHANGED <<st, deferred, lock, world, trig, seen, aside, answer, owed, bounds>> OBVIOUS
<1> HIDE DEF Snapshot, Unflagged, EmptyDiff, InDiff
<1>h. dirty' # None => Covers(dirty'.base) BY <1>c, <1>d DEF Based
<1>3. Held' BY <1>1, <1>f, <1>g DEF Held, Alone
<1>4. Known' BY <1>b, <1>f, <1>g DEF Known, NotAfter, Alone
<1>5. Based' BY <1>1, <1>a, <1>f, <1>g, <1>h DEF Based, Covers, Alone
<1>6. Flagged' BY <1>1, <1>d, <1>f, <1>g DEF Flagged, NextFlag, Newer, Held, Known, NotAfter, Alone
<1>7. Distinct' BY <1>1, <1>d, <1>f, <1>g DEF Distinct, NextFlag, Newer, Held, Known, NotAfter, Alone
<1>8. Probing' BY <1>1, <1>f, <1>g DEF Probing, Held, Known, NotAfter, Alone
<1>9. Starts' BY <1>1, <1>f, <1>g DEF Starts, Held, Known, NotAfter, Alone
<1>10. Working' BY <1>1, <1>b, <1>e, <1>f, <1>g DEF Working, Pending, Held, Known, NotAfter, Alone
<1>11. Stamped'
  <2>1. dirty' = None \/ Reaches(dirty'.since)
    <3>1. edits \in Nat /\ \A w \in owed : w[3] \in Nat OBVIOUS
    <3> QED BY <1>d, <3>1 DEF Stamped, Reaches
  <2>2. \A t \in Sessions : pc'[t] # "snapshot"
    <3>1. pc'[s] = "drive" /\ \A t \in Sessions : t # s => pc'[t] = pc[t] BY <1>f
    <3> QED BY <1>1, <3>1 DEF Alone
  <2> QED BY <1>a, <1>g, <2>1, <2>2 DEF Stamped, Reaches
<1> QED BY <1>2, <1>3, <1>4, <1>5, <1>6, <1>7, <1>8, <1>9, <1>10, <1>11

LEMMA KeepClosedTied ==
  ASSUME Races = {}, Tied, NEW s \in Sessions, KeepClosed(s), TypeOK'
  PROVE  Tied'
<1> USE DEF Tied, KeepClosed, Unflagged, Alone
<1>1. Alone(s) BY HasLock
<1>2. Earned' BY <1>1 DEF Earned, Working, TypeOK
<1> USE StopGateAssumption DEF TypeOK, Maybe, States, Flags, Places
<1>3. Held' BY <1>1 DEF Held
<1>4. Known' BY <1>1 DEF Known, NotAfter
<1>5. Based' BY <1>1 DEF Based, Covers, Held, Known, NotAfter
<1>6. Flagged' BY <1>1 DEF Flagged, NextFlag, Newer, Held, Known, NotAfter
<1>7. Distinct' BY <1>1 DEF Distinct, NextFlag, Newer, Held, Known, NotAfter
<1>8. Probing' BY <1>1 DEF Probing, Held, Known, NotAfter
<1>9. Starts' BY <1>1 DEF Starts, Held, Known, NotAfter
<1>10. Working' BY <1>1 DEF Working, Pending, Held, Known, NotAfter
<1>11. Stamped' BY <1>1 DEF Stamped, Reaches, Held, Known, NotAfter
<1> QED BY <1>2, <1>3, <1>4, <1>5, <1>6, <1>7, <1>8, <1>9, <1>10, <1>11

LEMMA DriveTied ==
  ASSUME Races = {}, Tied, NEW s \in Sessions, Drive(s), TypeOK'
  PROVE  Tied'
<1> USE DEF Tied, Drive
<1>1. Alone(s) BY HasLock
<1>2. Earned' BY <1>1 DEF Earned, Working, TypeOK, Alone
<1> USE StopGateAssumption DEF TypeOK, Maybe, States, Flags, Places
<1>a. st # None /\ st.lastHead # None /\ aside = None BY <1>1 DEF Alone
<1>b. dirty = None => /\ UNCHANGED <<st, dirty>> /\ pc' = [pc EXCEPT ![s] = "agent"]
                      /\ seen' = [seen EXCEPT ![s] = Nothing] /\ lock' = None
                      /\ run' = Idle /\ aside' = None
  BY <1>1 DEF Alone
<1>c. dirty # None => /\ dirty' = [dirty EXCEPT !.read = TRUE] /\ st' = Rearmed
                      /\ pc' = [pc EXCEPT ![s] = "panel"] /\ UNCHANGED <<lock, seen, run, aside>>
  BY <1>a
<1>d. UNCHANGED <<deferred, world, trig, owed, bounds>> /\ pc[s] = "drive" OBVIOUS
<1> HIDE DEF Drive
<1>e. st \in States /\ run.head \in Nat /\ run.tree \in Nat BY <1>a
<1>f. /\ Rearmed # None /\ ~Rearmed.escalated
      /\ Rearmed.lastHead \in {st.lastHead, run.head}
      /\ Rearmed.lastTree \in {st.lastTree, run.tree}
      /\ Rearmed.escHead \in {st.escHead, None} /\ Rearmed.escTree \in {st.escTree, None}
  <2> DEFINE t == IF st.lastHead # run.head /\ ~(st.escalated /\ st.escHead = run.head)
                  THEN [st EXCEPT !.lastHead = run.head, !.lastTree = run.tree]
                  ELSE st
  <2>1. /\ t \in States /\ t.escalated = st.escalated
        /\ t.lastHead \in {st.lastHead, run.head} /\ t.lastTree \in {st.lastTree, run.tree}
        /\ t.escHead = st.escHead /\ t.escTree = st.escTree
    BY <1>e
  <2>2. Rearmed = IF st.escalated
                  THEN [t EXCEPT !.escalated = FALSE, !.escHead = None, !.escTree = None,
                                 !.iteration = 0]
                  ELSE t
    BY DEF Rearmed
  <2> HIDE DEF t
  <2>3. Rearmed \in States
    <3>1. 0 \in 0..MaxRounds OBVIOUS
    <3> QED BY <2>1, <2>2, <3>1
  <2>4. Rearmed # None BY <2>3
  <2> QED BY <2>1, <2>2, <2>4
<1> HIDE DEF TypeOK
<1>g. dirty # None => dirty' # None /\ dirty'.base = dirty.base /\ dirty'.since = dirty.since
  <2>1. dirty # None => [dirty EXCEPT !.read = TRUE] \in Flags BY DEF TypeOK
  <2> QED BY <1>c, <2>1 DEF TypeOK
<1> USE DEF TypeOK
<1>h. \/ /\ dirty = None /\ UNCHANGED <<st, dirty>> /\ pc' = [pc EXCEPT ![s] = "agent"]
         /\ seen' = [seen EXCEPT ![s] = Nothing] /\ lock' = None
         /\ run' = Idle /\ aside' = None
      \/ /\ dirty # None /\ dirty' # None
         /\ dirty'.base = dirty.base /\ dirty'.since = dirty.since
         /\ st' # None /\ ~st'.escalated
         /\ st'.lastHead \in {st.lastHead, run.head} /\ st'.lastTree \in {st.lastTree, run.tree}
         /\ st'.escHead \in {st.escHead, None} /\ st'.escTree \in {st.escTree, None}
         /\ pc' = [pc EXCEPT ![s] = "panel"] /\ UNCHANGED <<lock, seen, run, aside>>
  BY <1>b, <1>c, <1>f, <1>g
<1>3. Held'
  <2>1. st' # None /\ st'.lastHead # None BY <1>a, <1>e, <1>h
  <2>2. \/ pc' = [pc EXCEPT ![s] = "agent"] /\ lock' = None
           /\ seen' = [seen EXCEPT ![s] = Nothing] /\ aside' = None
        \/ pc' = [pc EXCEPT ![s] = "panel"] /\ UNCHANGED <<lock, seen, aside>>
    BY <1>h
  <2>3. /\ pc'[s] \in {"agent", "panel"} /\ (pc'[s] = "panel" <=> lock' = s) /\ lock' \in {None, s}
        /\ aside' = None
        /\ \A t \in Sessions : t # s => pc'[t] = pc[t] /\ seen'[t] = seen[t]
    BY <1>1, <1>a, <2>2 DEF Alone
  <2>4. \A t \in Sessions : t # s => pc'[t] \in {"agent", "head", "tree", "lock"}
    BY <1>1, <2>3 DEF Alone
  <2> HIDE DEF TypeOK, Tied
  <2> QED BY <2>1, <2>3, <2>4 DEF Held
<1>4. Known'
  <2>1. (tree <= edits /\ run.head <= head /\ run.tree <= edits)' BY <1>a, <1>d, <1>h DEF Known
  <2>2. (\A w \in owed : w[2] <= head + 1 /\ (w[2] > head => tree # 0 /\ w[3] <= tree))' BY <1>a, <1>d, <1>h DEF Known
  <2>3. (NotAfter(head, st.lastHead) /\ NotAfter(edits, st.lastTree))'
    BY <1>a, <1>d, <1>h DEF Known, NotAfter
  <2>4. (NotAfter(head, st.escHead) /\ NotAfter(edits, st.escTree))'
    BY <1>a, <1>d, <1>h DEF Known, NotAfter
  <2>5. (\A t \in Sessions : NotAfter(head, seen[t].head) /\ NotAfter(edits, seen[t].tree))'
    <3>1. seen' = seen \/ seen' = [seen EXCEPT ![s] = Nothing] BY <1>h
    <3> QED BY <1>d, <3>1 DEF Known, NotAfter
  <2> QED BY <2>1, <2>2, <2>3, <2>4, <2>5 DEF Known
<1>5. Based'
  <2>1. (dirty # None => Covers(dirty.base))' BY <1>d, <1>h DEF Based, Covers
  <2>2. (aside # None => Covers(aside.base))' BY <1>1, <1>a, <1>d, <1>h DEF Alone
  <2>3. \A t \in Sessions : pc'[t] # "snapshot" BY <1>1, <1>d, <1>h DEF Alone
  <2>4. (\A t \in Sessions : trig[t].stage = "read" => Covers(trig[t].base))' BY <1>d DEF Based, Covers
  <2> QED BY <2>1, <2>2, <2>3, <2>4 DEF Based
<1>6. Flagged' BY <1>1, <1>d, <1>h DEF Flagged, NextFlag, Newer, Alone
<1>7. Distinct' BY <1>1, <1>d, <1>h DEF Distinct, NextFlag, Newer, Alone
<1>8. Probing' BY <1>d, <1>h DEF Probing
<1>9. Starts' BY <1>1, <1>d, <1>h DEF Starts, Alone
<1>10. Working'
  <2>a. pc \in [Sessions -> Places] OBVIOUS
  <2>b. dirty = None => pc' = [pc EXCEPT ![s] = "agent"] BY <1>b
  <2>c. dirty # None => pc' = [pc EXCEPT ![s] = "panel"] BY <1>c
  <2>1. CASE dirty = None
    <3>1. \A t \in Sessions : pc'[t] \in {"agent", "head", "tree", "lock"}
      <4>1. pc'[s] = "agent" /\ \A t \in Sessions : t # s => pc'[t] = pc[t]
        BY <2>1, <2>a, <2>b
      <4> QED BY <1>1, <4>1 DEF Alone
    <3> QED BY <3>1 DEF Working
  <2>2. CASE dirty # None
    <3>1. \A t \in Sessions : pc'[t] \in {"agent", "head", "tree", "lock", "panel"}
                             /\ (pc'[t] = "panel" => t = s)
      <4>1. pc'[s] = "panel" /\ \A t \in Sessions : t # s => pc'[t] = pc[t]
        BY <2>2, <2>a, <2>c
      <4> QED BY <1>1, <4>1 DEF Alone
    <3>2. \A w \in owed \ run.got : /\ w[1] # s
                                    /\ w[2] > head => tree # run.tree /\ tree # st.lastTree
                                    /\ Pending(w)
      BY <1>d DEF Working
    <3>3. run' = run /\ dirty' # None /\ ~st'.escalated BY <1>h, <2>2
    <3>4. \A w : Pending(w)' = Pending(w) BY <1>d DEF Pending
    <3>5. \A w \in owed \ run.got : w[2] > head => tree # st'.lastTree BY <1>h, <2>2, <3>2
    <3> QED BY <1>d, <3>1, <3>2, <3>3, <3>4, <3>5 DEF Working
  <2> QED BY <2>1, <2>2
<1>11. Stamped'
  <2>1. (dirty # None => Reaches(dirty.since))' BY <1>d, <1>h DEF Stamped, Reaches
  <2>2. aside' = None BY <1>a, <1>h
  <2>3. \A t \in Sessions : pc'[t] # "snapshot" BY <1>1, <1>d, <1>h DEF Alone
  <2>4. (\A t \in Sessions : trig[t].stage = "read" => Reaches(trig[t].since))'
    BY <1>d DEF Stamped, Reaches
  <2> QED BY <2>1, <2>2, <2>3, <2>4 DEF Stamped
<1> QED BY <1>2, <1>3, <1>4, <1>5, <1>6, <1>7, <1>8, <1>9, <1>10, <1>11

LEMMA ReviewedTypes ==
  ASSUME TypeOK, st # None
  PROVE  Reviewed(st) \in States
<1>1. run.head \in Maybe(Nat) /\ run.tree \in Maybe(Nat) /\ st \in States
  BY DEF TypeOK, Maybe
<1> QED BY <1>1 DEF Reviewed, States

LEMMA PassTied ==
  ASSUME Races = {}, Tied, NEW s \in Sessions, Pass(s), TypeOK'
  PROVE  Tied'
<1> USE DEF Tied, Pass, Panel
<1>1. Alone(s) BY HasLock
<1>2. Earned' BY <1>1 DEF Earned, Working, TypeOK, Alone
<1> USE StopGateAssumption DEF TypeOK, Maybe, States, Flags, Places
<1>a. st # None /\ st \in States /\ st.lastHead # None /\ aside = None /\ dirty # None
  BY <1>1 DEF Alone, Working
<1>b. st' # None /\ st'.lastHead = run.head /\ st'.lastTree = run.tree
      /\ st'.escalated = st.escalated /\ st'.escHead = st.escHead /\ st'.escTree = st.escTree
  <2>0. Reviewed(st) \in States /\ 0 \in 0..MaxRounds BY <1>a, ReviewedTypes
  <2>1. st' \in States /\ st' = [st EXCEPT !.lastHead = run.head, !.lastTree = run.tree,
                                           !.iteration = 0]
    BY <1>a, <2>0 DEF Reviewed
  <2> QED BY <1>a, <2>1
<1>c. /\ pc[s] = "panel" /\ pc' = [pc EXCEPT ![s] = "reap"] /\ owed' = owed \ run.got
      /\ run'.head = run.head /\ run'.tree = run.tree /\ run'.base = run.base /\ run'.got = run.got
      /\ UNCHANGED <<dirty, deferred, lock, world, trig, seen, aside, answer, bounds>>
  OBVIOUS
<1> HIDE DEF Pass
<1>3. Held' BY <1>1, <1>a, <1>b, <1>c DEF Held, Alone
<1>4. Known'
  <2>1. (tree <= edits /\ run.head <= head /\ run.tree <= edits)' BY <1>a, <1>b, <1>c DEF Known
  <2>2. (\A w \in owed : w[2] <= head + 1 /\ (w[2] > head => tree # 0 /\ w[3] <= tree))' BY <1>a, <1>b, <1>c DEF Known
  <2>3. (NotAfter(head, st.lastHead) /\ NotAfter(edits, st.lastTree))'
    BY <1>a, <1>b, <1>c DEF Known, NotAfter
  <2>4. (NotAfter(head, st.escHead) /\ NotAfter(edits, st.escTree))'
    BY <1>a, <1>b, <1>c DEF Known, NotAfter
  <2>5. (\A t \in Sessions : NotAfter(head, seen[t].head) /\ NotAfter(edits, seen[t].tree))'
    BY <1>a, <1>b, <1>c DEF Known, NotAfter
  <2> QED BY <2>1, <2>2, <2>3, <2>4, <2>5 DEF Known
<1>5. Based' BY <1>1, <1>b, <1>c DEF Based, Covers, Alone
<1>6. Flagged' BY <1>1, <1>a, <1>b, <1>c DEF Flagged, NextFlag, Newer, Alone
<1>7. Distinct' BY <1>1, <1>a, <1>b, <1>c DEF Distinct, NextFlag, Newer, Alone, Working
<1>8. Probing' BY <1>1, <1>b, <1>c DEF Probing, Alone
<1>9. Starts' BY <1>1, <1>b, <1>c DEF Starts, Alone
<1>10. Working' BY <1>1, <1>b, <1>c DEF Working, Pending, Alone
<1>11. Stamped' BY <1>1, <1>b, <1>c DEF Stamped, Reaches, Alone
<1> QED BY <1>2, <1>3, <1>4, <1>5, <1>6, <1>7, <1>8, <1>9, <1>10, <1>11

LEMMA FailTied ==
  ASSUME Races = {}, Tied, NEW s \in Sessions, Fail(s), TypeOK'
  PROVE  Tied'
<1> USE DEF Tied, Fail, Panel
<1>1. Alone(s) BY HasLock
<1>2. Earned' BY <1>1 DEF Earned, Working, TypeOK, Alone
<1> USE StopGateAssumption DEF TypeOK, Maybe, States, Flags, Places
<1>a. st # None /\ st \in States /\ st.lastHead # None /\ aside = None /\ dirty # None
  BY <1>1 DEF Alone, Working
<1>b. st' # None /\ st'.lastHead = run.head /\ st'.lastTree = run.tree
      /\ st'.escalated = st.escalated /\ st'.escHead = st.escHead /\ st'.escTree = st.escTree
  <2>0. Reviewed(st) \in States /\ Reviewed(st).iteration + 1 \in 0..MaxRounds
    BY <1>a, ReviewedTypes DEF Reviewed, AtCap
  <2>1. st' \in States BY <1>a, <2>0
  <2> QED BY <1>a, <2>1 DEF Reviewed
<1>c. /\ pc[s] = "panel" /\ pc' = [pc EXCEPT ![s] = "agent"] /\ lock' = None
      /\ seen' = [seen EXCEPT ![s] = Nothing] /\ run' = Idle /\ aside' = None
      /\ UNCHANGED <<dirty, deferred, world, trig, owed, bounds>>
  BY <1>1 DEF Alone
<1> HIDE DEF Fail
<1>d. NextFlag' # None /\ ~st.escalated
  <2>1. NextFlag' # None BY <1>a, <1>c DEF NextFlag
  <2> QED BY <1>a, <1>c, <2>1 DEF Working
<1>3. Held' BY <1>1, <1>a, <1>b, <1>c DEF Held, Alone
<1>4. Known'
  <2>1. (tree <= edits /\ run.head <= head /\ run.tree <= edits)' BY <1>a, <1>b, <1>c DEF Known
  <2>2. (\A w \in owed : w[2] <= head + 1 /\ (w[2] > head => tree # 0 /\ w[3] <= tree))' BY <1>a, <1>b, <1>c DEF Known
  <2>3. (NotAfter(head, st.lastHead) /\ NotAfter(edits, st.lastTree))'
    BY <1>a, <1>b, <1>c DEF Known, NotAfter
  <2>4. (NotAfter(head, st.escHead) /\ NotAfter(edits, st.escTree))'
    BY <1>a, <1>b, <1>c DEF Known, NotAfter
  <2>5. (\A t \in Sessions : NotAfter(head, seen[t].head) /\ NotAfter(edits, seen[t].tree))'
    BY <1>a, <1>b, <1>c DEF Known, NotAfter
  <2> QED BY <2>1, <2>2, <2>3, <2>4, <2>5 DEF Known
<1>5. Based' BY <1>1, <1>b, <1>c DEF Based, Covers, Alone
<1>6. Flagged' BY <1>1, <1>a, <1>b, <1>c DEF Flagged, NextFlag, Newer, Alone
<1>7. Distinct' BY <1>1, <1>a, <1>b, <1>c, <1>d DEF Distinct
<1>8. Probing' BY <1>1, <1>b, <1>c DEF Probing, Alone
<1>9. Starts' BY <1>1, <1>b, <1>c DEF Starts, Alone
<1>10. Working'
  <2>1. \A t \in Sessions : pc'[t] \notin {"drive", "panel", "reap", "settle"}
    BY <1>1, <1>c DEF Alone
  <2> QED BY <2>1 DEF Working
<1>11. Stamped' BY <1>1, <1>b, <1>c DEF Stamped, Reaches, Alone
<1> QED BY <1>2, <1>3, <1>4, <1>5, <1>6, <1>7, <1>8, <1>9, <1>10, <1>11

LEMMA HandOverTied ==
  ASSUME Races = {}, Tied, NEW s \in Sessions, HandOver(s), TypeOK'
  PROVE  Tied'
<1> USE DEF Tied, HandOver, Panel
<1>1. Alone(s) BY HasLock
<1>2. Earned' BY <1>1 DEF Earned, Working, TypeOK, Alone
<1> USE StopGateAssumption DEF TypeOK, Maybe, States, Flags, Places
<1>a. st # None /\ st \in States /\ st.lastHead # None /\ aside = None /\ dirty # None
  BY <1>1 DEF Alone, Working
<1>b. st' # None /\ st'.lastHead = st.lastHead /\ st'.lastTree = st.lastTree
      /\ st'.escalated /\ st'.escHead = head /\ st'.escTree = run.tree
  <2>1. st' \in States BY <1>a
  <2> QED BY <1>a, <2>1
<1>c. /\ pc[s] = "panel" /\ pc' = [pc EXCEPT ![s] = "reap"] /\ owed' = owed \ run.got
      /\ run'.head = run.head /\ run'.tree = run.tree /\ run'.base = run.base /\ run'.got = run.got
      /\ UNCHANGED <<dirty, deferred, lock, world, trig, seen, aside, answer, bounds>>
  OBVIOUS
<1> HIDE DEF HandOver
<1>3. Held' BY <1>1, <1>a, <1>b, <1>c DEF Held, Alone
<1>4. Known'
  <2>1. (tree <= edits /\ run.head <= head /\ run.tree <= edits)' BY <1>a, <1>b, <1>c DEF Known
  <2>2. (\A w \in owed : w[2] <= head + 1 /\ (w[2] > head => tree # 0 /\ w[3] <= tree))' BY <1>a, <1>b, <1>c DEF Known
  <2>3. (NotAfter(head, st.lastHead) /\ NotAfter(edits, st.lastTree))'
    BY <1>a, <1>b, <1>c DEF Known, NotAfter
  <2>4. (NotAfter(head, st.escHead) /\ NotAfter(edits, st.escTree))'
    BY <1>a, <1>b, <1>c DEF Known, NotAfter
  <2>5. (\A t \in Sessions : NotAfter(head, seen[t].head) /\ NotAfter(edits, seen[t].tree))'
    BY <1>a, <1>b, <1>c DEF Known, NotAfter
  <2> QED BY <2>1, <2>2, <2>3, <2>4, <2>5 DEF Known
<1>5. Based' BY <1>1, <1>b, <1>c DEF Based, Covers, Alone
<1>6. Flagged' BY <1>1, <1>a, <1>b, <1>c DEF Flagged, NextFlag, Newer, Alone
<1>7. Distinct' BY <1>1, <1>a, <1>b, <1>c DEF Distinct, NextFlag, Newer, Alone, Working
<1>8. Probing' BY <1>1, <1>b, <1>c DEF Probing, Alone
<1>9. Starts' BY <1>1, <1>b, <1>c DEF Starts, Alone
<1>10. Working' BY <1>1, <1>b, <1>c DEF Working, Pending, Alone
<1>11. Stamped'
  <2>1. \A n : Reaches(n) => Reaches(n)' BY <1>c DEF Reaches
  <2>2. \A t \in Sessions : pc'[t] # "snapshot" BY <1>1, <1>c DEF Alone
  <2> QED BY <1>a, <1>c, <2>1, <2>2 DEF Stamped
<1> QED BY <1>2, <1>3, <1>4, <1>5, <1>6, <1>7, <1>8, <1>9, <1>10, <1>11

LEMMA NoVerdictTied ==
  ASSUME Races = {}, Tied, NEW s \in Sessions, NoVerdict(s), TypeOK'
  PROVE  Tied'
<1> USE DEF Tied, NoVerdict, Alone
<1>1. Alone(s) BY HasLock
<1>2. Earned' BY <1>1 DEF Earned, Working, TypeOK
<1> USE StopGateAssumption DEF TypeOK, Maybe, States, Flags, Places
<1>3. Held' BY <1>1 DEF Held
<1>4. Known' BY <1>1 DEF Known, NotAfter
<1>5. Based' BY <1>1 DEF Based, Covers, Held, Known, NotAfter
<1>6. Flagged' BY <1>1 DEF Flagged, NextFlag, Newer, Held, Known, NotAfter
<1>7. Distinct' BY <1>1 DEF Distinct, NextFlag, Newer, Held, Known, NotAfter
<1>8. Probing' BY <1>1 DEF Probing, Held, Known, NotAfter
<1>9. Starts' BY <1>1 DEF Starts, Held, Known, NotAfter
<1>10. Working' BY <1>1 DEF Working, Pending, Held, Known, NotAfter
<1>11. Stamped' BY <1>1 DEF Stamped, Reaches, Held, Known, NotAfter
<1> QED BY <1>2, <1>3, <1>4, <1>5, <1>6, <1>7, <1>8, <1>9, <1>10, <1>11

LEMMA ReapTied ==
  ASSUME Races = {}, Tied, NEW s \in Sessions, Reap(s), TypeOK'
  PROVE  Tied'
<1> USE DEF Tied, Reap
<1>1. Alone(s) BY HasLock
<1>2. Earned' BY <1>1 DEF Earned, Working, TypeOK, Alone
<1> USE StopGateAssumption DEF TypeOK, Maybe, States, Flags, Places
<1>a. st # None /\ aside = None /\ dirty # None BY <1>1 DEF Alone, Working
<1>b. \A w \in owed : /\ w[1] # s
                      /\ w[2] > head => tree # st.lastTree
                      /\ dirty.read => Pending(w)
  BY DEF Working
<1>c. /\ pc[s] = "reap" /\ pc' = [pc EXCEPT ![s] = "settle"] /\ aside' = dirty /\ dirty' = None
      /\ UNCHANGED <<lock, seen, run, answer, st, deferred, world, trig, owed, bounds>>
  BY <1>a
<1> HIDE DEF Reap
<1>3. Held' BY <1>1, <1>a, <1>c DEF Held, Alone
<1>4. Known' BY <1>c DEF Known, NotAfter
<1>5. Based' BY <1>1, <1>a, <1>c DEF Based, Covers, Alone
<1>d. dirty # None /\ NextFlag' = None => dirty.read BY <1>a, <1>c DEF NextFlag, Newer
<1>6. Flagged'
  <2>1. dirty.read => \A w \in owed : w[2] > head BY <1>b DEF Pending
  <2> QED BY <1>a, <1>c, <1>d, <2>1 DEF Flagged
<1>7. Distinct'
  <2>1. st.escalated => \A w \in owed : w[2] > head => tree # st.lastTree /\ tree # st.escTree
    BY <1>a DEF Distinct
  <2> QED BY <1>b, <1>c, <2>1 DEF Distinct
<1>8. Probing' BY <1>1, <1>c DEF Probing, Alone
<1>9. Starts' BY <1>1, <1>c DEF Starts, Alone
<1>10. Working'
  <2>1. \A t \in Sessions : pc'[t] \notin {"drive", "panel", "reap"} /\ (pc'[t] = "settle" => t = s)
    BY <1>1, <1>c DEF Alone
  <2> QED BY <1>b, <1>c, <2>1 DEF Working
<1>11. Stamped' BY <1>1, <1>a, <1>c DEF Stamped, Reaches, Alone
<1> QED BY <1>2, <1>3, <1>4, <1>5, <1>6, <1>7, <1>8, <1>9, <1>10, <1>11

LEMMA SettleTied ==
  ASSUME Races = {}, Tied, NEW s \in Sessions, Settle(s), TypeOK'
  PROVE  Tied'
<1> USE DEF Tied, Settle, Alone
<1>1. Alone(s) BY HasLock
<1>2. Earned' BY <1>1 DEF Earned, Working, TypeOK
<1> USE StopGateAssumption DEF TypeOK, Maybe, States, Flags, Places
<1>3. Held' BY <1>1 DEF Held
<1>4. Known' BY <1>1 DEF Known, NotAfter
<1>5. Based' BY <1>1 DEF Based, Covers, Held, Known, NotAfter
<1>6. Flagged' BY <1>1 DEF Flagged, NextFlag, Newer, Held, Known, NotAfter
<1>7. Distinct' BY <1>1 DEF Distinct, NextFlag, Newer, Held, Known, NotAfter
<1>8. Probing' BY <1>1 DEF Probing, Held, Known, NotAfter
<1>9. Starts' BY <1>1 DEF Starts, Held, Known, NotAfter
<1>10. Working' BY <1>1 DEF Working, Pending, Held, Known, NotAfter
<1>11. Stamped' BY <1>1 DEF Stamped, Reaches, Held, Known, NotAfter
<1> QED BY <1>2, <1>3, <1>4, <1>5, <1>6, <1>7, <1>8, <1>9, <1>10, <1>11

LEMMA ResetTied ==
  ASSUME Races = {}, Tied, NEW s \in Sessions, Reset(s), TypeOK'
  PROVE  Tied'
<1> USE DEF Tied, Reset
<1>2. Earned' BY DEF Earned, Working, TypeOK
<1> USE StopGateAssumption DEF TypeOK, Maybe, States, Flags, Places
<1>3. Held' BY DEF Held
<1>4. Known' BY DEF Known, NotAfter
<1>5. Based' BY DEF Based, Covers, Held, Known, NotAfter
<1>6. Flagged' BY DEF Flagged, NextFlag, Newer, Held, Known, NotAfter
<1>7. Distinct' BY DEF Distinct, NextFlag, Newer, Held, Known, NotAfter
<1>8. Probing' BY DEF Probing, Held, Known, NotAfter
<1>9. Starts' BY DEF Starts, Held, Known, NotAfter
<1>10. Working' BY DEF Working, Pending, Held, Known, NotAfter
<1>11. Stamped' BY DEF Stamped, Reaches, Held, Known, NotAfter
<1> QED BY <1>2, <1>3, <1>4, <1>5, <1>6, <1>7, <1>8, <1>9, <1>10, <1>11

LEMMA WipeTied ==
  ASSUME Races = {}, Tied, NEW s \in Sessions, Wipe(s), TypeOK'
  PROVE  Tied'
<1> USE DEF Tied, Wipe
<1>1. Alone(s) BY HasLock
<1>2. Earned' BY <1>1 DEF Earned, Working, TypeOK, Alone
<1> USE StopGateAssumption DEF TypeOK, Maybe, States, Flags, Places
<1>a. st # None /\ aside = None BY <1>1 DEF Alone
<1>b. \A w \in owed : w[2] > head BY DEF Starts
<1>c. /\ pc[s] = "wipe" /\ pc' = [pc EXCEPT ![s] = "unflag"]
      /\ seen' = [seen EXCEPT ![s] = IF st.escalated
                                    THEN [head |-> st.lastHead, tree |-> st.lastTree, carried |-> TRUE]
                                    ELSE Nothing]
      /\ UNCHANGED <<files, lock, world, trig, run, aside, answer, owed, bounds>>
  BY <1>a
<1>d. st.lastHead # None
  <2>1. \A t \in Sessions : pc[t] \notin {"hash", "save"} BY <1>1, <1>c DEF Alone
  <2> QED BY <1>a, <2>1 DEF Held
<1> HIDE DEF Wipe
<1>3. Held' BY <1>1, <1>a, <1>c, <1>d DEF Held, Alone
<1>4. Known' BY <1>a, <1>c DEF Known, NotAfter
<1>5. Based' BY <1>1, <1>a, <1>c DEF Based, Covers, Alone
<1>6. Flagged' BY <1>c DEF Flagged, NextFlag, Newer
<1>7. Distinct' BY <1>c DEF Distinct, NextFlag, Newer
<1>8. Probing' BY <1>c DEF Probing
<1>9. Starts'
  <2>1. seen'[s].carried => seen'[s].tree = st.lastTree /\ st.escalated BY <1>c
  <2>2. st.escalated => \A w \in owed : tree # st.lastTree BY <1>a, <1>b DEF Distinct
  <2>3. \A t \in Sessions : Resetting(t)' => t = s BY <1>1, <1>c DEF Alone
  <2> QED BY <1>b, <1>c, <2>1, <2>2, <2>3 DEF Starts
<1>10. Working'
  <2>1. \A t \in Sessions : pc'[t] \notin {"drive", "panel", "reap", "settle"}
    BY <1>1, <1>c DEF Alone
  <2> QED BY <2>1 DEF Working
<1>11. Stamped' BY <1>1, <1>a, <1>c DEF Stamped, Reaches, Alone
<1> QED BY <1>2, <1>3, <1>4, <1>5, <1>6, <1>7, <1>8, <1>9, <1>10, <1>11

LEMMA RemoveTied ==
  ASSUME Races = {}, Tied, NEW s \in Sessions, Unflag(s) \/ Undefer(s) \/ Unstate(s), TypeOK'
  PROVE  Tied'
<1> USE DEF Tied
<1>1. Alone(s) BY HasLock DEF Unflag, Undefer, Unstate
<1>2. Earned' BY <1>1 DEF Earned, Working, TypeOK, Alone, Unflag, Undefer, Unstate
<1> USE StopGateAssumption DEF TypeOK, Maybe, States, Flags, Places
<1>a. st # None /\ aside = None BY <1>1 DEF Alone, Unflag, Undefer, Unstate
<1>b. \A w \in owed : w[2] > head BY DEF Starts, Unflag, Undefer, Unstate
<1>c. /\ \/ /\ pc[s] = "unflag" /\ pc' = [pc EXCEPT ![s] = "undefer"]
            /\ dirty' = None /\ st' = st
         \/ /\ pc[s] = "undefer" /\ pc' = [pc EXCEPT ![s] = "unstate"]
            /\ dirty' = dirty /\ st' = st
         \/ /\ pc[s] = "unstate" /\ pc' = [pc EXCEPT ![s] = "seed"]
            /\ dirty' = dirty /\ st' = None
      /\ UNCHANGED <<lock, world, trig, seen, run, aside, answer, owed, bounds>>
  BY DEF Unflag, Undefer, Unstate
<1>d. /\ pc'[s] \in {"undefer", "unstate", "seed"} /\ pc[s] \in {"unflag", "undefer", "unstate"}
      /\ \A t \in Sessions \ {s} : pc'[t] = pc[t]
  BY <1>c
<1>3. Held'
  <2>1. st.lastHead # None
    <3>1. \A t \in Sessions : pc[t] \notin {"hash", "save"} BY <1>1, <1>d DEF Alone
    <3> QED BY <1>a, <3>1 DEF Held
  <2> QED BY <1>1, <1>a, <1>c, <1>d, <2>1 DEF Held, Alone
<1>4. Known' BY <1>a, <1>c DEF Known, NotAfter
<1>5. Based' BY <1>1, <1>a, <1>c, <1>d DEF Based, Covers, Alone
<1>6. Flagged' BY <1>b, <1>c DEF Flagged
<1>7. Distinct'
  <2>1. st' = None \/ (st' = st /\ Unflagging') BY <1>c, <1>d
  <2> QED BY <1>c, <2>1 DEF Distinct
<1>8. Probing' BY <1>c, <1>d DEF Probing
<1>9. Starts'
  <2>1. \A t \in Sessions : Resetting(t)' => t = s BY <1>1, <1>d DEF Alone
  <2>2. seen[s].carried => \A w \in owed : tree # seen[s].tree BY <1>d DEF Starts
  <2> QED BY <1>b, <1>c, <1>d, <2>1, <2>2 DEF Starts
<1>10. Working'
  <2>1. \A t \in Sessions : pc'[t] \notin {"drive", "panel", "reap", "settle"}
    BY <1>1, <1>d DEF Alone
  <2> QED BY <2>1 DEF Working
<1>11. Stamped' BY <1>1, <1>a, <1>c, <1>d DEF Stamped, Reaches, Alone
<1> QED BY <1>2, <1>3, <1>4, <1>5, <1>6, <1>7, <1>8, <1>9, <1>10, <1>11

LEMMA SeedTied ==
  ASSUME Races = {}, Tied, NEW s \in Sessions, Seed(s), TypeOK'
  PROVE  Tied'
<1> USE DEF Tied, Seed
<1>1. Alone(s) BY HasLock
<1>2. Earned' BY <1>1 DEF Earned, Working, TypeOK, Alone
<1> USE StopGateAssumption DEF TypeOK, Maybe, States, Flags, Places
<1>a. /\ aside = None /\ pc[s] = "seed"
      /\ seen[s].carried => seen[s].head # None
  BY <1>1 DEF Alone, Held
<1>b. st' # None
  <2>1. Fresh \in States BY DEF Fresh
  <2> QED BY <2>1
<1>c. /\ \/ seen[s].carried /\ pc' = [pc EXCEPT ![s] = "save"] /\ seen' = seen
         \/ /\ ~seen[s].carried /\ pc' = [pc EXCEPT ![s] = "hash"]
            /\ seen' = [seen EXCEPT ![s].head = head]
      /\ UNCHANGED <<dirty, deferred, lock, world, trig, run, aside, answer, owed, bounds>>
  OBVIOUS
<1>d. /\ seen'[s].head # None /\ seen'[s].carried = seen[s].carried /\ seen'[s].tree = seen[s].tree
      /\ \A t \in Sessions \ {s} : seen'[t] = seen[t] /\ pc'[t] = pc[t]
      /\ pc'[s] \in {"save", "hash"}
  BY <1>a, <1>c
<1>e. st' = st \/ (st = None /\ st' = Fresh) OBVIOUS
<1> HIDE DEF Seed
<1>3. Held' BY <1>1, <1>a, <1>b, <1>c, <1>d DEF Held, Alone
<1>4. Known'
  <2>1. st' # None => /\ NotAfter(head, st'.lastHead) /\ NotAfter(edits, st'.lastTree)
                     /\ NotAfter(head, st'.escHead) /\ NotAfter(edits, st'.escTree)
    BY <1>e DEF Known, NotAfter, Fresh
  <2>2. (\A t \in Sessions : NotAfter(head, seen[t].head) /\ NotAfter(edits, seen[t].tree))'
    <3>1. head \in Nat /\ seen'[s].head \in {head, seen[s].head} BY <1>c
    <3> QED BY <1>c, <1>d, <3>1 DEF Known, NotAfter
  <2>3. (tree <= edits /\ run.head <= head /\ run.tree <= edits)' BY <1>c DEF Known
  <2> QED BY <1>c, <2>1, <2>2, <2>3 DEF Known, NotAfter
<1>5. Based' BY <1>1, <1>a, <1>c DEF Based, Covers, Alone
<1>6. Flagged' BY <1>c DEF Flagged, NextFlag, Newer
<1>7. Distinct'
  <2>1. ~Unflagging BY <1>1, <1>a DEF Alone
  <2> QED BY <1>c, <1>e, <2>1 DEF Distinct, NextFlag, Newer, Fresh, Starts
<1>8. Probing' BY <1>a, <1>c DEF Probing
<1>9. Starts'
  <2>1. \A w \in owed : w[2] > head /\ (seen[s].carried => tree # seen[s].tree) BY <1>a DEF Starts
  <2>2. \A t \in Sessions : Resetting(t)' => t = s BY <1>1, <1>c DEF Alone
  <2> QED BY <1>c, <1>d, <2>1, <2>2 DEF Starts
<1>10. Working'
  <2>1. \A t \in Sessions : pc'[t] \notin {"drive", "panel", "reap", "settle"}
    BY <1>1, <1>c DEF Alone
  <2> QED BY <2>1 DEF Working
<1>11. Stamped' BY <1>1, <1>a, <1>c DEF Stamped, Reaches, Alone
<1> QED BY <1>2, <1>3, <1>4, <1>5, <1>6, <1>7, <1>8, <1>9, <1>10, <1>11

LEMMA SeedTreeTied ==
  ASSUME Races = {}, Tied, NEW s \in Sessions, SeedTree(s), TypeOK'
  PROVE  Tied'
<1> USE DEF Tied, SeedTree
<1>1. Alone(s) BY HasLock
<1>2. Earned' BY <1>1 DEF Earned, Working, TypeOK, Alone
<1> USE StopGateAssumption DEF TypeOK, Maybe, States, Flags, Places
<1>c. /\ pc[s] = "hash" /\ pc' = [pc EXCEPT ![s] = "save"] /\ seen' = [seen EXCEPT ![s].tree = tree]
      /\ UNCHANGED <<files, lock, world, trig, run, aside, answer, owed, bounds>>
  OBVIOUS
<1> HIDE DEF SeedTree
<1>3. Held' BY <1>1, <1>c DEF Held, Alone
<1>4. Known' BY <1>c DEF Known, NotAfter
<1>5. Based' BY <1>1, <1>c DEF Based, Covers, Alone
<1>6. Flagged' BY <1>c DEF Flagged, NextFlag, Newer
<1>7. Distinct'
  <2>1. ~Unflagging BY <1>1, <1>c DEF Alone
  <2> QED BY <1>c, <2>1 DEF Distinct, NextFlag, Newer
<1>8. Probing' BY <1>c DEF Probing
<1>9. Starts'
  <2>1. \A w \in owed : w[2] > head BY <1>c DEF Starts
  <2>2. \A t \in Sessions : Resetting(t)' => t = s BY <1>1, <1>c DEF Alone
  <2>3. ~seen'[s].carried BY <1>c DEF Starts
  <2> QED BY <1>c, <2>1, <2>2, <2>3 DEF Starts
<1>10. Working'
  <2>1. \A t \in Sessions : pc'[t] \notin {"drive", "panel", "reap", "settle"}
    BY <1>1, <1>c DEF Alone
  <2> QED BY <2>1 DEF Working
<1>11. Stamped' BY <1>1, <1>c DEF Stamped, Reaches, Alone
<1> QED BY <1>2, <1>3, <1>4, <1>5, <1>6, <1>7, <1>8, <1>9, <1>10, <1>11

LEMMA SaveTied ==
  ASSUME Races = {}, Tied, NEW s \in Sessions, Save(s), TypeOK'
  PROVE  Tied'
<1> USE DEF Tied, Save
<1>1. Alone(s) BY HasLock
<1>0. pc[s] = "save" /\ seen[s].head # None
  <2>1. Held /\ pc[s] = "save" OBVIOUS
  <2> HIDE DEF Tied, Save
  <2> QED BY <2>1 DEF Held
<1>2. Earned' BY <1>1 DEF Earned, Working, TypeOK, Alone
<1> USE StopGateAssumption DEF TypeOK, Maybe, States, Flags, Places
<1>a. st # None /\ aside = None /\ pc[s] = "save" /\ seen[s].head # None
  BY <1>0, <1>1 DEF Alone
<1>b. /\ st' # None /\ st'.lastHead = seen[s].head /\ st'.lastTree = SeededTree(s)
      /\ st'.escalated = st.escalated /\ st'.escHead = st.escHead /\ st'.escTree = st.escTree
  <2>1. st' = [st EXCEPT !.lastHead = seen[s].head, !.lastTree = SeededTree(s)] BY <1>a
  <2>2. seen[s].head \in Maybe(Nat) /\ SeededTree(s) \in Maybe(Nat) /\ st \in States
    BY <1>a DEF SeededTree
  <2>3. st' \in States
    <3> DEFINE h == seen[s].head
               t == SeededTree(s)
    <3>1. h \in Maybe(Nat) /\ t \in Maybe(Nat) BY <2>2
    <3> HIDE DEF h, t
    <3>2. st' = [st EXCEPT !.lastHead = h, !.lastTree = t] BY <2>1 DEF h, t
    <3>3. st \in States BY <2>2
    <3> HIDE DEF TypeOK, Tied, Save
    <3> QED BY <3>1, <3>2, <3>3 DEF States
  <2> QED BY <2>1, <2>2, <2>3
<1>c. /\ pc' = [pc EXCEPT ![s] = "agent"] /\ lock' = None
      /\ seen' = [seen EXCEPT ![s] = Nothing] /\ run' = Idle /\ aside' = None
      /\ UNCHANGED <<dirty, deferred, world, trig, answer, owed, bounds>>
  BY <1>1 DEF Alone
<1> HIDE DEF Save
<1>3. Held' BY <1>1, <1>a, <1>b, <1>c DEF Held, Alone
<1>4. Known'
  <2>1. NotAfter(head, st'.lastHead) /\ NotAfter(edits, st'.lastTree)
    BY <1>b DEF Known, NotAfter, SeededTree
  <2>2. NotAfter(head, st'.escHead) /\ NotAfter(edits, st'.escTree)
    BY <1>a, <1>b DEF Known
  <2>3. (tree <= edits /\ run.head <= head /\ run.tree <= edits)' BY <1>c DEF Known
  <2>4. (\A t \in Sessions : NotAfter(head, seen[t].head) /\ NotAfter(edits, seen[t].tree))'
    BY <1>c DEF Known, NotAfter
  <2> QED BY <1>c, <2>1, <2>2, <2>3, <2>4 DEF Known, NotAfter
<1>5. Based' BY <1>1, <1>a, <1>c DEF Based, Covers, Alone
<1>6. Flagged' BY <1>a, <1>c DEF Flagged, NextFlag, Newer
<1>7. Distinct'
  <2>1. \A w \in owed : w[2] > head /\ tree # 0 /\ (seen[s].carried => tree # seen[s].tree)
    BY <1>a DEF Starts, Known
  <2>2. SeededTree(s) # tree \/ owed = {} BY <2>1 DEF SeededTree
  <2>3. st.escalated => \A w \in owed : w[2] > head => tree # st.escTree BY <1>a DEF Distinct
  <2> QED BY <1>b, <1>c, <2>2, <2>3 DEF Distinct
<1>8. Probing' BY <1>a, <1>c DEF Probing
<1>9. Starts' BY <1>1, <1>c DEF Starts, Alone
<1>10. Working'
  <2>1. \A t \in Sessions : pc'[t] \notin {"drive", "panel", "reap", "settle"}
    BY <1>1, <1>c DEF Alone
  <2> QED BY <2>1 DEF Working
<1>11. Stamped' BY <1>1, <1>a, <1>c DEF Stamped, Reaches, Alone
<1> QED BY <1>2, <1>3, <1>4, <1>5, <1>6, <1>7, <1>8, <1>9, <1>10, <1>11

LEMMA KillTied ==
  ASSUME Races = {}, Tied, NEW s \in Sessions, Kill(s), TypeOK'
  PROVE  Tied'
<1> USE DEF Tied, Kill
<1>2. Earned' BY DEF Earned, Working, TypeOK
<1> USE StopGateAssumption DEF TypeOK, Maybe, States, Flags, Places
<1>3. Held' BY DEF Held
<1>4. Known' BY DEF Known, NotAfter
<1>5. Based' BY DEF Based, Covers, Held, Known, NotAfter
<1>6. Flagged' BY DEF Flagged, NextFlag, Newer, Held, Known, NotAfter
<1>7. Distinct' BY DEF Distinct, NextFlag, Newer, Held, Known, NotAfter
<1>8. Probing' BY DEF Probing, Held, Known, NotAfter
<1>9. Starts' BY DEF Starts, Held, Known, NotAfter
<1>10. Working' BY DEF Working, Pending, Held, Known, NotAfter
<1>11. Stamped' BY DEF Stamped, Reaches, Held, Known, NotAfter
<1> QED BY <1>2, <1>3, <1>4, <1>5, <1>6, <1>7, <1>8, <1>9, <1>10, <1>11

LEMMA InitTied == Init => Tied
<1> SUFFICES ASSUME Init PROVE Tied OBVIOUS
<1>1. TypeOK BY TypeInit
<1>2. /\ st # None /\ st.lastHead = 0 /\ st.lastTree = 0 /\ ~st.escalated
      /\ st.escHead = None /\ st.escTree = None
  <2>1. st \in States /\ st = [Fresh EXCEPT !.lastHead = 0, !.lastTree = 0]
    <3>1. Fresh \in States BY StopGateAssumption DEF Fresh, States, Maybe
    <3>2. [Fresh EXCEPT !.lastHead = 0, !.lastTree = 0] \in States BY <3>1 DEF States, Maybe
    <3> QED BY <3>2 DEF Init
  <2> QED BY <2>1, StopGateAssumption DEF Fresh
<1>3. /\ \A s \in Sessions : pc[s] = "agent" /\ answer[s] = "none" /\ seen[s] = Nothing
                             /\ trig[s].stage = "idle"
      /\ dirty = None /\ lock = None /\ aside = None /\ owed = {} /\ head = 0 /\ tree = 0
      /\ edits = 0 /\ run = Idle
  BY DEF Init, NoTrigger
<1>4. Held BY <1>2, <1>3, StopGateAssumption DEF Held
<1>5. Known BY <1>2, <1>3 DEF Known, NotAfter
<1>6. Based /\ Stamped BY <1>3 DEF Based, Stamped, NoTrigger
<1>7. Flagged /\ Distinct /\ Probing /\ Working /\ Starts /\ Earned
  BY <1>3 DEF Flagged, Distinct, Probing, Working, Starts, Earned
<1> QED BY <1>1, <1>4, <1>5, <1>6, <1>7 DEF Tied

LEMMA StutterTied == Tied /\ UNCHANGED vars => Tied'
<1> SUFFICES ASSUME Tied, UNCHANGED vars PROVE Tied' OBVIOUS
<1> USE DEF Tied, vars
<1>1. TypeOK' BY DEF TypeOK
<1>2. Held' /\ Known' BY DEF Held, Known, NotAfter
<1>3. Based' /\ Flagged' /\ Distinct' BY DEF Based, Covers, Flagged, Distinct, NextFlag, Newer
<1>6. Stamped' BY DEF Stamped, Reaches
<1>4. Probing' /\ Starts' /\ Earned' BY DEF Probing, Starts, Earned
<1>5. Working' BY DEF Working, Pending
<1> QED BY <1>1, <1>2, <1>3, <1>4, <1>5, <1>6

LEMMA NextTied == ASSUME Races = {}, Tied, Next PROVE Tied'
<1>1. TypeOK' BY TypeNext DEF Tied
<1>2. CASE Commit BY <1>1, <1>2, CommitTied
<1>3. ASSUME NEW s \in Sessions, Edit(s) \/ Trigger(s) \/ Stop(s) \/ Reset(s) \/ Start(s) \/ Kill(s)
      PROVE  Tied'
  <2>1. CASE Edit(s) BY <1>1, <2>1, EditTied
  <2>2. CASE Trigger(s) BY <1>1, <2>2, TriggerReadTied, TriggerWriteTied DEF Trigger
  <2>3. CASE Stop(s)
    <3>1. CASE Probe(s) \/ ProbeHead(s) \/ ProbeTree(s)
      BY <1>1, <3>1, ProbeTied, ProbeHeadTied, ProbeTreeTied
    <3>2. CASE TakeLock(s) \/ Contend(s) BY <1>1, <3>2, TakeLockTied, ContendTied
    <3>3. CASE Consume(s) \/ Unmark(s) \/ Setup(s)
      BY <1>1, <3>3, ConsumeTied, UnmarkTied, SetupTied
    <3>4. CASE Gather(s) \/ Snapshot(s) \/ KeepClosed(s)
      BY <1>1, <3>4, GatherTied, SnapshotTied, KeepClosedTied
    <3>5. CASE Drive(s) BY <1>1, <3>5, DriveTied
    <3>6. CASE Verdict(s) BY <1>1, <3>6, PassTied, FailTied, HandOverTied DEF Verdict
    <3>7. CASE NoVerdict(s) \/ Reap(s) \/ Settle(s)
      BY <1>1, <3>7, NoVerdictTied, ReapTied, SettleTied
    <3> QED BY <2>3, <3>1, <3>2, <3>3, <3>4, <3>5, <3>6, <3>7 DEF Stop
  <2>4. CASE Reset(s) BY <1>1, <2>4, ResetTied
  <2>5. CASE Start(s)
    BY <1>1, <2>5, WipeTied, RemoveTied, SeedTied, SeedTreeTied, SaveTied DEF Start
  <2>6. CASE Kill(s) BY <1>1, <2>6, KillTied
  <2> QED BY <1>3, <2>1, <2>2, <2>3, <2>4, <2>5, <2>6
<1> QED BY <1>2, <1>3 DEF Next

(* Where none of the situations arises, every state of the gate satisfies   *)
(* the invariant.                                                            *)
LEMMA TiedHolds == ASSUME Races = {} PROVE Spec => []Tied
<1>1. Tied /\ [Next]_vars => Tied' BY NextTied, StutterTied
<1> QED BY <1>1, InitTied, PTL DEF Spec

(* Unless one of the listed situations arises, no work is lost between the  *)
(* hooks: the flag with its base and stamp, and the recorded tree, that the *)
(* next stop finds cover all that no review has passed.                     *)
THEOREM WorkStaysTracked == ASSUME Races = {} PROVE Spec => []WorkTracked
<1>1. Tied => WorkTracked
  <2> SUFFICES ASSUME Tied, NEW w \in owed PROVE Tracked(w) BY DEF WorkTracked
  <2>0. w[2] \in Nat /\ w[3] \in Nat /\ head \in Nat BY DEF Tied, TypeOK
  <2>1. CASE NextFlag # None
    <3>1. Covers(NextFlag.base) /\ Reaches(NextFlag.since)
      BY <2>1 DEF Tied, Based, Stamped, NextFlag
    <3> QED BY <2>1, <3>1 DEF Tracked, InDiff, NextBase, NextSince, LetGoNext, Covers, Reaches
  <2>2. CASE NextFlag = None
    <3>1. w[2] > head BY <2>2 DEF Tied, Flagged
    <3>2. st # None /\ ~Unflagging => tree # Baseline.tree
      BY <2>2, <3>1 DEF Tied, Distinct, Baseline
    <3> QED BY <2>0, <2>2, <3>1, <3>2 DEF Tracked, InDiff, NextSince, NextState, LetGoNext
  <2> QED BY <2>1, <2>2
<1> QED BY <1>1, TiedHolds, PTL

(* Nor, then, is a session told that there is nothing to review while work  *)
(* of its own is still owed.                                                *)
THEOREM OnlyEarnedIsLetGo == ASSUME Races = {} PROVE Spec => []LetGoIsEarned
<1>1. Tied => LetGoIsEarned
  <2> SUFFICES ASSUME Tied, NEW s \in Sessions, answer[s] \in {"green", "stood down"}, Owes(s)
               PROVE  FALSE
    BY DEF LetGoIsEarned
  <2> QED BY DEF Owes, Tied, Earned
<1> QED BY <1>1, TiedHolds, PTL
=============================================================================

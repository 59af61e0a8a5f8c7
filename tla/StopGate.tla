------------------------------ MODULE StopGate ------------------------------
(***************************************************************************)
(* src/cli/commands/gate.ts and src/hooks/handlers.ts: the three hooks of  *)
(* the agent sessions that share one checkout, step by step.               *)
(*                                                                         *)
(*   PostToolUse   trigger  marks the checkout dirty; runs on its own,     *)
(*                          under no lock                                  *)
(*   Stop          gate     probes, takes the gate lock or defers, reviews *)
(*   SessionStart  reset    wipes the state of the checkout and seeds it   *)
(*                          anew, under the lock if it can get it          *)
(*                                                                         *)
(* What the review decides is LoopDriver's subject: here a review passes,  *)
(* fails, gives no verdict, or hands over to a human.  Every edit is made  *)
(* with an editing tool and makes a new file, which git does not track     *)
(* before the next commit: a review leaves out untracked files older than  *)
(* its flag's stamp, and never a change to a tracked file.  HEAD and tree  *)
(* are counters as in LoopDriver, time is the number of edits, and the     *)
(* work of session s in commit n, or about to be in it, by edit k is       *)
(* <<s, n, k>>.                                                            *)
(* The gate lock is the one module Mutex promises and FileLock implements. *)
(***************************************************************************)
EXTENDS Integers, FiniteSets

CONSTANTS
  Sessions,    \* agent sessions in the checkout
  None,        \* no value, no file
  MaxRounds,   \* the hard cap on the rounds of a cycle
  Races,       \* which of the situations below may arise
  MaxEdits,    \* bound: edits
  MaxCommits,  \* bound: commits
  MaxKills,    \* bound: hook processes killed
  MaxResets    \* bound: session starts

(* Situations in which the hooks lose track of work.                       *)
Situations ==
  {"trigger in setup",   \* a trigger lands after a gate's diff, before its driver
                         \* has read the flag
   "trigger in reap",    \* a trigger looks for the flag that a gate has set aside
   "probe in reap",      \* so does a probe
   "kill in reap",       \* a gate is killed while it has set the flag aside
   "early commit",       \* an edit is committed before its trigger has ended
   "unflagged commit",   \* unreviewed work is committed when there is no dirty flag
   "commit in probe",    \* a commit is made between a probe's reading HEAD and the tree
   "reset over commits", \* a session starts over committed work still unreviewed
   "reset in review",    \* a session starts while a gate has the lock
   "probe in reset",     \* a probe finds the flag gone and the state not yet
   "kill in reset",      \* a session start is killed
   "late stamp"}         \* a batch's stamp is later than the last edit, or than
                         \* an unreviewed new file that is in the tree

(* What state.json and dirty.flag hold. *)
Maybe(S) == S \cup {None}
States == [lastHead : Maybe(Nat), lastTree : Maybe(Nat), iteration : 0..MaxRounds,
           escalated : BOOLEAN, escHead : Maybe(Nat), escTree : Maybe(Nat)]
Flags == [base : Maybe(Nat), since : Nat, read : BOOLEAN]
Works == Sessions \X Nat \X Nat

ASSUME StopGateAssumption ==
  /\ None \notin Nat \cup Sessions \cup States \cup Flags
  /\ Races \subseteq Situations
  /\ MaxRounds \in Nat \ {0}
  /\ \A n \in {MaxEdits, MaxCommits, MaxKills, MaxResets} : n \in Nat

VARIABLES
  st,        \* .reviewgate/state.json, None if it is missing
  dirty,     \* dirty.flag: its base, the stamp since when new files count,
             \* and whether it is the one the running gate has read; None if
             \* it is missing
  deferred,  \* is there a deferred.flag
  lock,      \* who holds the gate lock
  head, tree, edits,
  trig,      \* trig[s]: the trigger of the last edit of s, its base and stamp
  pc,        \* pc[s]: where the Stop or SessionStart hook of s is
  seen,      \* seen[s]: what that hook has read so far
  run,       \* what the gate that has the lock reviews, and what it will say
  aside,     \* the flag that gate has renamed away
  answer,    \* answer[s]: what s was told last, "none" once it acts again
  owed,      \* history: work that no review has passed and no human was told of
  kills, resets

files == <<st, dirty, deferred>>
world == <<head, tree, edits>>
bounds == <<kills, resets>>
vars == <<files, lock, world, trig, pc, seen, run, aside, answer, owed, bounds>>

May(situation) == situation \in Races
Owes(s) == \E w \in owed : w[1] = s

-----------------------------------------------------------------------------
(* Files. *)

Fresh == [lastHead |-> None, lastTree |-> None, iteration |-> 0,
          escalated |-> FALSE, escHead |-> None, escTree |-> None]
Flag(base, since) == [base |-> base, since |-> since, read |-> FALSE]
NoScoping == 0

(* Is w in the diff from base with the untracked files since then?  Without *)
(* a base the diff is the working tree's.                                   *)
InDiff(w, base, since) == IF w[2] > head THEN since <= w[3]
                          ELSE base # None /\ base < w[2]
EmptyDiff(base, since) == base \in {None, head} /\ (tree = 0 \/ tree < since)

Nothing == [head |-> None, tree |-> None, carried |-> FALSE]
Idle == [head |-> 0, base |-> None, since |-> NoScoping, tree |-> 0, got |-> {},
         say |-> "none"]
NoTrigger == [stage |-> "idle", base |-> None, since |-> NoScoping]

Goto(s, where) == pc' = [pc EXCEPT ![s] = where]
Say(s, a) == answer' = [answer EXCEPT ![s] = a]

(* Mutant: a hook that returns early keeps the lock. *)
Released_Late(s) == IF lock = s /\ pc[s] \in {"settle", "save"} THEN None ELSE lock

Released(s) == IF lock = s THEN None ELSE lock

(* The hook ends; the lock is released if s has it. *)
End(s) == /\ Goto(s, "agent")
          /\ seen' = [seen EXCEPT ![s] = Nothing]
          /\ lock' = Released(s)
          /\ run' = IF lock = s THEN Idle ELSE run
          /\ aside' = IF lock = s THEN None ELSE aside

Init ==
  /\ st = [Fresh EXCEPT !.lastHead = 0, !.lastTree = 0]
  /\ dirty = None /\ deferred = FALSE /\ lock = None
  /\ head = 0 /\ tree = 0 /\ edits = 0
  /\ trig = [s \in Sessions |-> NoTrigger]
  /\ pc = [s \in Sessions |-> "agent"]
  /\ seen = [s \in Sessions |-> Nothing]
  /\ run = Idle /\ aside = None
  /\ answer = [s \in Sessions |-> "none"]
  /\ owed = {} /\ kills = 0 /\ resets = 0

-----------------------------------------------------------------------------
(* The agents.  An edit starts a trigger, which does not hold up the agent. *)

Edit(s) ==
  /\ pc[s] = "agent" /\ trig[s].stage = "idle" /\ edits < MaxEdits
  /\ edits' = edits + 1 /\ tree' = edits'
  /\ trig' = [trig EXCEPT ![s].stage = "called"]
  /\ owed' = owed \cup {<<s, head + 1, edits'>>}
  /\ Say(s, "none")
  /\ UNCHANGED <<files, lock, head, pc, seen, run, aside, bounds>>

Resetting(s) == pc[s] \in {"wipe", "unflag", "undefer", "unstate", "seed", "hash", "save"}

Commit ==
  /\ tree # 0 /\ head < MaxCommits
  /\ May("early commit") \/ \A s \in Sessions : trig[s].stage = "idle"
  /\ \/ May("unflagged commit") \/ dirty # None
     \/ \A w \in owed : w[2] # head + 1
  /\ May("commit in probe") \/ \A s \in Sessions : pc[s] # "tree"
  /\ May("reset over commits") \/ \A s \in Sessions : ~Resetting(s)
  /\ head' = head + 1 /\ tree' = 0
  /\ UNCHANGED <<files, lock, edits, trig, pc, seen, run, aside, answer, owed, bounds>>

(* Mutant: every trigger takes the current HEAD for its base. *)
BatchBase_Fresh == head

(* handleTrigger keeps the base of the flag it finds; without one the batch *)
(* starts at the current HEAD.                                              *)
BatchBase == IF dirty # None /\ dirty.base # None THEN dirty.base ELSE head

(* So it does with the stamp; a batch that starts is stamped half a minute  *)
(* back from the time of the trigger.                                       *)
Stamps == IF dirty # None THEN {dirty.since}
          ELSE {m \in 1..(edits + 1) :
                  \/ May("late stamp")
                  \/ m <= edits /\ \A w \in owed : w[2] > head => m <= w[3]}

TriggerRead(s) ==
  /\ trig[s].stage = "called"
  /\ May("trigger in reap") \/ aside = None
  /\ \E m \in Stamps :
       trig' = [trig EXCEPT ![s] = [stage |-> "read", base |-> BatchBase, since |-> m]]
  /\ UNCHANGED <<files, lock, world, pc, seen, run, aside, answer, owed, bounds>>

TriggerWrite(s) ==
  /\ trig[s].stage = "read"
  /\ May("trigger in setup") \/ \A t \in Sessions : pc[t] # "drive"
  /\ dirty' = Flag(trig[s].base, trig[s].since)
  /\ trig' = [trig EXCEPT ![s] = NoTrigger]
  /\ UNCHANGED <<st, deferred, lock, world, pc, seen, run, aside, answer, owed, bounds>>

-----------------------------------------------------------------------------
(* Stop: the probe, under no lock. *)

(* What HEAD and tree must still be for the gate to be skipped. *)
Baseline == IF st.escalated THEN [head |-> st.escHead, tree |-> st.escTree, carried |-> TRUE]
            ELSE [head |-> st.lastHead, tree |-> st.lastTree, carried |-> FALSE]

MustReview == deferred \/ dirty # None \/ st = None

(* A session start has removed the flag, and not yet the state. *)
Unflagging == \E s \in Sessions : pc[s] \in {"undefer", "unstate"}

Probe(s) ==
  /\ pc[s] = "agent"
  /\ May("probe in reap") \/ aside = None
  /\ May("probe in reset") \/ ~Unflagging
  /\ \/ MustReview /\ Goto(s, "lock") /\ UNCHANGED seen
     \/ /\ ~MustReview /\ Goto(s, "head")
        /\ seen' = [seen EXCEPT ![s] = Baseline]
  /\ Say(s, "none")
  /\ UNCHANGED <<files, lock, world, trig, run, aside, owed, bounds>>

ProbeHead(s) ==
  /\ pc[s] = "head"
  /\ Goto(s, IF seen[s].head = head THEN "tree" ELSE "lock")
  /\ UNCHANGED <<files, lock, world, trig, seen, run, aside, answer, owed, bounds>>

(* Mutant: HEAD alone decides. *)
SameTree_Blind(s) == TRUE

SameTree(s) == seen[s].tree = tree

ProbeTree(s) ==
  /\ pc[s] = "tree"
  /\ \/ /\ SameTree(s)
        /\ End(s)
        /\ Say(s, IF seen[s].carried THEN "stood down" ELSE "green")
     \/ /\ ~SameTree(s)
        /\ Goto(s, "lock")
        /\ UNCHANGED <<lock, seen, run, aside, answer>>
  /\ UNCHANGED <<files, world, trig, owed, bounds>>

-----------------------------------------------------------------------------
(* Stop: the lock, or a deferral. *)

TakeLock(s) ==
  /\ pc[s] = "lock" /\ lock = None
  /\ lock' = s /\ Goto(s, "consume")
  /\ UNCHANGED <<files, world, trig, seen, run, aside, answer, owed, bounds>>

(* lockContentionDecision: no marker, no deferral. *)
Contend(s) ==
  /\ pc[s] = "lock" /\ lock # None
  /\ \/ deferred' = TRUE /\ Say(s, "deferred")
     \/ UNCHANGED deferred /\ Say(s, "block")
  /\ End(s)
  /\ UNCHANGED <<st, dirty, world, trig, owed, bounds>>

LastHead == IF st = None THEN None ELSE st.lastHead

(* consumeDeferredFlag: the marker goes only once there is a dirty flag; if *)
(* none can be written it stays.                                            *)
Consume(s) ==
  /\ pc[s] = "consume"
  /\ \/ /\ deferred
        /\ dirty' = IF dirty = None THEN Flag(LastHead, NoScoping) ELSE dirty
        /\ Goto(s, "unmark")
     \/ /\ ~deferred \/ dirty = None
        /\ UNCHANGED dirty
        /\ Goto(s, "setup")
  /\ UNCHANGED <<st, deferred, lock, world, trig, seen, run, aside, answer, owed, bounds>>

Unmark(s) ==
  /\ pc[s] = "unmark"
  /\ deferred' = FALSE
  /\ Goto(s, "setup")
  /\ UNCHANGED <<st, dirty, lock, world, trig, seen, run, aside, answer, owed, bounds>>

-----------------------------------------------------------------------------
(* Stop: what to review. *)

(* loadOrRecover, and HEAD. *)
Setup(s) ==
  /\ pc[s] = "setup"
  /\ st' = IF st = None THEN Fresh ELSE st
  /\ run' = [run EXCEPT !.head = head]
  /\ Goto(s, "base")
  /\ UNCHANGED <<dirty, deferred, lock, world, trig, seen, aside, answer, owed, bounds>>

(* gatherReviewContext: the flag's base and stamp, or else the last         *)
(* reviewed HEAD and no stamp; then a flag is written, if there is anything *)
(* since.                                                                   *)
Gather(s) ==
  /\ pc[s] = "base"
  /\ \/ dirty # None
        /\ run' = [run EXCEPT !.base = dirty.base, !.since = dirty.since]
        /\ UNCHANGED dirty
     \/ /\ dirty = None
        /\ LET last == LastHead
           IN  /\ run' = [run EXCEPT !.base = last, !.since = NoScoping]
               /\ \/ /\ last # None /\ ~EmptyDiff(last, NoScoping)
                     /\ dirty' = Flag(last, NoScoping)
                  \/ UNCHANGED dirty
  /\ Goto(s, "snapshot")
  /\ UNCHANGED <<st, deferred, lock, world, trig, seen, aside, answer, owed, bounds>>

Unflagged == dirty = None /\ ~EmptyDiff(run.base, run.since)

(* The diff and the fingerprint of the tree, as one verified pair, though   *)
(* the fingerprint knows no stamp; then runStopGate's belt: a diff that is  *)
(* not empty has a flag ...                                                 *)
Snapshot(s) ==
  /\ pc[s] = "snapshot"
  /\ run' = [run EXCEPT !.tree = tree,
                        !.got = {w \in owed : InDiff(w, run.base, run.since)}]
  /\ dirty' = IF Unflagged THEN Flag(LastHead, NoScoping) ELSE dirty
  /\ Goto(s, "drive")
  /\ UNCHANGED <<st, deferred, lock, world, trig, seen, aside, answer, owed, bounds>>

(* ... or, if none can be written, the gate stays closed.                   *)
KeepClosed(s) ==
  /\ pc[s] = "snapshot" /\ Unflagged
  /\ End(s) /\ Say(s, "block")
  /\ UNCHANGED <<files, world, trig, owed, bounds>>

-----------------------------------------------------------------------------
(* Stop: the driver. *)

(* HEAD has moved: Path A records it, unless the escalation knew of it.     *)
(* New work after an escalation: Path B starts a new cycle.                 *)
Rearmed ==
  LET moved == st.lastHead # run.head /\ ~(st.escalated /\ st.escHead = run.head)
      s1 == IF moved THEN [st EXCEPT !.lastHead = run.head, !.lastTree = run.tree]
            ELSE st
  IN  IF st.escalated
      THEN [s1 EXCEPT !.escalated = FALSE, !.escHead = None, !.escTree = None,
                      !.iteration = 0]
      ELSE s1

Drive(s) ==
  /\ pc[s] = "drive"
  /\ \/ /\ dirty = None
        /\ End(s) /\ Say(s, "green")
        /\ UNCHANGED <<st, dirty>>
     \/ /\ dirty # None /\ st = None
        /\ End(s) /\ Say(s, "block")
        /\ UNCHANGED <<st, dirty>>
     \/ /\ dirty # None /\ st # None
        /\ dirty' = [dirty EXCEPT !.read = TRUE]
        /\ st' = Rearmed
        /\ Goto(s, "panel")
        /\ UNCHANGED <<lock, seen, run, aside, answer>>
  /\ UNCHANGED <<deferred, world, trig, owed, bounds>>

Reviewed(s1) == [s1 EXCEPT !.lastHead = run.head, !.lastTree = run.tree]

(* The panel's verdict is saved before the flag is removed. *)
Panel(s) == pc[s] = "panel" /\ st # None

AtCap == st # None /\ st.iteration >= MaxRounds

Pass(s) ==
  /\ Panel(s) /\ ~AtCap
  /\ st' = [Reviewed(st) EXCEPT !.iteration = 0]
  /\ owed' = owed \ run.got
  /\ run' = [run EXCEPT !.say = "green"]
  /\ Goto(s, "reap")
  /\ UNCHANGED <<dirty, deferred, lock, world, trig, seen, aside, answer, bounds>>

Fail(s) ==
  /\ Panel(s) /\ ~AtCap
  /\ st' = [Reviewed(st) EXCEPT !.iteration = @ + 1]
  /\ End(s) /\ Say(s, "block")
  /\ UNCHANGED <<dirty, deferred, world, trig, owed, bounds>>

HandOver(s) ==
  /\ Panel(s)
  /\ st' = [st EXCEPT !.escalated = TRUE, !.escHead = head, !.escTree = run.tree]
  /\ owed' = owed \ run.got
  /\ run' = [run EXCEPT !.say = "escalated"]
  /\ Goto(s, "reap")
  /\ UNCHANGED <<dirty, deferred, lock, world, trig, seen, aside, answer, bounds>>

(* An outage, a timeout, or a state file that is gone. *)
NoVerdict(s) ==
  /\ pc[s] = "panel" /\ ~AtCap
  /\ End(s)
  /\ \/ st # None /\ Say(s, "deferred")
     \/ Say(s, "block")
  /\ UNCHANGED <<files, world, trig, owed, bounds>>

(* unlinkDirtyFlagIfUnchanged: the flag is renamed away, looked at, and put *)
(* back if it is not the one this gate has read.                            *)
Reap(s) ==
  /\ pc[s] = "reap"
  /\ \/ /\ dirty = None
        /\ End(s) /\ Say(s, run.say)
        /\ UNCHANGED dirty
     \/ /\ dirty # None
        /\ aside' = dirty /\ dirty' = None
        /\ Goto(s, "settle")
        /\ UNCHANGED <<lock, seen, run, answer>>
  /\ UNCHANGED <<st, deferred, world, trig, owed, bounds>>

Newer(flag) == ~flag.read

Settle(s) ==
  /\ pc[s] = "settle"
  /\ dirty' = IF Newer(aside) THEN aside ELSE dirty
  /\ End(s) /\ Say(s, run.say)
  /\ UNCHANGED <<st, deferred, world, trig, owed, bounds>>

-----------------------------------------------------------------------------
(* SessionStart: a session starts, resumes, or compacts its context. *)

Reset(s) ==
  /\ pc[s] = "agent" /\ resets < MaxResets
  /\ May("reset over commits") \/ \A w \in owed : w[2] > head
  /\ \/ lock = None /\ lock' = s
     \/ lock # None /\ May("reset in review") /\ UNCHANGED lock
  /\ resets' = resets + 1
  /\ Goto(s, "wipe") /\ Say(s, "none")
  /\ UNCHANGED <<files, world, trig, seen, run, aside, owed, kills>>

(* handleReset: an escalated state leaves its markers to the next one.      *)
Wipe(s) ==
  /\ pc[s] = "wipe"
  /\ seen' = [seen EXCEPT ![s] =
       IF st # None /\ st.escalated
       THEN [head |-> st.lastHead, tree |-> st.lastTree, carried |-> TRUE]
       ELSE Nothing]
  /\ Goto(s, "unflag")
  /\ UNCHANGED <<files, lock, world, trig, run, aside, answer, owed, bounds>>

(* Then the files are removed, one after the other. *)
Unflag(s) ==
  /\ pc[s] = "unflag"
  /\ dirty' = None
  /\ Goto(s, "undefer")
  /\ UNCHANGED <<st, deferred, lock, world, trig, seen, run, aside, answer, owed, bounds>>

Undefer(s) ==
  /\ pc[s] = "undefer"
  /\ deferred' = FALSE
  /\ Goto(s, "unstate")
  /\ UNCHANGED <<st, dirty, lock, world, trig, seen, run, aside, answer, owed, bounds>>

Unstate(s) ==
  /\ pc[s] = "unstate"
  /\ st' = None
  /\ Goto(s, "seed")
  /\ UNCHANGED <<dirty, deferred, lock, world, trig, seen, run, aside, answer, owed, bounds>>

Seed(s) ==
  /\ pc[s] = "seed"
  /\ st' = IF st = None THEN Fresh ELSE st
  /\ \/ seen[s].carried /\ Goto(s, "save") /\ UNCHANGED seen
     \/ /\ ~seen[s].carried /\ Goto(s, "hash")
        /\ seen' = [seen EXCEPT ![s].head = head]
  /\ UNCHANGED <<dirty, deferred, lock, world, trig, run, aside, answer, owed, bounds>>

SeedTree(s) ==
  /\ pc[s] = "hash"
  /\ seen' = [seen EXCEPT ![s].tree = tree]
  /\ Goto(s, "save")
  /\ UNCHANGED <<files, lock, world, trig, run, aside, answer, owed, bounds>>

(* The tree is taken for reviewed only if it is clean now. *)
SeededTree(s) == IF seen[s].carried \/ tree = 0 THEN seen[s].tree ELSE None

Save(s) ==
  /\ pc[s] = "save"
  /\ st' = IF st = None THEN None
           ELSE [st EXCEPT !.lastHead = IF seen[s].head = None THEN @ ELSE seen[s].head,
                           !.lastTree = SeededTree(s)]
  /\ End(s)
  /\ UNCHANGED <<dirty, deferred, world, trig, answer, owed, bounds>>

-----------------------------------------------------------------------------
(* The host kills a hook that overruns its timeout; the lock of a dead      *)
(* process is taken away.                                                   *)

Kill(s) ==
  /\ pc[s] # "agent" /\ kills < MaxKills
  /\ pc[s] = "settle" => May("kill in reap")
  /\ Resetting(s) => May("kill in reset")
  /\ kills' = kills + 1
  /\ End(s) /\ Say(s, "killed")
  /\ UNCHANGED <<files, world, trig, owed, resets>>

Trigger(s) == TriggerRead(s) \/ TriggerWrite(s)

Verdict(s) == Pass(s) \/ Fail(s) \/ HandOver(s)

Stop(s) == \/ Probe(s) \/ ProbeHead(s) \/ ProbeTree(s)
           \/ TakeLock(s) \/ Contend(s) \/ Consume(s) \/ Unmark(s)
           \/ Setup(s) \/ Gather(s) \/ Snapshot(s) \/ KeepClosed(s) \/ Drive(s)
           \/ Verdict(s) \/ NoVerdict(s) \/ Reap(s) \/ Settle(s)

Start(s) == \/ Wipe(s) \/ Unflag(s) \/ Undefer(s) \/ Unstate(s)
            \/ Seed(s) \/ SeedTree(s) \/ Save(s)

Next == \/ Commit
        \/ \E s \in Sessions :
             Edit(s) \/ Trigger(s) \/ Stop(s) \/ Reset(s) \/ Start(s) \/ Kill(s)

Spec == Init /\ [][Next]_vars

(* Triggers and session starts run to their end; every turn ends and every  *)
(* gate answers.  A cycle has boundedly many reviews without a verdict      *)
(* (LoopDriver), a lock that is free again and again is got, and the disk   *)
(* is not full for ever.                                                    *)
FairSpec ==
  Spec /\ \A s \in Sessions : /\ WF_vars(Trigger(s)) /\ WF_vars(Stop(s))
                              /\ WF_vars(Start(s))
                              /\ SF_vars(TakeLock(s)) /\ SF_vars(Snapshot(s))
                              /\ SF_vars(Verdict(s))

-----------------------------------------------------------------------------
(* Properties. *)

Places == {"agent", "head", "tree", "lock", "consume", "unmark", "setup", "base",
           "snapshot", "drive", "panel", "reap", "settle",
           "wipe", "unflag", "undefer", "unstate", "seed", "hash", "save"}
Answers == {"none", "green", "stood down", "block", "deferred", "escalated", "killed"}

(* The state has its types, and the cycle stays within its cap. *)
TypeOK ==
  /\ st \in Maybe(States) /\ dirty \in Maybe(Flags) /\ aside \in Maybe(Flags)
  /\ deferred \in BOOLEAN /\ lock \in Maybe(Sessions)
  /\ head \in Nat /\ tree \in Nat /\ edits \in Nat
  /\ trig \in [Sessions -> [stage : {"idle", "called", "read"}, base : Maybe(Nat),
                            since : Nat]]
  /\ pc \in [Sessions -> Places]
  /\ seen \in [Sessions -> [head : Maybe(Nat), tree : Maybe(Nat), carried : BOOLEAN]]
  /\ run \in [head : Nat, base : Maybe(Nat), since : Nat, tree : Nat,
              got : SUBSET Works, say : Answers]
  /\ answer \in [Sessions -> Answers]
  /\ owed \subseteq Works /\ kills \in Nat /\ resets \in Nat

(* What the next stop would find once a flag set aside has been put back    *)
(* and a session start that has removed the flag has removed the state too: *)
(* whether it would be let go at the probe, and the scope of its review.    *)
NextFlag == IF aside # None /\ Newer(aside) THEN aside ELSE dirty
NextState == IF Unflagging THEN None ELSE st
NextBase == IF NextFlag # None THEN NextFlag.base
            ELSE IF NextState = None THEN None ELSE LastHead
NextSince == IF NextFlag # None THEN NextFlag.since ELSE NoScoping
LetGoNext == /\ NextFlag = None /\ ~deferred /\ NextState # None
             /\ Baseline.head = head /\ Baseline.tree = tree
Tracked(w) == InDiff(w, NextBase, NextSince) /\ ~LetGoNext

(* No work is lost: whatever is unreviewed is in the diff of the next stop, *)
(* however edits, triggers, commits, stops, kills and session starts of all *)
(* sessions interleave.                                                     *)
WorkTracked == \A w \in owed : Tracked(w)

(* A session is only told that there is nothing to review, or that its work *)
(* has passed or is in a human's hands, when that holds of all its work.    *)
LetGoIsEarned ==
  \A s \in Sessions : answer[s] \in {"green", "stood down"} => ~Owes(s)

(* Reviews never overlap, though session starts go on without the lock and  *)
(* hooks are killed.                                                        *)
Reviewing(s) == pc[s] \in {"consume", "unmark", "setup", "base", "snapshot",
                           "drive", "panel", "reap", "settle"}
OneReview == \A s, t \in Sessions : Reviewing(s) /\ Reviewing(t) => s = t

(* All work is reviewed or handed over in the end. *)
WorkSettles == \A s \in Sessions : Owes(s) ~> ~Owes(s)
=============================================================================

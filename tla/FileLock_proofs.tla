--------------------------- MODULE FileLock_proofs ---------------------------
(***************************************************************************)
(* Proofs about FileLock for any set of calls and processes.               *)
(*                                                                         *)
(* The results on mutual exclusion assume ~ExitInProbe: no process ends    *)
(* between another one's reading its pid and probing it.  Without that     *)
(* assumption they are false, as the run file_lock_exit shows.             *)
(***************************************************************************)
EXTENDS FileLock, TLAPS

(* A reclaimer that is about to probe what it read has read a live pid, or *)
(* the file is a dead call's and is still there.                           *)
ProbeIsFresh ==
  \A c \in Calls, l \in Reclaimed :
    At(c, "probe", l) =>
      /\ seen[c] # None
      /\ \/ alive[PidOf[seen[c]]]
         \/ file[l] = seen[c] /\ Dead(seen[c])

(* A reclaimer about to rename a file is about to rename a dead call's. *)
MoveIsSafe ==
  \A c \in Calls, l \in Reclaimed :
    At(c, "move", l) => file[l] # None /\ Dead(file[l])

(* A call whose process is gone does nothing. *)
GoneIsGone ==
  \A c \in Calls : ~alive[PidOf[c]] => pc[c] = "idle" \/ Ended(c)

(* The locks a reclaimer works on, and never the third. *)
OnReclaimed ==
  \A c \in Calls : pc[c] \in Reclaiming \cup {"look"} => on[c] \in Reclaimed

IInv == /\ TypeOK
        /\ OnReclaimed
        /\ HolderKeepsFile
        /\ NoLeftover
        /\ OnlyDeadIsClaimed
        /\ ProbeIsFresh
        /\ MoveIsSafe
        /\ GoneIsGone

-----------------------------------------------------------------------------

(* Only one call at a time holds a lock whose file is its holder's. *)
LEMMA Exclusive == HolderKeepsFile => MutualExclusion
BY DEF HolderKeepsFile, MutualExclusion

(* The lock and its guard are locks. *)
LEMMA GuardLevel ==
  ASSUME NEW l \in Reclaimed
  PROVE  /\ l \in Level /\ Guard(l) \in Level /\ Guard(l) # l
         /\ \A k \in Reclaimed : Guard(k) = Guard(l) => k = l
BY DEF Guard, Reclaimed, Level

(* Only one reclaimer works on lock l. *)
LEMMA OneReclaimer ==
  ASSUME HolderKeepsFile,
         NEW l \in Reclaimed, NEW c \in Calls, NEW d \in Calls,
         pc[c] \in Reclaiming, on[c] = l, pc[d] \in Reclaiming, on[d] = l
  PROVE  c = d
BY Exclusive, GuardLevel DEF MutualExclusion, Holds

LEMMA InitIInv == Init => IInv
BY CallsAssumption, AttemptsAssumption
   DEF Init, IInv, TypeOK, OnReclaimed, HolderKeepsFile, NoLeftover,
       OnlyDeadIsClaimed, ProbeIsFresh, MoveIsSafe, GoneIsGone, At, Holds,
       Level, Reclaimed, Stage, Reclaiming, Releasing

LEMMA CallStep ==
  ASSUME IInv, NEW c \in Calls, Call(c)
  PROVE  IInv'
<1> USE CallsAssumption DEF Call, IInv, Goto
<1>1. TypeOK'
  BY DEF TypeOK, Stage, Level
<1>2. OnReclaimed'
  BY DEF OnReclaimed, TypeOK, Reclaiming
<1>3. HolderKeepsFile'
  BY DEF HolderKeepsFile, TypeOK, Holds, Reclaiming, Releasing
<1>4. NoLeftover'
  BY DEF NoLeftover, TypeOK, Holds, Dead, Reclaiming, Releasing
<1>5. OnlyDeadIsClaimed'
  BY DEF OnlyDeadIsClaimed, TypeOK, Dead
<1>6. ProbeIsFresh'
  BY DEF ProbeIsFresh, TypeOK, Dead, At
<1>7. MoveIsSafe'
  BY DEF MoveIsSafe, TypeOK, Dead, Reclaimed, Level, At
<1>8. GoneIsGone'
  BY DEF GoneIsGone, TypeOK, Ended
<1> QED BY <1>1, <1>2, <1>3, <1>4, <1>5, <1>6, <1>7, <1>8

LEMMA TryAgainStep ==
  ASSUME IInv, NEW c \in Calls, TryAgain(c)
  PROVE  IInv'
<1> USE CallsAssumption, AttemptsAssumption, ProbeAssumption DEF TryAgain, IInv, Goto
<1>1. TypeOK'
  BY DEF TypeOK, Stage, Level, Reclaimed, Guard, Reclaiming, Releasing
<1>2. OnReclaimed'
  BY DEF OnReclaimed, TypeOK, Reclaiming, Releasing, Reclaimed, Guard
<1>3. HolderKeepsFile'
  BY DEF HolderKeepsFile, TypeOK, Holds, Reclaiming, Releasing, Guard, Level, Reclaimed
<1>4. NoLeftover'
  BY DEF NoLeftover, HolderKeepsFile, TypeOK, Holds, Dead, Reclaiming, Releasing, Guard, Level, Reclaimed
<1>5. OnlyDeadIsClaimed'
  BY DEF OnlyDeadIsClaimed, TypeOK, Dead, Reclaiming, Releasing
<1>6. ProbeIsFresh'
  BY DEF ProbeIsFresh, TypeOK, Dead, At
<1>7. MoveIsSafe'
  BY DEF MoveIsSafe, TypeOK, Dead, Reclaimed, Level, At
<1>8. GoneIsGone'
  BY DEF GoneIsGone, TypeOK, Ended, Stage, Reclaiming, Releasing
<1> QED BY <1>1, <1>2, <1>3, <1>4, <1>5, <1>6, <1>7, <1>8

LEMMA GiveUpStep ==
  ASSUME IInv, NEW c \in Calls, GiveUp(c)
  PROVE  IInv'
<1> USE CallsAssumption, AttemptsAssumption, ProbeAssumption DEF GiveUp, IInv, Goto
<1>1. TypeOK'
  BY DEF TypeOK, Stage, Level, Reclaimed, Guard, Reclaiming, Releasing
<1>2. OnReclaimed'
  BY DEF OnReclaimed, TypeOK, Reclaiming, Releasing, Reclaimed, Guard
<1>3. HolderKeepsFile'
  BY DEF HolderKeepsFile, TypeOK, Holds, Reclaiming, Releasing, Guard, Level, Reclaimed
<1>4. NoLeftover'
  BY DEF NoLeftover, HolderKeepsFile, TypeOK, Holds, Dead, Reclaiming, Releasing, Guard, Level, Reclaimed
<1>5. OnlyDeadIsClaimed'
  BY DEF OnlyDeadIsClaimed, TypeOK, Dead, Reclaiming, Releasing
<1>6. ProbeIsFresh'
  BY DEF ProbeIsFresh, TypeOK, Dead, At
<1>7. MoveIsSafe'
  BY DEF MoveIsSafe, TypeOK, Dead, Reclaimed, Level, At
<1>8. GoneIsGone'
  BY DEF GoneIsGone, TypeOK, Ended, Stage, Reclaiming, Releasing
<1> QED BY <1>1, <1>2, <1>3, <1>4, <1>5, <1>6, <1>7, <1>8

LEMMA ReleaseStep ==
  ASSUME IInv, NEW c \in Calls, Release(c)
  PROVE  IInv'
<1> USE CallsAssumption, AttemptsAssumption, ProbeAssumption DEF Release, IInv, Goto
<1>1. TypeOK'
  BY DEF TypeOK, Stage, Level, Reclaimed, Guard, Reclaiming, Releasing
<1>2. OnReclaimed'
  BY DEF OnReclaimed, TypeOK, Reclaiming, Releasing, Reclaimed, Guard
<1>3. HolderKeepsFile'
  BY DEF HolderKeepsFile, TypeOK, Holds, Reclaiming, Releasing, Guard, Level, Reclaimed
<1>4. NoLeftover'
  BY DEF NoLeftover, HolderKeepsFile, TypeOK, Holds, Dead, Reclaiming, Releasing, Guard, Level, Reclaimed
<1>5. OnlyDeadIsClaimed'
  BY DEF OnlyDeadIsClaimed, TypeOK, Dead, Reclaiming, Releasing
<1>6. ProbeIsFresh'
  BY DEF ProbeIsFresh, TypeOK, Dead, At
<1>7. MoveIsSafe'
  BY DEF MoveIsSafe, TypeOK, Dead, Reclaimed, Level, At
<1>8. GoneIsGone'
  BY DEF GoneIsGone, TypeOK, Ended, Stage, Reclaiming, Releasing
<1> QED BY <1>1, <1>2, <1>3, <1>4, <1>5, <1>6, <1>7, <1>8

LEMMA LookStep ==
  ASSUME IInv, NEW c \in Calls, NEW l \in Reclaimed, Look(c, l)
  PROVE  IInv'
<1> USE CallsAssumption, AttemptsAssumption, ProbeAssumption DEF Look, IInv, Goto, At
<1>1. TypeOK'
  BY DEF TypeOK, Stage, Level, Reclaimed, Guard, Reclaiming, Releasing
<1>2. OnReclaimed'
  BY DEF OnReclaimed, TypeOK, Reclaiming, Releasing, Reclaimed, Guard
<1>3. HolderKeepsFile'
  BY DEF HolderKeepsFile, TypeOK, Holds, Reclaiming, Releasing, Guard, Level, Reclaimed
<1>4. NoLeftover'
  BY DEF NoLeftover, HolderKeepsFile, TypeOK, Holds, Dead, Reclaiming, Releasing, Guard, Level, Reclaimed
<1>5. OnlyDeadIsClaimed'
  BY DEF OnlyDeadIsClaimed, TypeOK, Dead, Reclaiming, Releasing
<1>6. ProbeIsFresh'
  BY DEF ProbeIsFresh, TypeOK, Dead, At
<1>7. MoveIsSafe'
  BY DEF MoveIsSafe, TypeOK, Dead, Reclaimed, Level, At
<1>8. GoneIsGone'
  BY DEF GoneIsGone, TypeOK, Ended, Stage, Reclaiming, Releasing
<1> QED BY <1>1, <1>2, <1>3, <1>4, <1>5, <1>6, <1>7, <1>8

LEMMA ReadStep ==
  ASSUME IInv, NEW c \in Calls, NEW l \in Reclaimed, Read(c, l)
  PROVE  IInv'
<1> USE CallsAssumption, AttemptsAssumption, ProbeAssumption DEF Read, IInv, Goto, At
<1>1. TypeOK'
  BY DEF TypeOK, Stage, Level, Reclaimed, Guard, Reclaiming, Releasing
<1>2. OnReclaimed'
  BY DEF OnReclaimed, TypeOK, Reclaiming, Releasing, Reclaimed, Guard
<1>3. HolderKeepsFile'
  BY DEF HolderKeepsFile, TypeOK, Holds, Reclaiming, Releasing, Guard, Level, Reclaimed
<1>4. NoLeftover'
  BY DEF NoLeftover, HolderKeepsFile, TypeOK, Holds, Dead, Reclaiming, Releasing, Guard, Level, Reclaimed
<1>5. OnlyDeadIsClaimed'
  BY DEF OnlyDeadIsClaimed, TypeOK, Dead, Reclaiming, Releasing
<1>6. ProbeIsFresh'
  <2>1. file[l] # None => alive[PidOf[file[l]]] \/ Dead(file[l])
    BY GuardLevel DEF NoLeftover, GoneIsGone, TypeOK, Holds, Ended, Dead, Reclaiming, Releasing
  <2> QED BY <2>1 DEF ProbeIsFresh, TypeOK, Dead
<1>7. MoveIsSafe'
  BY DEF MoveIsSafe, TypeOK, Dead, Reclaimed, Level, At
<1>8. GoneIsGone'
  BY DEF GoneIsGone, TypeOK, Ended, Stage, Reclaiming, Releasing
<1> QED BY <1>1, <1>2, <1>3, <1>4, <1>5, <1>6, <1>7, <1>8

LEMMA ProbeStep ==
  ASSUME IInv, NEW c \in Calls, NEW l \in Reclaimed, Probe(c, l)
  PROVE  IInv'
<1> USE CallsAssumption, AttemptsAssumption, ProbeAssumption DEF Probe, IInv, Goto, At
<1>1. TypeOK'
  BY DEF TypeOK, Stage, Level, Reclaimed, Guard, Reclaiming, Releasing
<1>2. OnReclaimed'
  BY DEF OnReclaimed, TypeOK, Reclaiming, Releasing, Reclaimed, Guard
<1>3. HolderKeepsFile'
  BY DEF HolderKeepsFile, TypeOK, Holds, Reclaiming, Releasing, Guard, Level, Reclaimed
<1>4. NoLeftover'
  BY DEF NoLeftover, HolderKeepsFile, TypeOK, Holds, Dead, Reclaiming, Releasing, Guard, Level, Reclaimed
<1>5. OnlyDeadIsClaimed'
  BY DEF OnlyDeadIsClaimed, TypeOK, Dead, Reclaiming, Releasing
<1>6. ProbeIsFresh'
  BY DEF ProbeIsFresh, TypeOK, Dead, At
<1>7. MoveIsSafe'
  BY DEF MoveIsSafe, ProbeIsFresh, Reclaimable, TypeOK, Dead
<1>8. GoneIsGone'
  BY DEF GoneIsGone, TypeOK, Ended, Stage, Reclaiming, Releasing
<1> QED BY <1>1, <1>2, <1>3, <1>4, <1>5, <1>6, <1>7, <1>8

LEMMA MoveStep ==
  ASSUME IInv, NEW c \in Calls, NEW l \in Reclaimed, Move(c, l)
  PROVE  IInv'
<1> USE CallsAssumption, AttemptsAssumption, ProbeAssumption DEF Move, IInv, Goto, At
<1>1. TypeOK'
  BY DEF TypeOK, Stage, Level, Reclaimed, Guard, Reclaiming, Releasing
<1>2. OnReclaimed'
  BY DEF OnReclaimed, TypeOK, Reclaiming, Releasing, Reclaimed, Guard
<1>3. HolderKeepsFile'
  <2>1. file[l] # None /\ Dead(file[l])
    BY DEF MoveIsSafe
  <2> QED BY <2>1 DEF HolderKeepsFile, TypeOK, Holds, Dead, Reclaiming, Releasing, Guard, Level, Reclaimed
<1>4. NoLeftover'
  BY DEF NoLeftover, HolderKeepsFile, TypeOK, Holds, Dead, Reclaiming, Releasing, Guard, Level, Reclaimed
<1>5. OnlyDeadIsClaimed'
  BY DEF OnlyDeadIsClaimed, MoveIsSafe, TypeOK, Dead
<1>6. ProbeIsFresh'
  <2>1. \A d \in Calls : pc[d] \in Reclaiming /\ on[d] = l => d = c
    BY OneReclaimer DEF Reclaiming
  <2> QED BY <2>1 DEF ProbeIsFresh, TypeOK, Dead, Reclaiming
<1>7. MoveIsSafe'
  <2>1. \A d \in Calls : pc[d] \in Reclaiming /\ on[d] = l => d = c
    BY OneReclaimer DEF Reclaiming
  <2> QED BY <2>1 DEF MoveIsSafe, TypeOK, Dead, Reclaiming, Reclaimed, Level
<1>8. GoneIsGone'
  BY DEF GoneIsGone, TypeOK, Ended, Stage, Reclaiming, Releasing
<1> QED BY <1>1, <1>2, <1>3, <1>4, <1>5, <1>6, <1>7, <1>8

LEMMA SettleStep ==
  ASSUME IInv, NEW c \in Calls, NEW l \in Reclaimed, Settle(c, l)
  PROVE  IInv'
<1> USE CallsAssumption, AttemptsAssumption, ProbeAssumption DEF Settle, IInv, Goto, At
<1>1. TypeOK'
  BY DEF TypeOK, Stage, Level, Reclaimed, Guard, Reclaiming, Releasing
<1>2. OnReclaimed'
  BY DEF OnReclaimed, TypeOK, Reclaiming, Releasing, Reclaimed, Guard
<1>3. HolderKeepsFile'
  BY DEF HolderKeepsFile, TypeOK, Holds, Reclaiming, Releasing, Guard, Level, Reclaimed
<1>4. NoLeftover'
  <2>1. claimed[c] # None => Dead(claimed[c])
    BY DEF OnlyDeadIsClaimed
  <2> QED BY <2>1 DEF NoLeftover, HolderKeepsFile, TypeOK, Holds, Dead, Reclaiming, Releasing, Guard, Level, Reclaimed
<1>5. OnlyDeadIsClaimed'
  BY DEF OnlyDeadIsClaimed, TypeOK, Dead, Reclaiming, Releasing
<1>6. ProbeIsFresh'
  BY DEF ProbeIsFresh, TypeOK, Dead, At
<1>7. MoveIsSafe'
  BY DEF MoveIsSafe, TypeOK, Dead, Reclaimed, Level, At
<1>8. GoneIsGone'
  BY DEF GoneIsGone, TypeOK, Ended, Stage, Reclaiming, Releasing
<1> QED BY <1>1, <1>2, <1>3, <1>4, <1>5, <1>6, <1>7, <1>8

LEMMA CreateStep ==
  ASSUME IInv, NEW c \in Calls, NEW l \in Level, Create(c, l)
  PROVE  IInv'
<1> USE CallsAssumption, AttemptsAssumption, ProbeAssumption DEF Create, IInv, Goto, At, Won
<1>1. TypeOK'
  BY DEF TypeOK, Stage, Level, Reclaimed, Guard, Reclaiming, Releasing
<1>2. OnReclaimed'
  BY DEF OnReclaimed, TypeOK, Reclaiming, Releasing, Reclaimed, Guard
<1>3. HolderKeepsFile'
  BY DEF HolderKeepsFile, TypeOK, Holds, Reclaiming, Releasing, Guard, Level, Reclaimed
<1>4. NoLeftover'
  BY DEF NoLeftover, HolderKeepsFile, TypeOK, Holds, Dead, Reclaiming, Releasing, Guard, Level, Reclaimed
<1>5. OnlyDeadIsClaimed'
  BY DEF OnlyDeadIsClaimed, TypeOK, Dead, Reclaiming, Releasing
<1>6. ProbeIsFresh'
  BY DEF ProbeIsFresh, TypeOK, Dead, At
<1>7. MoveIsSafe'
  BY DEF MoveIsSafe, TypeOK, Dead, Reclaimed, Level, At
<1>8. GoneIsGone'
  BY DEF GoneIsGone, TypeOK, Ended, Stage, Reclaiming, Releasing
<1> QED BY <1>1, <1>2, <1>3, <1>4, <1>5, <1>6, <1>7, <1>8

LEMMA ContendStep ==
  ASSUME IInv, NEW c \in Calls, NEW l \in Level, Contend(c, l)
  PROVE  IInv'
<1> USE CallsAssumption, AttemptsAssumption, ProbeAssumption DEF Contend, IInv, Goto, At, NextRound
<1>1. TypeOK'
  BY DEF TypeOK, Stage, Level, Reclaimed, Guard, Reclaiming, Releasing
<1>2. OnReclaimed'
  BY DEF OnReclaimed, TypeOK, Reclaiming, Releasing, Reclaimed, Guard
<1>3. HolderKeepsFile'
  BY DEF HolderKeepsFile, TypeOK, Holds, Reclaiming, Releasing, Guard, Level, Reclaimed
<1>4. NoLeftover'
  BY DEF NoLeftover, HolderKeepsFile, TypeOK, Holds, Dead, Reclaiming, Releasing, Guard, Level, Reclaimed
<1>5. OnlyDeadIsClaimed'
  BY DEF OnlyDeadIsClaimed, TypeOK, Dead, Reclaiming, Releasing
<1>6. ProbeIsFresh'
  BY DEF ProbeIsFresh, TypeOK, Dead, At
<1>7. MoveIsSafe'
  BY DEF MoveIsSafe, TypeOK, Dead, Reclaimed, Level, At
<1>8. GoneIsGone'
  BY DEF GoneIsGone, TypeOK, Ended, Stage, Reclaiming, Releasing
<1> QED BY <1>1, <1>2, <1>3, <1>4, <1>5, <1>6, <1>7, <1>8

LEMMA CheckTokenStep ==
  ASSUME IInv, NEW c \in Calls, NEW l \in Level, CheckToken(c, l)
  PROVE  IInv'
<1> USE CallsAssumption, AttemptsAssumption, ProbeAssumption DEF CheckToken, IInv, Goto, At, Released, NextRound
<1>1. TypeOK'
  BY DEF TypeOK, Stage, Level, Reclaimed, Guard, Reclaiming, Releasing
<1>2. OnReclaimed'
  BY DEF OnReclaimed, TypeOK, Reclaiming, Releasing, Reclaimed, Guard
<1>3. HolderKeepsFile'
  BY DEF HolderKeepsFile, TypeOK, Holds, Reclaiming, Releasing, Guard, Level, Reclaimed
<1>4. NoLeftover'
  BY DEF NoLeftover, HolderKeepsFile, TypeOK, Holds, Dead, Reclaiming, Releasing, Guard, Level, Reclaimed
<1>5. OnlyDeadIsClaimed'
  BY DEF OnlyDeadIsClaimed, TypeOK, Dead, Reclaiming, Releasing
<1>6. ProbeIsFresh'
  BY DEF ProbeIsFresh, TypeOK, Dead, At
<1>7. MoveIsSafe'
  BY DEF MoveIsSafe, TypeOK, Dead, Reclaimed, Level, At
<1>8. GoneIsGone'
  BY DEF GoneIsGone, TypeOK, Ended, Stage, Reclaiming, Releasing
<1> QED BY <1>1, <1>2, <1>3, <1>4, <1>5, <1>6, <1>7, <1>8

LEMMA UnlinkStep ==
  ASSUME IInv, NEW c \in Calls, NEW l \in Level, Unlink(c, l)
  PROVE  IInv'
<1> USE CallsAssumption, AttemptsAssumption, ProbeAssumption DEF Unlink, IInv, Goto, At, Released, NextRound
<1>1. TypeOK'
  BY DEF TypeOK, Stage, Level, Reclaimed, Guard, Reclaiming, Releasing
<1>2. OnReclaimed'
  BY DEF OnReclaimed, TypeOK, Reclaiming, Releasing, Reclaimed, Guard
<1>3. HolderKeepsFile'
  BY DEF HolderKeepsFile, TypeOK, Holds, Reclaiming, Releasing, Guard, Level, Reclaimed
<1>4. NoLeftover'
  BY DEF NoLeftover, HolderKeepsFile, TypeOK, Holds, Dead, Reclaiming, Releasing, Guard, Level, Reclaimed
<1>5. OnlyDeadIsClaimed'
  BY DEF OnlyDeadIsClaimed, TypeOK, Dead, Reclaiming, Releasing
<1>6. ProbeIsFresh'
  <2>1. file[l] = c /\ ~Dead(c)
    BY DEF HolderKeepsFile, Holds, Releasing, Dead
  <2> QED BY <2>1 DEF ProbeIsFresh, TypeOK, Dead
<1>7. MoveIsSafe'
  <2>1. file[l] = c /\ ~Dead(c)
    BY DEF HolderKeepsFile, Holds, Releasing, Dead
  <2> QED BY <2>1 DEF MoveIsSafe, TypeOK, Dead
<1>8. GoneIsGone'
  BY DEF GoneIsGone, TypeOK, Ended, Stage, Reclaiming, Releasing
<1> QED BY <1>1, <1>2, <1>3, <1>4, <1>5, <1>6, <1>7, <1>8

LEMMA ExitStep ==
  ASSUME IInv, NEW p \in Pids, ~ExitInProbe, Exit(p)
  PROVE  IInv'
<1> USE CallsAssumption, AttemptsAssumption, ProbeAssumption DEF Exit, IInv
<1>1. TypeOK'
  BY DEF TypeOK, Stage, Level, Reclaimed, Guard, Reclaiming, Releasing
<1>2. OnReclaimed'
  BY DEF OnReclaimed, TypeOK, Reclaiming, Releasing, Reclaimed, Guard
<1>3. HolderKeepsFile'
  <2>1. \A c \in Calls, l \in Level : Holds(c, l)' => Holds(c, l)
    BY DEF Holds, Reclaiming, Releasing, Guard, TypeOK, Ended
  <2> QED BY <2>1 DEF HolderKeepsFile
<1>4. NoLeftover'
  <2>1. \A c \in Calls, l \in Level : Holds(c, l) => Holds(c, l)' \/ Dead(c)'
    BY DEF Holds, Reclaiming, Releasing, Guard, TypeOK, Ended, Dead
  <2>2. \A c \in Calls : Dead(c) => Dead(c)'
    BY DEF Dead, TypeOK
  <2> QED BY <2>1, <2>2 DEF NoLeftover, TypeOK, Level
<1>5. OnlyDeadIsClaimed'
  BY DEF OnlyDeadIsClaimed, TypeOK, Dead, Reclaiming, Releasing
<1>6. ProbeIsFresh'
  <2>1. \A c \in Calls : Dead(c) => Dead(c)'
    BY DEF Dead, TypeOK
  <2>2. \A c \in Calls, l \in Reclaimed, s \in Stage \ {"dead"} :
          At(c, s, l)' /\ s \notin {"idle", "over"} => At(c, s, l) /\ PidOf[c] # p
    BY DEF At, TypeOK, Ended
  <2> QED BY <2>1, <2>2 DEF ProbeIsFresh, At, TypeOK, Stage, Reclaiming
<1>7. MoveIsSafe'
  <2>1. \A c \in Calls : Dead(c) => Dead(c)'
    BY DEF Dead, TypeOK
  <2>2. \A c \in Calls, l \in Reclaimed, s \in Stage \ {"dead"} :
          At(c, s, l)' /\ s \notin {"idle", "over"} => At(c, s, l) /\ PidOf[c] # p
    BY DEF At, TypeOK, Ended
  <2> QED BY <2>1, <2>2 DEF MoveIsSafe, TypeOK, Stage, Reclaiming, Reclaimed, Level
<1>8. GoneIsGone'
  BY DEF GoneIsGone, TypeOK, Ended, Stage, Reclaiming, Releasing
<1> QED BY <1>1, <1>2, <1>3, <1>4, <1>5, <1>6, <1>7, <1>8

LEMMA ReusePidStep ==
  ASSUME IInv, NEW p \in Pids, ReusePid(p)
  PROVE  IInv'
<1> USE CallsAssumption, AttemptsAssumption, ProbeAssumption DEF ReusePid, IInv
<1>1. TypeOK'
  BY DEF TypeOK, Stage, Level, Reclaimed, Guard, Reclaiming, Releasing
<1>2. OnReclaimed'
  BY DEF OnReclaimed, TypeOK, Reclaiming, Releasing, Reclaimed, Guard
<1>3. HolderKeepsFile'
  BY DEF HolderKeepsFile, TypeOK, Holds, Reclaiming, Releasing, Guard, Level, Reclaimed
<1>4. NoLeftover'
  BY DEF NoLeftover, HolderKeepsFile, TypeOK, Holds, Dead, Reclaiming, Releasing, Guard, Level, Reclaimed
<1>5. OnlyDeadIsClaimed'
  BY DEF OnlyDeadIsClaimed, TypeOK, Dead, Reclaiming, Releasing
<1>6. ProbeIsFresh'
  BY DEF ProbeIsFresh, TypeOK, Dead, At
<1>7. MoveIsSafe'
  BY DEF MoveIsSafe, TypeOK, Dead, Reclaimed, Level, At
<1>8. GoneIsGone'
  BY DEF GoneIsGone, TypeOK, Ended, Stage, Reclaiming, Releasing
<1> QED BY <1>1, <1>2, <1>3, <1>4, <1>5, <1>6, <1>7, <1>8

LEMMA NextStep ==
  ASSUME ~ExitInProbe, IInv, [Next]_vars
  PROVE  IInv'
<1>1. ASSUME NEW c \in Calls, Call(c) \/ Step(c)
      PROVE  IInv'
  <2>1. CASE Call(c) \/ TryAgain(c) \/ GiveUp(c) \/ Release(c)
    BY <2>1, CallStep, TryAgainStep, GiveUpStep, ReleaseStep
  <2>2. CASE \E l \in Level : Create(c, l) \/ Contend(c, l) \/ CheckToken(c, l) \/ Unlink(c, l)
    BY <2>2, CreateStep, ContendStep, CheckTokenStep, UnlinkStep
  <2>3. CASE \E l \in Reclaimed :
               Look(c, l) \/ Read(c, l) \/ Probe(c, l) \/ Move(c, l) \/ Settle(c, l)
    BY <2>3, LookStep, ReadStep, ProbeStep, MoveStep, SettleStep
  <2> QED BY <1>1, <2>1, <2>2, <2>3 DEF Step
<1>2. ASSUME NEW p \in Pids, Exit(p) \/ ReusePid(p)
      PROVE  IInv'
  BY <1>2, ExitStep, ReusePidStep
<1>3. CASE UNCHANGED vars
  BY <1>3 DEF vars, IInv, TypeOK, OnReclaimed, HolderKeepsFile, NoLeftover, OnlyDeadIsClaimed,
              ProbeIsFresh, MoveIsSafe, GoneIsGone, At, Holds, Dead, Ended
<1> QED BY <1>1, <1>2, <1>3 DEF Next

-----------------------------------------------------------------------------

(* The inductive invariant holds throughout, for any number of calls and   *)
(* processes, deaths and reused pids included.                             *)
THEOREM Invariance ==
  ASSUME ~ExitInProbe
  PROVE  Spec => []IInv
<1>1. IInv /\ [Next]_vars => IInv'
  BY NextStep
<1> QED BY <1>1, InitIInv, PTL DEF Spec

(* The variables of flock() keep their types. *)
THEOREM TypeCorrect ==
  ASSUME ~ExitInProbe
  PROVE  Spec => []TypeOK
<1>1. IInv => TypeOK
  BY DEF IInv
<1> QED BY <1>1, Invariance, PTL

(* Two calls never hold the lock, the steal mutex or the level-2 mutex of  *)
(* the same path together (flock.ts:202, 180-187, 139-142).                *)
THEOREM Exclusion ==
  ASSUME ~ExitInProbe
  PROVE  Spec => []MutualExclusion
<1>1. IInv => MutualExclusion
  BY Exclusive DEF IInv
<1> QED BY <1>1, Invariance, PTL

(* A live holder's lock file is never taken away from it, only the lock of *)
(* a dead call is ever claimed, and a call that ends by itself leaves no   *)
(* lock file behind (flock.ts:109-118, 139-142, 157, 198).                 *)
THEOREM FilesFollowHolders ==
  ASSUME ~ExitInProbe
  PROVE  Spec => [](HolderKeepsFile /\ OnlyDeadIsClaimed /\ NoLeftover)
<1>1. IInv => HolderKeepsFile /\ OnlyDeadIsClaimed /\ NoLeftover
  BY DEF IInv
<1> QED BY <1>1, Invariance, PTL

-----------------------------------------------------------------------------
(* FileLock implements Mutex. *)

LEMMA AbstractInit == Init => Abstract!Init
BY DEF Init, Abstract!Init, MutexStatus, StatusOf, Ended, Holds, Reclaiming, Releasing

(* A step of one call changes the status of that call alone. *)
LEMMA OneStatus ==
  ASSUME NEW c \in Calls,
         \A d \in Calls \ {c} : pc'[d] = pc[d] /\ on'[d] = on[d]
  PROVE  MutexStatus' = [MutexStatus EXCEPT ![c] = StatusOf(c)']
<1>1. \A d \in Calls \ {c} : StatusOf(d)' = StatusOf(d)
  BY DEF StatusOf, Ended, Holds
<1> QED BY <1>1 DEF MutexStatus

(* Taking the lock, giving up or releasing it is a step of Mutex.          *)
LEMMA AbstractStep ==
  ASSUME IInv, [Next]_vars
  PROVE  [Abstract!Next]_MutexStatus
<1> USE CallsAssumption DEF IInv
<1>1. ASSUME NEW c \in Calls, Create(c, "main")
      PROVE  Abstract!Acquire(c)
  <2>1. \A d \in Calls : MutexStatus[d] # "holding"
    BY <1>1 DEF MutexStatus, StatusOf, HolderKeepsFile, Holds, Create, Level
  <2>2. StatusOf(c) = "waiting" /\ StatusOf(c)' = "holding"
    BY <1>1 DEF StatusOf, TypeOK, Create, Won, Goto, At, Ended, Holds, Reclaiming, Releasing
  <2>3. \A d \in Calls \ {c} : pc'[d] = pc[d] /\ on'[d] = on[d]
    BY <1>1 DEF TypeOK, Create, Won, Goto
  <2>4. MutexStatus' = [MutexStatus EXCEPT ![c] = "holding"]
    BY <2>2, <2>3, OneStatus
  <2> QED BY <2>1, <2>2, <2>4 DEF Abstract!Acquire, Abstract!Free, MutexStatus
<1>2. ASSUME NEW c \in Calls, Release(c) \/ GiveUp(c)
      PROVE  Abstract!Finish(c)
  <2>1. StatusOf(c) # "over" /\ StatusOf(c)' = "over"
    BY <1>2 DEF StatusOf, TypeOK, Release, GiveUp, Goto, At, Ended, Holds, Reclaiming, Releasing
  <2>2. \A d \in Calls \ {c} : pc'[d] = pc[d] /\ on'[d] = on[d]
    BY <1>2 DEF TypeOK, Release, GiveUp, Goto
  <2>3. MutexStatus' = [MutexStatus EXCEPT ![c] = "over"]
    BY <2>1, <2>2, OneStatus
  <2> QED BY <2>1, <2>3 DEF Abstract!Finish, MutexStatus
<1>3. ASSUME NEW c \in Calls, Call(c) \/ TryAgain(c)
      PROVE  UNCHANGED MutexStatus
  <2>1. \A d \in Calls : StatusOf(d)' = StatusOf(d)
    BY <1>3 DEF StatusOf, TypeOK, Call, TryAgain, Goto, At, Ended, Holds, Reclaiming, Releasing
  <2> QED BY <2>1 DEF MutexStatus
<1>4. ASSUME NEW c \in Calls, NEW l \in Reclaimed,
             Look(c, l) \/ Read(c, l) \/ Probe(c, l) \/ Move(c, l) \/ Settle(c, l)
      PROVE  UNCHANGED MutexStatus
  <2>1. \A d \in Calls : StatusOf(d)' = StatusOf(d)
    BY <1>4 DEF StatusOf, TypeOK, Look, Read, Probe, Move, Settle, Goto, At, Ended, Holds,
       Reclaiming, Releasing, Guard, Reclaimed
  <2> QED BY <2>1 DEF MutexStatus
<1>5. ASSUME NEW c \in Calls, NEW l \in Level,
             (Create(c, l) /\ l # "main") \/ Contend(c, l) \/ CheckToken(c, l) \/ Unlink(c, l)
      PROVE  UNCHANGED MutexStatus
  <2>1. \A d \in Calls : StatusOf(d)' = StatusOf(d)
    BY <1>5 DEF StatusOf, TypeOK, Create, Won, Contend, CheckToken, Unlink, Released, NextRound,
       Goto, At, Ended, Holds, Reclaiming, Releasing, Guard, Reclaimed, Level
  <2> QED BY <2>1 DEF MutexStatus
<1>6. ASSUME NEW p \in Pids, Exit(p)
      PROVE  \E C \in SUBSET Calls : Abstract!Vanish(C)
  <2> DEFINE C == {c \in Calls : PidOf[c] = p /\ pc[c] # "idle"}
  <2>1. \A c \in Calls : StatusOf(c)' = IF c \in C THEN "over" ELSE StatusOf(c)
    BY <1>6 DEF StatusOf, TypeOK, Exit, Ended, Holds, Reclaiming, Releasing
  <2>2. Abstract!Vanish(C)
    BY <2>1 DEF Abstract!Vanish, MutexStatus
  <2> QED BY <2>2
<1>7. ASSUME (\E p \in Pids : ReusePid(p)) \/ UNCHANGED vars
      PROVE  UNCHANGED MutexStatus
  BY <1>7 DEF ReusePid, vars, MutexStatus, StatusOf, Ended, Holds
<1> QED BY <1>1, <1>2, <1>3, <1>4, <1>5, <1>6, <1>7 DEF Next, Step, Abstract!Next, Level

(* flock() is an exclusive lock: every behaviour of the lock-file protocol,*)
(* seen through who holds the main lock, is one of Mutex (flock.ts:202).   *)
THEOREM Refinement ==
  ASSUME ~ExitInProbe
  PROVE  Spec => ImplementsMutex
<1>1. IInv /\ [Next]_vars => [Abstract!Next]_MutexStatus
  BY AbstractStep
<1> QED BY <1>1, AbstractInit, Invariance, PTL DEF Spec, ImplementsMutex, Abstract!Spec
=============================================================================

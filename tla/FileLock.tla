------------------------------ MODULE FileLock ------------------------------
(***************************************************************************)
(* src/utils/flock.ts: the advisory lock file every reviewgate hook process*)
(* takes (the gate lock, the state lock, the ledger and brain locks).      *)
(*                                                                         *)
(* A lock file is created by link(), so it is only ever seen complete: it  *)
(* names the pid and the token of the call that made it.  A lock whose pid *)
(* is dead may be taken away by a reclaimer, which works under a second    *)
(* lock file (".steal"); a ".steal" left by a dead reclaimer is taken away *)
(* under a third one (".steal.2"), which is never taken away.              *)
(*                                                                         *)
(* One element of Calls is one call of flock(): it has a token of its own. *)
(* The steal and level-2 tokens a call makes are named by the call, too: a *)
(* call has at most one file of each kind at a time.  A process can make   *)
(* several calls (PidOf); when it dies, all of them stop.  Its pid can be  *)
(* given to an unrelated process later.                                    *)
(***************************************************************************)
EXTENDS Naturals

CONSTANTS
  Calls,          \* the calls of flock() on one path, by all processes
  Pids,           \* process ids
  PidOf,          \* the process that makes each call
  None,           \* no file
  StealAttempts,  \* rounds of acquireStealMutex (4 in the code)
  ExitInProbe     \* may a process end between another one's reading its pid
                  \* from a lock file and probing that pid with kill(pid, 0)?

ASSUME CallsAssumption == /\ PidOf \in [Calls -> Pids]
                          /\ None \notin Calls
ASSUME AttemptsAssumption == StealAttempts \in Nat \ {0}
ASSUME ProbeAssumption == ExitInProbe \in BOOLEAN

VARIABLES
  file,     \* file[l]    : the call whose token is in the lock file, or None
  pc,       \* pc[c]      : what call c does next ...
  on,       \* on[c]      : ... and to which lock
  seen,     \* seen[c]    : the token isReclaimable() has read
  claimed,  \* claimed[c] : the token in the private file c renamed a lock to
  tries,    \* tries[c]   : rounds of acquireStealMutex used up
  alive     \* alive[p]   : does pid p exist

vars == <<file, pc, on, seen, claimed, tries, alive>>

(* The lock file, the steal mutex, and the level-2 mutex. *)
Level == {"main", "steal", "l2"}

(* The files a reclaimer may take away, and the lock it must hold to. *)
Reclaimed == {"main", "steal"}
Guard(l) == IF l = "main" THEN "steal" ELSE "l2"

Reclaiming == {"read", "probe", "move", "settle"}
Releasing == {"check", "unlink"}
Stage == {"idle", "create", "look", "again", "use", "over", "dead"}
           \cup Reclaiming \cup Releasing

Goto(c, stage, l) == /\ pc' = [pc EXCEPT ![c] = stage]
                     /\ on' = [on EXCEPT ![c] = l]
At(c, stage, l) == pc[c] = stage /\ on[c] = l

Dead(c) == pc[c] = "dead"
Ended(c) == pc[c] \in {"over", "dead"}

(* Mutant: any lock that is there is fair game, dead holder or not. *)
Reclaimable_Any(x) == x # None

(* isReclaimable: true only if the file is there and its pid is gone. *)
Reclaimable(x) == x # None /\ ~alive[PidOf[x]]

-----------------------------------------------------------------------------

Init == /\ file = [l \in Level |-> None]
        /\ pc = [c \in Calls |-> "idle"]
        /\ on = [c \in Calls |-> "main"]
        /\ seen = [c \in Calls |-> None]
        /\ claimed = [c \in Calls |-> None]
        /\ tries = [c \in Calls |-> 0]
        /\ alive = [p \in Pids |-> TRUE]

(* A process calls flock(). *)
Call(c) == /\ pc[c] = "idle"
           /\ alive[PidOf[c]]
           /\ Goto(c, "create", "main")
           /\ UNCHANGED <<file, seen, claimed, tries, alive>>

(* What a call does as soon as it has lock l: use it, or look at the lock  *)
(* that it guards.                                                         *)
Won(c, l) == \/ l = "main"  /\ Goto(c, "use", "main")
             \/ l = "steal" /\ Goto(c, "read", "main")
             \/ l = "l2"    /\ Goto(c, "read", "steal")

(* acquireStealMutex goes round again, or gives up and flock() waits. *)
NextRound(c) ==
  \/ /\ tries[c] + 1 < StealAttempts
     /\ Goto(c, "create", "steal")
     /\ tries' = [tries EXCEPT ![c] = @ + 1]
  \/ /\ tries[c] + 1 >= StealAttempts
     /\ Goto(c, "again", "main")
     /\ tries' = [tries EXCEPT ![c] = 0]

(* tryCreate: link() makes the file ... *)
Create(c, l) ==
  /\ At(c, "create", l)
  /\ file[l] = None
  /\ file' = [file EXCEPT ![l] = c]
  /\ Won(c, l)
  /\ UNCHANGED <<seen, claimed, tries, alive>>

(* ... or finds that it is there. *)
Contend(c, l) ==
  /\ At(c, "create", l)
  /\ file[l] # None
  /\ \/ l \in Reclaimed /\ Goto(c, "look", l) /\ UNCHANGED tries
     \/ l = "l2" /\ NextRound(c)
  /\ UNCHANGED <<file, seen, claimed, alive>>

(* Mutant: a steal mutex is never recovered, whoever holds it. *)
Look_NoRecovery(c, l) ==
  /\ At(c, "look", l)
  /\ IF l = "main" /\ Reclaimable(file[l])
       THEN Goto(c, "create", "steal")
       ELSE Goto(c, "again", "main")
  /\ tries' = IF Reclaimable(file[l]) THEN tries ELSE [tries EXCEPT ![c] = 0]
  /\ UNCHANGED <<file, seen, claimed, alive>>

(* The unguarded isReclaimable() of flock() and of acquireStealMutex().    *)
(* One step: all that follows from it is checked again under the guard.    *)
Look(c, l) ==
  /\ At(c, "look", l)
  /\ IF Reclaimable(file[l])
       THEN Goto(c, "create", Guard(l))
       ELSE Goto(c, "again", "main")
  /\ tries' = IF Reclaimable(file[l]) THEN tries ELSE [tries EXCEPT ![c] = 0]
  /\ UNCHANGED <<file, seen, claimed, alive>>

(* The end of a round of flock(): it tries again, after a delay or not ... *)
TryAgain(c) ==
  /\ pc[c] = "again"
  /\ Goto(c, "create", "main")
  /\ UNCHANGED <<file, seen, claimed, tries, alive>>

(* ... or its time is up, and it throws FlockTimeoutError. *)
GiveUp(c) ==
  /\ pc[c] = "again"
  /\ Goto(c, "over", "main")
  /\ UNCHANGED <<file, seen, claimed, tries, alive>>

(* isReclaimable() under the guard: readFile ... *)
Read(c, l) ==
  /\ At(c, "read", l)
  /\ seen' = [seen EXCEPT ![c] = file[l]]
  /\ IF file[l] = None
       THEN Goto(c, "check", Guard(l))
       ELSE Goto(c, "probe", l)
  /\ UNCHANGED <<file, claimed, tries, alive>>

(* ... and kill(pid, 0) on the pid that was read. *)
Probe(c, l) ==
  /\ At(c, "probe", l)
  /\ IF Reclaimable(seen[c])
       THEN Goto(c, "move", l)
       ELSE Goto(c, "check", Guard(l))
  /\ UNCHANGED <<file, seen, claimed, tries, alive>>

(* reclaimIfDead: rename the file to a private name, if it is there. *)
Move(c, l) ==
  /\ At(c, "move", l)
  /\ claimed' = [claimed EXCEPT ![c] = file[l]]
  /\ file' = [file EXCEPT ![l] = None]
  /\ IF file[l] = None
       THEN Goto(c, "check", Guard(l))
       ELSE Goto(c, "settle", l)
  /\ UNCHANGED <<seen, tries, alive>>

(* reclaimIfDead: delete the private copy of a dead holder's lock; link a  *)
(* live one back, unless the name is taken again (the copy stays behind).  *)
Settle(c, l) ==
  /\ At(c, "settle", l)
  /\ file' = IF ~Reclaimable(claimed[c]) /\ file[l] = None
               THEN [file EXCEPT ![l] = claimed[c]]
               ELSE file
  /\ claimed' = [claimed EXCEPT ![c] = None]
  /\ Goto(c, "check", Guard(l))
  /\ UNCHANGED <<seen, tries, alive>>

(* The holder of the main lock has done its work and calls release(). *)
Release(c) ==
  /\ pc[c] = "use"
  /\ Goto(c, "check", "main")
  /\ UNCHANGED <<file, seen, claimed, tries, alive>>

(* Where a call goes once it has released lock l. *)
Released(c, l) ==
  \/ l = "main" /\ Goto(c, "over", "main") /\ UNCHANGED tries
  \/ l = "steal" /\ Goto(c, "again", "main") /\ tries' = [tries EXCEPT ![c] = 0]
  \/ l = "l2" /\ NextRound(c)

(* releaseOwned: read the token; only the call's own is deleted ... *)
CheckToken(c, l) ==
  /\ At(c, "check", l)
  /\ \/ file[l] = c /\ Goto(c, "unlink", l) /\ UNCHANGED tries
     \/ file[l] # c /\ Released(c, l)
  /\ UNCHANGED <<file, seen, claimed, alive>>

(* ... by unlink(), whatever the file holds by then. *)
Unlink(c, l) ==
  /\ At(c, "unlink", l)
  /\ file' = [file EXCEPT ![l] = None]
  /\ Released(c, l)
  /\ UNCHANGED <<seen, claimed, alive>>

(* Process p ends or is killed: every call it was making stops there and   *)
(* leaves its files behind.                                                *)
Exit(p) ==
  /\ alive[p]
  /\ \/ ExitInProbe
     \/ \A c \in Calls : pc[c] = "probe" /\ PidOf[c] # p => PidOf[seen[c]] # p
  /\ alive' = [alive EXCEPT ![p] = FALSE]
  /\ pc' = [c \in Calls |->
              IF PidOf[c] = p /\ pc[c] # "idle" /\ ~Ended(c) THEN "dead" ELSE pc[c]]
  /\ on' = [c \in Calls |-> IF PidOf[c] = p THEN "main" ELSE on[c]]
  /\ UNCHANGED <<file, seen, claimed, tries>>

(* The pid of a process that is gone is given to a new one. *)
ReusePid(p) ==
  /\ ~alive[p]
  /\ alive' = [alive EXCEPT ![p] = TRUE]
  /\ UNCHANGED <<file, pc, on, seen, claimed, tries>>

Step(c) ==
  \/ TryAgain(c)
  \/ GiveUp(c)
  \/ Release(c)
  \/ \E l \in Level : \/ Create(c, l)
                      \/ Contend(c, l)
                      \/ CheckToken(c, l)
                      \/ Unlink(c, l)
  \/ \E l \in Reclaimed : \/ Look(c, l)
                          \/ Read(c, l)
                          \/ Probe(c, l)
                          \/ Move(c, l)
                          \/ Settle(c, l)

Next == \/ \E c \in Calls : Call(c) \/ Step(c)
        \/ \E p \in Pids : Exit(p) \/ ReusePid(p)

Spec == Init /\ [][Next]_vars

(* Every process is scheduled; none has to end, and no call has to give up. *)
Progress(c) == (Step(c) \/ Call(c)) /\ ~GiveUp(c)
FairSpec == Spec /\ \A c \in Calls : WF_vars(Progress(c))

-----------------------------------------------------------------------------

TypeOK == /\ file \in [Level -> Calls \cup {None}]
          /\ pc \in [Calls -> Stage]
          /\ on \in [Calls -> Level]
          /\ seen \in [Calls -> Calls \cup {None}]
          /\ claimed \in [Calls -> Calls \cup {None}]
          /\ tries \in [Calls -> 0 .. StealAttempts - 1]
          /\ alive \in [Pids -> BOOLEAN]

(* The stages in which a call holds lock l. *)
Holds(c, l) ==
  \/ pc[c] = "use" /\ l = "main"
  \/ pc[c] \in Reclaiming /\ l = Guard(on[c])
  \/ pc[c] \in Releasing /\ l = on[c]

(* "Cross-platform exclusive lock" (flock.ts:202): no two calls hold the   *)
(* main lock, the steal mutex or the level-2 mutex at the same time.       *)
MutualExclusion ==
  \A l \in Level : \A c, d \in Calls : Holds(c, l) /\ Holds(d, l) => c = d

(* A holder's lock file stays in place while it holds the lock: nobody     *)
(* takes a live holder's lock away, and so no release deletes a stranger's *)
(* (flock.ts:109-118, 214-217).                                            *)
HolderKeepsFile ==
  \A l \in Level : \A c \in Calls : Holds(c, l) => file[l] = c

(* Only a dead call's file is ever taken out of the way (flock.ts:139-142).*)
OnlyDeadIsClaimed ==
  \A c \in Calls : claimed[c] # None => Dead(claimed[c])

(* A file outlives its call only if the call's process died: no call that  *)
(* ended by itself leaves a lock behind, on any path (flock.ts:157, 198).  *)
NoLeftover ==
  \A l \in Level : file[l] # None => Holds(file[l], l) \/ Dead(file[l])

(* A dead holder's lock does not last: it is reclaimed as long as a call   *)
(* keeps trying, unless a reclaimer died and left ".2" behind, or the pid  *)
(* of a dead call was given to a new process (flock.ts:61-68, 143-149).    *)
Level2Left == file["l2"] # None /\ Dead(file["l2"])
PidReused == \E c \in Calls : Dead(c) /\ alive[PidOf[c]]
NobodyTries == \A c \in Calls : pc[c] = "idle" \/ Ended(c)
DeadLockReclaimed ==
  \A d \in Calls :
    file["main"] = d /\ Dead(d)
      ~> file["main"] # d \/ Level2Left \/ PidReused \/ NobodyTries

(* FileLock implements Mutex. *)
StatusOf(c) == IF pc[c] = "use" THEN "holding"
               ELSE IF Ended(c) \/ Holds(c, "main") THEN "over"
               ELSE "waiting"
MutexStatus == [c \in Calls |-> StatusOf(c)]
Abstract == INSTANCE Mutex WITH status <- MutexStatus
ImplementsMutex == Abstract!Spec
=============================================================================

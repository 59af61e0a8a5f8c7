---------------------------- MODULE ControlPlane ----------------------------
(***************************************************************************)
(* src/config/control-plane.ts and its callers: which policy the gate is   *)
(* under.  A checkout has one approved policy, the last-known-good.  When  *)
(* the configuration files say something else, that is a candidate: the    *)
(* code is reviewed under the approved policy, and the candidate becomes   *)
(* the policy by itself if it is only stricter, by a human otherwise.      *)
(*                                                                         *)
(* Calls are processes: stops, session starts and status commands, human   *)
(* approvals, init.  Every access of a shared file is a step.  A section   *)
(* under the control-plane lock is one step, since only its holders write  *)
(* the state: what a section reads of the configuration could as well      *)
(* change right after it.  The configuration's layers are one value, src,  *)
(* and what version v of the program makes of it is Effective[v][src].     *)
(***************************************************************************)
EXTENDS Integers, FiniteSets

CONSTANTS
  Calls,          \* processes
  Humans,         \* those that a human may run
  None,           \* no value, no file
  Paths, Others,  \* values of path lists, and of all that has no order
  Sources,        \* what the configuration files can contain
  ProjectSources, \* those with a reviewgate.config.ts in the checkout
  Starter,        \* the one that init writes
  Cloned,         \* those that a checkout may come with
  MaxVersion,     \* bound: versions of the program
  Mains,          \* what main may be at first
  Invalid,        \* what is made of a configuration that does not load
  Effective,      \* what is made of each, by each version
  Windows,        \* which of the situations below may arise
  MaxEvents       \* bound: what happens to the checkout from outside

(* Situations in which the policy in force can end up approved by nobody.  *)
Situations ==
  {"upgrade in call",    \* the program is upgraded while calls run
   "config appears",     \* a project's configuration appears at first contact
   "deleted in resolve"} \* the state is deleted after a call has read it

(* The settings the code knows an order of, and the rest of them. *)
Policy == [mode : 0..2, soft : 0..2, writable : SUBSET Paths, denied : SUBSET Paths,
           rest : Others]

(* A candidate, and the content of control-plane.json. *)
Candidates == [source : Sources, effective : Policy \cup {Invalid}, reviewed : BOOLEAN,
               class : {"equivalent", "strengthening", "approval-required", "invalid"}]
States == [source : Sources, config : Policy, pending : Candidates \cup {None}]

ASSUME ControlPlaneAssumption ==
  /\ None \notin Calls \cup Sources \cup Policy \cup Candidates \cup States \cup {Invalid}
  /\ Humans \subseteq Calls /\ Invalid \notin Policy
  /\ ProjectSources \subseteq Sources /\ Starter \in ProjectSources
  /\ Cloned \subseteq Sources /\ Mains \subseteq Policy \cup {None}
  /\ MaxVersion \in Nat \ {0} /\ MaxEvents \in Nat
  /\ Effective \in [1..MaxVersion -> [Sources -> Policy \cup {Invalid}]]
  /\ Windows \subseteq Situations

VARIABLES
  src,      \* the configuration on disk
  version,  \* the installed version of the program
  hook,     \* has init installed the managed hook
  lkg,      \* control-plane.json, None if it is missing
  main,     \* the policy approved in the main checkout, if this is a worktree of it
  gate,     \* who holds the gate lock
  call,     \* call[c]: what call c is, where it is and what it remembers
  vouched,  \* history: what a human vouched for last, or what needs nobody to
  passed,   \* history: <<policy, candidate>> where the code passed under the policy
  loud,     \* history: blocking notices given since the candidate was recorded
  events

ghosts == <<vouched, passed, loud>>
world == <<src, version, hook, main, events>>
vars == <<world, lkg, gate, call, ghosts>>

May(situation) == situation \in Windows

-----------------------------------------------------------------------------
(* analysePolicyChange. *)

ChangedPaths(a, b) == {path \in DOMAIN a : a[path] # b[path]}

SafeStrengthening(path, a, b) ==
  \/ path \in {"mode", "soft"} /\ b[path] > a[path]
  \/ path = "writable" /\ b.writable \subseteq a.writable
  \/ path = "denied" /\ a.denied \subseteq b.denied

Classify(a, b) ==
  IF a = b THEN "equivalent"
  ELSE IF \A path \in ChangedPaths(a, b) : SafeStrengthening(path, a, b)
       THEN "strengthening"
       ELSE "approval-required"

(* What is recorded of the candidate that source s, read as e, is to the    *)
(* approved policy a.                                                       *)
Candidate(s, e, a) ==
  [source |-> s, effective |-> e, reviewed |-> FALSE,
   class |-> IF e = Invalid THEN "invalid" ELSE Classify(a, e)]

BaseState(s, e) == [source |-> s, config |-> e, pending |-> None]

SameCandidate(p, q) ==
  /\ p # None /\ q # None
  /\ p.source = q.source /\ p.effective = q.effective

Loads(e) == e # Invalid

-----------------------------------------------------------------------------
(* Calls. *)

Idle == [kind |-> "none", pc |-> "idle", ver |-> 1, source |-> None, policy |-> None,
         approved |-> None, change |-> None, shown |-> None]

At(c, where) == call[c].pc = where
Set(c, record) == call' = [call EXCEPT ![c] = record]
Goto(c, where) == Set(c, [call[c] EXCEPT !.pc = where])
Release(c) == gate' = IF gate = c THEN None ELSE gate
End(c) == Set(c, Idle) /\ Release(c)

(* What call c makes of the configuration at this moment. *)
Read(c) == Effective[call[c].ver][src]

Start(c, kind, where) ==
  /\ At(c, "idle")
  /\ Set(c, [Idle EXCEPT !.kind = kind, !.pc = where, !.ver = version])

(* Mutant: every worktree of an approved checkout is armed. *)
Inherits_Any(v) == main # None /\ Loads(Effective[v][src])

(* inheritedWorktreeApproval *)
Inherits(v) == main # None /\ Effective[v][src] = main

Init ==
  /\ src \in Cloned /\ version = 1 /\ hook = FALSE
  /\ main \in Mains /\ lkg = None /\ gate = None
  /\ call = [c \in Calls |-> Idle]
  /\ vouched = None /\ passed = {} /\ loud = 0 /\ events = 0

(* probeArming: a stop or a session start does nothing in a checkout that   *)
(* nobody has armed.                                                        *)
Probe(c) ==
  /\ lkg # None \/ hook \/ Inherits(version)
  /\ \E kind \in {"stop", "status"} : Start(c, kind, "inspect")
  /\ UNCHANGED <<world, lkg, gate, ghosts>>

-----------------------------------------------------------------------------
(* resolveControlPlaneConfig: which policy is in force, and what is pending.*)

Inspect(c) ==
  /\ At(c, "inspect")
  /\ Set(c, [call[c] EXCEPT !.source = src, !.pc = "approved"])
  /\ UNCHANGED <<world, lkg, gate, ghosts>>

ReadApproved(c) ==
  /\ At(c, "approved")
  /\ \/ /\ lkg # None
        /\ Set(c, [call[c] EXCEPT !.approved = lkg, !.pc = "load"])
        /\ UNCHANGED gate
     \/ lkg = None /\ ~hook /\ Goto(c, "first") /\ UNCHANGED gate
     \/ lkg = None /\ hook /\ End(c)
  /\ UNCHANGED <<world, lkg, ghosts>>

(* First contact.  A project's configuration is never taken without asking, *)
(* but in a worktree of a checkout that approved the same policy.           *)
FirstContact(c) ==
  /\ At(c, "first")
  /\ \/ /\ Inherits(call[c].ver)
        /\ Set(c, [call[c] EXCEPT !.approved = BaseState(src, Read(c)), !.policy = main,
                                  !.pc = "adopt"])
        /\ UNCHANGED gate
     \/ /\ ~Inherits(call[c].ver) /\ call[c].source \in ProjectSources
        /\ End(c)
     \/ /\ ~Inherits(call[c].ver) /\ call[c].source \notin ProjectSources
        /\ Goto(c, "bootstrap")
        /\ UNCHANGED gate
  /\ UNCHANGED <<world, lkg, ghosts>>

(* adoptInheritedBaseline *)
Adopt(c) ==
  /\ At(c, "adopt")
  /\ lkg' = IF lkg = None THEN call[c].approved ELSE lkg
  /\ vouched' = IF lkg = None THEN call[c].policy ELSE vouched
  /\ Set(c, [call[c] EXCEPT !.approved = lkg', !.policy = None, !.pc = "load"])
  /\ UNCHANGED <<world, gate, passed, loud>>

(* bootstrapControlPlane, for a checkout without a configuration of its own *)
Bootstrap(c) ==
  /\ At(c, "bootstrap")
  /\ \/ /\ lkg = None /\ ~Loads(Read(c))
        /\ End(c)
        /\ UNCHANGED <<lkg, vouched>>
     \/ /\ lkg # None \/ Loads(Read(c))
        /\ lkg' = IF lkg = None THEN BaseState(src, Read(c)) ELSE lkg
        /\ vouched' = IF lkg = None /\ src \notin ProjectSources THEN Read(c) ELSE vouched
        /\ Set(c, [call[c] EXCEPT !.approved = lkg', !.pc = "load"])
        /\ UNCHANGED gate
  /\ UNCHANGED <<world, passed, loud>>

(* The configuration is read again.  If it has changed since, or does not   *)
(* load, the candidate is recorded as invalid, which is what the handler of *)
(* every error of this part does (Fails).                                   *)
Load(c) ==
  LET k == call[c]
      found == IF src = k.source THEN Read(c) ELSE Invalid
  IN  /\ At(c, "load")
      /\ IF found = k.approved.config /\ k.source = k.approved.source
         THEN Goto(c, "clear")
         ELSE Set(c, [k EXCEPT !.change = Candidate(k.source, found, k.approved.config),
                               !.pc = "persist"])
      /\ UNCHANGED <<world, lkg, gate, ghosts>>

Fails(c) ==
  Set(c, [call[c] EXCEPT !.change = Candidate(call[c].source, Invalid, None),
                         !.pc = "persist"])

(* Where a resolution leads: a status command shows it and ends; a human is *)
(* shown a candidate that may be approved; an approval goes on if it is the *)
(* candidate that the human was shown.                                      *)
Approvable(p) == p # None /\ p.class = "approval-required" /\ p.reviewed
Confirmed(p, shown) ==
  p # None /\ p.class # "invalid" /\ p.reviewed /\ p.effective = shown

Resolved(c, p, policy) ==
  LET k == [call[c] EXCEPT !.source = None, !.approved = None, !.change = p,
                           !.policy = policy]
  IN  \/ k.kind = "stop" /\ Set(c, [k EXCEPT !.pc = "probe"]) /\ UNCHANGED gate
      \/ /\ k.kind = "show" /\ Approvable(p)
         /\ Set(c, [Idle EXCEPT !.kind = "approve", !.pc = "shown", !.ver = k.ver,
                                !.shown = p.effective])
         /\ UNCHANGED gate
      \/ /\ k.kind = "approve" /\ Confirmed(p, k.shown)
         /\ Set(c, [k EXCEPT !.pc = "recheck"]) /\ UNCHANGED gate
      \/ /\ \/ k.kind = "status"
            \/ k.kind = "show" /\ ~Approvable(p)
            \/ k.kind = "approve" /\ ~Confirmed(p, k.shown)
         /\ End(c)

(* clearRevertedCandidate: the configuration is the approved one again.     *)
(* Without a candidate there is nothing to clear, unless an edit has left   *)
(* control-plane.flag, which only makes the code look again: both can be.   *)
Clear(c) ==
  LET k == call[c]
  IN  /\ At(c, "clear")
      /\ \/ /\ k.approved.pending = None
            /\ Resolved(c, None, k.approved.config)
            /\ UNCHANGED <<lkg, loud>>
         \/ /\ lkg # None /\ lkg.source = k.approved.source
            /\ lkg' = [lkg EXCEPT !.pending = None]
            /\ loud' = 0
            /\ Resolved(c, None, lkg.config)
         \/ /\ lkg # None => lkg.source # k.approved.source
            /\ Fails(c)
            /\ UNCHANGED <<lkg, gate, loud>>
      /\ UNCHANGED <<world, vouched, passed>>

(* A candidate seen again keeps the mark that the code passed with it.      *)
Carried(p, old) ==
  IF SameCandidate(p, old) THEN [p EXCEPT !.reviewed = old.reviewed] ELSE p

StillApproved(state, policy) == state.config = policy

(* persistPending: fails if another policy has been approved, the second    *)
(* time for good.  A state that is missing is written again as it was read. *)
Persist(c) ==
  LET k == call[c]
      current == IF lkg = None THEN k.approved ELSE lkg
      next == Carried(k.change, current.pending)
  IN  /\ At(c, "persist")
      /\ \/ /\ StillApproved(current, k.approved.config)
            /\ lkg' = [current EXCEPT !.pending = next]
            /\ loud' = IF SameCandidate(next, current.pending) THEN loud ELSE 0
            /\ Resolved(c, next, k.approved.config)
         \/ /\ ~StillApproved(current, k.approved.config) /\ k.change.class # "invalid"
            /\ Fails(c)
            /\ UNCHANGED <<lkg, gate, loud>>
         \/ /\ ~StillApproved(current, k.approved.config) /\ k.change.class = "invalid"
            /\ End(c)
            /\ UNCHANGED <<lkg, loud>>
      /\ UNCHANGED <<world, vouched, passed>>

-----------------------------------------------------------------------------
(* A stop: the review, and what it settles (finalizeControlPlaneReview).    *)

ForcesReview(p) == p # None /\ (p.class = "invalid" \/ ~p.reviewed)

(* Nothing to review: the stop ends without the lock. *)
Skip(c) ==
  /\ At(c, "probe") /\ ~ForcesReview(call[c].change)
  /\ End(c)
  /\ UNCHANGED <<world, lkg, ghosts>>

TakeGate(c) ==
  /\ At(c, "probe") /\ gate = None
  /\ gate' = c /\ Goto(c, "review")
  /\ UNCHANGED <<world, lkg, ghosts>>

(* The gate lock is contended: the stop is deferred. *)
Defer(c) ==
  /\ At(c, "probe") /\ gate # None
  /\ End(c)
  /\ UNCHANGED <<world, lkg, ghosts>>

(* The code passes under the policy that was resolved, also if the pass is  *)
(* announced by blocking the stop.                                          *)
PassReview(c) ==
  LET p == call[c].change
  IN  /\ At(c, "review") /\ p # None /\ p.class # "invalid"
      /\ Goto(c, "finalize")
      /\ passed' = passed \cup {<<call[c].policy, p.source, p.effective>>}
      /\ UNCHANGED <<world, lkg, gate, vouched, loud>>

(* The review ends otherwise, or there is no candidate that it could settle:*)
(* nothing is written.                                                      *)
EndReview(c) ==
  /\ At(c, "review")
  /\ End(c)
  /\ UNCHANGED <<world, lkg, ghosts>>

(* Is the configuration still the candidate that was resolved? *)
Observed(c) ==
  src = call[c].change.source /\ Read(c) = call[c].change.effective

Finalize(c) ==
  /\ At(c, "finalize")
  /\ \/ Observed(c) /\ Goto(c, "settle") /\ UNCHANGED gate
     \/ ~Observed(c) /\ End(c)
  /\ UNCHANGED <<world, lkg, ghosts>>

Settleable(c) ==
  /\ lkg # None /\ lkg.config = call[c].policy
  /\ lkg.pending # None /\ lkg.pending.source = call[c].change.source

Adoptable(p) == p.class \in {"equivalent", "strengthening"}

(* Under the lock: a stricter policy is adopted.  Any other candidate is    *)
(* marked as one the code has passed with, and the first time the stop is   *)
(* blocked with a notice.                                                   *)
Settle(c) ==
  LET p == call[c].change
  IN  /\ At(c, "settle")
      /\ End(c)
      /\ \/ /\ Settleable(c) /\ Adoptable(lkg.pending)
            /\ lkg' = BaseState(p.source, p.effective)
            /\ loud' = 0
         \/ /\ Settleable(c) /\ ~Adoptable(lkg.pending) /\ ~lkg.pending.reviewed
            /\ lkg' = [lkg EXCEPT !.pending.reviewed = TRUE]
            /\ loud' = loud + 1
         \/ /\ Settleable(c) => ~Adoptable(lkg.pending) /\ lkg.pending.reviewed
            /\ UNCHANGED <<lkg, loud>>
      /\ UNCHANGED <<world, vouched, passed>>

-----------------------------------------------------------------------------
(* A human at a terminal: controlPlaneStatus shows what is to be approved,  *)
(* approveControlPlane takes the answer.                                    *)

ShowCandidate(c) ==
  /\ c \in Humans /\ lkg # None
  /\ Start(c, "show", "inspect")
  /\ UNCHANGED <<world, lkg, gate, ghosts>>

ShowFirst(c) ==
  /\ c \in Humans /\ lkg = None /\ Loads(Effective[version][src])
  /\ At(c, "idle")
  /\ Set(c, [Idle EXCEPT !.kind = "approve", !.pc = "shown", !.ver = version,
                         !.shown = Effective[version][src]])
  /\ UNCHANGED <<world, lkg, gate, ghosts>>

(* The answer is right: without an approved policy what was shown is taken  *)
(* if it is still there; otherwise the candidate is resolved again.         *)
Confirm(c) ==
  /\ At(c, "shown")
  /\ \/ lkg # None /\ Goto(c, "inspect") /\ UNCHANGED gate
     \/ /\ lkg = None /\ Read(c) = call[c].shown
        /\ Set(c, [call[c] EXCEPT !.source = src, !.pc = "create"])
        /\ UNCHANGED gate
     \/ lkg = None /\ Read(c) # call[c].shown /\ End(c)
  /\ UNCHANGED <<world, lkg, ghosts>>

(* The answer is wrong, or the terminal is closed. *)
Decline(c) ==
  /\ At(c, "shown")
  /\ End(c)
  /\ UNCHANGED <<world, lkg, ghosts>>

Create(c) ==
  LET k == call[c]
      stands == lkg = None /\ src = k.source /\ Read(c) = k.shown
  IN  /\ At(c, "create")
      /\ lkg' = IF stands THEN BaseState(k.source, k.shown) ELSE lkg
      /\ vouched' = IF stands THEN k.shown ELSE vouched
      /\ End(c)
      /\ UNCHANGED <<world, passed, loud>>

Recheck(c) ==
  /\ At(c, "recheck")
  /\ \/ Observed(c) /\ Goto(c, "approve") /\ UNCHANGED gate
     \/ ~Observed(c) /\ End(c)
  /\ UNCHANGED <<world, lkg, ghosts>>

(* Mutant: the candidate is not compared once more under the lock. *)
StillPending_Any(c) == lkg # None

StillPending(c) ==
  LET p == call[c].change
  IN  /\ lkg # None /\ lkg.config = call[c].policy
      /\ SameCandidate(lkg.pending, p)
      /\ lkg.pending.class = p.class /\ lkg.pending.reviewed

Approve(c) ==
  LET p == call[c].change
  IN  /\ At(c, "approve")
      /\ lkg' = IF StillPending(c) THEN BaseState(p.source, p.effective) ELSE lkg
      /\ loud' = IF StillPending(c) THEN 0 ELSE loud
      /\ vouched' = IF StillPending(c) THEN call[c].shown ELSE vouched
      /\ End(c)
      /\ UNCHANGED <<world, passed>>

(* Unless the window is open, no configuration appears in the checkout while*)
(* a call is at its first contact.                                          *)
MayAppear ==
  \/ May("config appears")
  \/ \A c \in Calls : call[c].pc \notin {"approved", "first", "bootstrap"}

(* runInit: installs the hooks, writes a first configuration if there is    *)
(* none, and goes on to take what it finds for approved if nothing has been *)
(* approved yet, but not in an armed checkout that has lost its state.      *)
Install(c) ==
  /\ c \in Humans /\ (src \in ProjectSources \/ MayAppear)
  /\ hook' = TRUE
  /\ src' = IF src \in ProjectSources THEN src ELSE Starter
  /\ IF hook /\ lkg = None THEN At(c, "idle") /\ UNCHANGED call
     ELSE Start(c, "init", "init")
  /\ UNCHANGED <<version, main, events, lkg, gate, ghosts>>

InitBaseline(c) ==
  LET first == lkg = None /\ Loads(Read(c))
  IN  /\ At(c, "init")
      /\ lkg' = IF first THEN BaseState(src, Read(c)) ELSE lkg
      /\ vouched' = IF first THEN Read(c) ELSE vouched
      /\ End(c)
      /\ UNCHANGED <<world, passed, loud>>

-----------------------------------------------------------------------------
(* What happens from outside. *)

Event == events < MaxEvents /\ events' = events + 1

Edit(s) ==
  /\ Event /\ s # src
  /\ s \in ProjectSources => MayAppear
  /\ src' = s
  /\ UNCHANGED <<version, hook, main, lkg, gate, call, ghosts>>

(* A human approves what the main checkout of this worktree says. *)
ApproveMain(s) ==
  /\ Event /\ main # None /\ Effective[version][s] \notin {Invalid, main}
  /\ main' = Effective[version][s]
  /\ UNCHANGED <<src, version, hook, lkg, gate, call, ghosts>>

Upgrade ==
  /\ Event /\ version < MaxVersion
  /\ May("upgrade in call") \/ \A c \in Calls : At(c, "idle")
  /\ version' = version + 1
  /\ UNCHANGED <<src, hook, main, lkg, gate, call, ghosts>>

Delete ==
  /\ Event /\ lkg # None
  /\ May("deleted in resolve") \/ \A c \in Calls : call[c].approved = None
  /\ lkg' = None /\ loud' = 0
  /\ UNCHANGED <<src, version, hook, main, gate, call, vouched, passed>>

(* A call is killed, or runs into a deadline. *)
Die(c) ==
  /\ Event /\ ~At(c, "idle")
  /\ End(c)
  /\ UNCHANGED <<src, version, hook, main, lkg, ghosts>>

(* The control-plane lock is not to be had in time. *)
LockTimesOut(c) ==
  /\ Event
  /\ At(c, "clear") \/ (At(c, "persist") /\ call[c].change.class # "invalid")
  /\ Fails(c)
  /\ UNCHANGED <<src, version, hook, main, lkg, gate, ghosts>>

-----------------------------------------------------------------------------
Resolve(c) == \/ Inspect(c) \/ ReadApproved(c) \/ FirstContact(c) \/ Adopt(c)
              \/ Bootstrap(c) \/ Load(c) \/ Clear(c) \/ Persist(c)

Stop(c) == \/ Skip(c) \/ TakeGate(c) \/ Defer(c) \/ PassReview(c) \/ EndReview(c)
           \/ Finalize(c) \/ Settle(c)

Human(c) == \/ Confirm(c) \/ Decline(c) \/ Create(c) \/ Recheck(c) \/ Approve(c)
            \/ InitBaseline(c)

Next ==
  \/ \E c \in Calls : Resolve(c) \/ Stop(c) \/ Human(c)
  \/ \E c \in Calls : Probe(c) \/ ShowCandidate(c) \/ ShowFirst(c) \/ Install(c)
  \/ \E c \in Calls : Die(c) \/ LockTimesOut(c)
  \/ \E s \in Sources : Edit(s) \/ ApproveMain(s)
  \/ Upgrade \/ Delete

Spec == Init /\ [][Next]_vars

(* Calls run to their end; turns keep ending; a stop that has to review gets*)
(* the gate lock when it is free, and the code passes, again and again.     *)
FairSpec ==
  Spec /\ \A c \in Calls :
            /\ WF_vars(Resolve(c) \/ Stop(c) \/ Human(c))
            /\ SF_vars(Probe(c) /\ call'[c].kind = "stop")
            /\ SF_vars(TakeGate(c) /\ ForcesReview(call[c].change))
            /\ SF_vars(PassReview(c))

-----------------------------------------------------------------------------
(* Properties. *)

Kinds == {"none", "stop", "status", "show", "approve", "init"}
Places == {"idle", "inspect", "approved", "first", "adopt", "bootstrap", "load", "clear",
           "persist", "probe", "review", "finalize", "settle", "shown", "create",
           "recheck", "approve", "init"}
Records == [kind : Kinds, pc : Places, ver : 1..MaxVersion, source : Sources \cup {None},
            policy : Policy \cup {None}, approved : States \cup {None},
            change : Candidates \cup {None}, shown : Policy \cup {None}]

(* The state has its types: no invalid configuration is ever a policy. *)
TypeOK ==
  /\ src \in Sources /\ version \in 1..MaxVersion /\ hook \in BOOLEAN
  /\ main \in Policy \cup {None} /\ lkg \in States \cup {None}
  /\ gate \in Calls \cup {None} /\ call \in [Calls -> Records]
  /\ vouched \in Policy \cup {None}
  /\ passed \subseteq Policy \X Sources \X Policy
  /\ loud \in Nat /\ events \in 0..MaxEvents

(* b is at least as strict as a in everything that has an order, and the    *)
(* same in the rest.                                                        *)
AtLeast(b, a) ==
  /\ b.mode >= a.mode /\ b.soft >= a.soft
  /\ b.writable \subseteq a.writable /\ a.denied \subseteq b.denied
  /\ b.rest = a.rest

(* The policy in force is the one that a human vouched for last (or, in a   *)
(* checkout without a configuration of its own, the user's) or a stricter   *)
(* one, however stops, approvals, edits and deletions interleave.           *)
InForceIsVouched ==
  lkg # None => vouched # None /\ AtLeast(lkg.config, vouched)

(* The policy in force is only replaced after the code has passed under it  *)
(* with exactly this candidate (control-plane.ts:278-280).                  *)
ChangeFollowsPass ==
  [][lkg # None /\ lkg' # None /\ lkg'.config # lkg.config
     => <<lkg.config, lkg'.source, lkg'.config>> \in passed]_vars

(* What is recorded of a candidate is true: its class is its relation to    *)
(* the policy in force, and it is marked only if the code has passed with   *)
(* it under that policy.                                                    *)
PendingIsHonest ==
  lkg # None /\ lkg.pending # None /\ lkg.pending.class # "invalid" =>
    /\ lkg.pending.class = Classify(lkg.config, lkg.pending.effective)
    /\ lkg.pending.reviewed
       => <<lkg.config, lkg.pending.source, lkg.pending.effective>> \in passed

(* A candidate costs the agent one blocking notice (control-plane.ts:653).  *)
NoticeOnce == loud <= 1

=============================================================================

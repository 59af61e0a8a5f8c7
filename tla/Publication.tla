---------------------------- MODULE Publication ----------------------------
(***************************************************************************)
(* Publishing a policy measurement.  `bench policy` reserves the root of   *)
(* an attempt and leaves its artifacts and a bundle there; `stats policy`  *)
(* derives a result from the bundle and two other sources, the rig's       *)
(* manifest and the attested dogfood rows, and puts the result, a report   *)
(* and copies of its sources beside the bundle, a completion marker last.  *)
(* Neither waits for another: directories and hard links that must not     *)
(* exist are what they exclude each other with.                            *)
(*                                                                         *)
(* A directory is told from another by its number and a file by who made   *)
(* it, as the code tells them apart by device and inode; a content is what *)
(* it was derived from.  One file stands for all copies of sources, and    *)
(* one for the result, the report, the rig bundle and the snapshot.        *)
(***************************************************************************)
EXTENDS Naturals, FiniteSets, Sequences, SequencesExt

CONSTANTS
    Benchers,     \* calls of bench policy
    Publishers,   \* calls of stats policy
    None,
    MaxTrouble    \* bound: kills, failed writes, removed roots and edits together

\* What a content was derived from, and a file.
Views == [bench : Benchers \cup {None}, rig : Nat, dogfood : Nat]
Written == [by : Benchers \cup Publishers, what : Views, links : {1, 2}]

ASSUME PublicationAssumption ==
    /\ Benchers \cap Publishers = {}
    /\ None \notin Benchers \cup Publishers \cup Written
    /\ MaxTrouble \in Nat

VARIABLES
    root,         \* the attempt root that is there: a number of its own, or 0
    made,         \* how many there were
    artifacts,    \* the benchers whose artifacts are in it
    files,        \* the other files in it
    lock,         \* .policy-stats-publish in it
    world,        \* the sources outside: 1 as they were registered, 2 not
    bencher,
    publisher,
    trouble       \* how much went wrong

pubVars == <<root, made, artifacts, files, lock, world, bencher, publisher, trouble>>
place == <<root, made, artifacts, files, lock>>

\* The copies of the sources, and what is derived from them, as they are installed.
Outputs == <<"sources", "result">>
Files == {"bundle", "complete"} \cup Range(Outputs)
Sources == {"rig", "dogfood"}
Registered == 1
NoView == [bench |-> None, rig |-> 0, dogfood |-> 0]

\* writeFileIfAbsent links its temporary file into place, then unlinks it.  No
\* reader takes a file that still has two links.
Put(f, by, what) == files' = [files EXCEPT ![f] = [by |-> by, what |-> what, links |-> 2]]
Unlinked(f) == [g \in Files |-> IF g = f /\ files[f] # None THEN [files[f] EXCEPT !.links = 1] ELSE files[g]]
Readable(fs, f) == fs[f] # None /\ fs[f].links = 1

(***************************************************************************)
(* bench policy                                                            *)
(***************************************************************************)

BGoes(b, pc) == bencher' = [bencher EXCEPT ![b].pc = pc]
BEnds(b, exit) == bencher' = [bencher EXCEPT ![b].pc = "done", ![b].exit = exit]

MakeRoot == made' = made + 1 /\ root' = made + 1
\* A write into a root that is gone makes it again.
WithRoot == IF root = 0 THEN MakeRoot ELSE UNCHANGED <<root, made>>

\* The preregistration, the corpus, the configuration that follows from it or the
\* checkout is not what was registered.
Unregistered(b) == BEnds(b, 4) /\ UNCHANGED <<root, made>>

\* The schedule is what was registered, and the root is there to be reserved.
BReserve(b) ==
    /\ bencher[b].pc = "start"
    /\ \/ root # 0 /\ BEnds(b, 2) /\ UNCHANGED <<root, made>>
       \/ Unregistered(b)
       \/ root = 0 /\ MakeRoot /\ bencher' = [bencher EXCEPT ![b].pc = "capture", ![b].root = made + 1]
    /\ UNCHANGED <<artifacts, files, lock, world, publisher, trouble>>

\* removeEmptyOwnedAttempt: the directory is removed without `recursive`, which a
\* runtime may refuse.
GivesUp(b) ==
    /\ BEnds(b, 4)
    /\ \/ UNCHANGED root
       \/ /\ root = bencher[b].root /\ artifacts = {} /\ lock = None
          /\ \A f \in Files : files[f] = None
          /\ root' = 0

\* The profiles have run, for hours: is this still the root that was reserved?
BCaptured(b) ==
    /\ bencher[b].pc = "capture"
    /\ \/ root = bencher[b].root /\ BGoes(b, "artifacts") /\ UNCHANGED root
       \/ GivesUp(b)
    /\ UNCHANGED <<made, artifacts, files, lock, world, publisher, trouble>>

\* Traces, manifests, results and profiles, by their content; directories that are
\* missing are made.  What a write that fails leaves behind is preserved.
BArtifacts(b) ==
    /\ bencher[b].pc = "artifacts"
    /\ \/ artifacts' = artifacts \cup {b} /\ WithRoot /\ BGoes(b, "verify")
       \/ BEnds(b, 4) /\ UNCHANGED <<artifacts, root, made>>
    /\ UNCHANGED <<files, lock, world, publisher, trouble>>

BVerify(b) ==
    /\ bencher[b].pc = "verify"
    /\ IF b \in artifacts THEN BGoes(b, "bundle") ELSE BEnds(b, 4)
    /\ UNCHANGED <<place, world, publisher, trouble>>

BBundle(b) ==
    /\ bencher[b].pc = "bundle"
    /\ IF files["bundle"] # None THEN BEnds(b, 2) /\ UNCHANGED <<root, made, files>>
       ELSE /\ Put("bundle", b, [NoView EXCEPT !.bench = b])
            /\ WithRoot
            /\ BGoes(b, "bundled")
    /\ UNCHANGED <<artifacts, lock, world, publisher, trouble>>

BBundled(b) ==
    /\ bencher[b].pc = "bundled"
    /\ files' = IF files["bundle"] # None /\ files["bundle"].by = b THEN Unlinked("bundle") ELSE files
    /\ BEnds(b, 0)
    /\ UNCHANGED <<root, made, artifacts, lock, world, publisher, trouble>>

(***************************************************************************)
(* stats policy                                                            *)
(***************************************************************************)

Others == <<place, world, bencher, trouble>>
Goes(p, pc) == publisher' = [publisher EXCEPT ![p].pc = pc]
Ends(p, exit) == publisher' = [publisher EXCEPT ![p].pc = "done", ![p].exit = exit]
Backs(p) == Goes(p, "cleanup")
Reads(p, pc, view) == publisher' = [publisher EXCEPT ![p].pc = pc, ![p].view = view]

\* verifyPolicyBenchBundleArtifacts: all that the bundle names is there.
BundleHolds == Readable(files, "bundle") /\ files["bundle"].by \in artifacts
NowThere == [bench |-> files["bundle"].by, rig |-> world.rig, dogfood |-> world.dogfood]

\* assemblePolicyMeasurement reads its sources one after the other; all but the
\* bundle are registered with their hash.
ReadBench(p) ==
    /\ publisher[p].pc = "start"
    /\ IF BundleHolds
       THEN Reads(p, "rig", [publisher[p].view EXCEPT !.bench = files["bundle"].by])
       ELSE Backs(p)
    /\ UNCHANGED Others

ReadRig(p) ==
    /\ publisher[p].pc = "rig"
    /\ IF world.rig = Registered
       THEN Reads(p, "dogfood", [publisher[p].view EXCEPT !.rig = world.rig])
       ELSE Backs(p)
    /\ UNCHANGED Others

ReadDogfood(p) ==
    /\ publisher[p].pc = "dogfood"
    /\ IF world.dogfood = Registered
       THEN Reads(p, "open", [publisher[p].view EXCEPT !.dogfood = world.dogfood])
       ELSE Backs(p)
    /\ UNCHANGED Others

\* The identity of the root is taken, by which it is known from here on.
Open(p) ==
    /\ publisher[p].pc = "open"
    /\ IF root = 0 THEN Backs(p) ELSE publisher' = [publisher EXCEPT ![p].pc = "lock", ![p].root = root]
    /\ UNCHANGED Others

Lock(p) ==
    /\ publisher[p].pc = "lock"
    /\ CASE root = 0 -> Backs(p) /\ UNCHANGED lock
         [] root # 0 /\ lock # None -> Ends(p, 2) /\ UNCHANGED lock
         [] OTHER -> lock' = p /\ Goes(p, "check")
    /\ UNCHANGED <<root, made, artifacts, files, world, bencher, trouble>>

Taken == \E f \in {"complete", "result"} : files[f] # None
Unlocked(p) == IF lock = p THEN None ELSE lock

Check(p) ==
    /\ publisher[p].pc = "check"
    /\ IF Taken THEN Ends(p, 2) /\ lock' = Unlocked(p) ELSE Goes(p, "stage") /\ UNCHANGED lock
    /\ UNCHANGED <<root, made, artifacts, files, world, bencher, trouble>>

Unchanged(p) == BundleHolds /\ NowThere = publisher[p].view
\* Every source is read again for its copy and must hash to what was assembled.
Stage(p) ==
    /\ publisher[p].pc = "stage"
    /\ IF Unchanged(p) THEN publisher' = [publisher EXCEPT ![p].pc = "recheck", ![p].staged = NowThere]
       ELSE Backs(p)
    /\ UNCHANGED Others

SameRoot(p) == root = publisher[p].root
Recheck(p) ==
    /\ publisher[p].pc = "recheck"
    /\ IF Readable(files, "bundle") /\ files["bundle"].by = publisher[p].view.bench /\ SameRoot(p)
       THEN Goes(p, "install") ELSE Backs(p)
    /\ UNCHANGED Others

\* install, for each output in turn: the root is looked at, the file linked, its
\* temporary name unlinked, and the file read again before it is called one's own.
Next1(p) == Outputs[publisher[p].next]
What(p, f) == IF f = "result" THEN publisher[p].view ELSE publisher[p].staged

Install(p) ==
    /\ publisher[p].pc = "install"
    /\ IF SameRoot(p) THEN Goes(p, "link") ELSE Backs(p)
    /\ UNCHANGED Others

Link(p) ==
    /\ publisher[p].pc = "link"
    /\ IF root = 0 \/ files[Next1(p)] # None THEN Backs(p) /\ UNCHANGED files
       ELSE Put(Next1(p), p, What(p, Next1(p))) /\ Goes(p, "linked")
    /\ UNCHANGED <<root, made, artifacts, lock, world, bencher, trouble>>

OwnedWith_Latest(p, f) == {f}
OwnedWith(p, f) == publisher[p].owned \cup {f}
Linked(p) ==
    /\ publisher[p].pc = "linked"
    /\ files' = Unlinked(Next1(p))
    /\ IF ~Readable(Unlinked(Next1(p)), Next1(p)) THEN Backs(p)
       ELSE publisher' = [publisher EXCEPT ![p].owned = OwnedWith(p, Next1(p)),
                            ![p].pc = IF publisher[p].next = Len(Outputs) THEN "verify" ELSE "install",
                            ![p].next = IF @ = Len(Outputs) THEN @ ELSE @ + 1]
    /\ UNCHANGED <<root, made, artifacts, lock, world, bencher, trouble>>

Installed(p) == \A f \in Range(Outputs) : Readable(files, f) /\ files[f].what = What(p, f)
Verify(p) ==
    /\ publisher[p].pc = "verify"
    /\ IF Installed(p) THEN Goes(p, "mark") ELSE Backs(p)
    /\ UNCHANGED Others

Mark(p) ==
    /\ publisher[p].pc = "mark"
    /\ IF SameRoot(p) THEN Goes(p, "link mark") ELSE Backs(p)
    /\ UNCHANGED Others

LinkMark(p) ==
    /\ publisher[p].pc = "link mark"
    /\ IF root = 0 \/ files["complete"] # None THEN Backs(p) /\ UNCHANGED files
       ELSE Put("complete", p, publisher[p].view) /\ Goes(p, "marked")
    /\ UNCHANGED <<root, made, artifacts, lock, world, bencher, trouble>>

\* What the marker names is there, and the result follows from the copies beside
\* it: from the bench's, the rig's and the dogfood rows'.
EventsClosed(fs) == \A s \in {"bench", "rig"} : fs["result"].what[s] = fs["sources"].what[s]
BenchClosed(fs) == fs["result"].what.bench = fs["sources"].what.bench
BundleClosed(fs) == Readable(fs, "bundle") /\ fs["bundle"].by = fs["result"].what.bench
RigClosed(fs) == fs["result"].what.rig = fs["sources"].what.rig
DogfoodClosed(fs) == fs["result"].what.dogfood = fs["sources"].what.dogfood
Published(fs) ==
    /\ \A f \in Range(Outputs) \cup {"complete"} : Readable(fs, f)
    /\ fs["complete"].what = fs["result"].what
    /\ EventsClosed(fs) /\ BenchClosed(fs) /\ BundleClosed(fs) /\ RigClosed(fs) /\ DogfoodClosed(fs)

Marked(p) ==
    /\ publisher[p].pc = "marked"
    /\ files' = Unlinked("complete")
    /\ publisher' = [publisher EXCEPT ![p].owned = OwnedWith(p, "complete"),
                       ![p].pc = IF Published(Unlinked("complete")) THEN "unlock" ELSE "cleanup"]
    /\ UNCHANGED <<root, made, artifacts, lock, world, bencher, trouble>>

Unlock(p) ==
    /\ publisher[p].pc = "unlock"
    /\ lock' = Unlocked(p)
    /\ Ends(p, 0)
    /\ UNCHANGED <<root, made, artifacts, files, world, bencher, trouble>>

\* The files one owns, last first, each only while it is still the one that was
\* made; then the lock.
Order == Append(Outputs, "complete")
LastOwned(p) == CHOOSE f \in publisher[p].owned :
                    \A g \in publisher[p].owned : \E i, j \in DOMAIN Order : Order[i] = g /\ Order[j] = f /\ i <= j
Mine_ByPath(p, f) == files[f] # None
Mine(p, f) == files[f] # None /\ files[f].by = p
Cleanup(p) ==
    /\ publisher[p].pc = "cleanup" /\ publisher[p].owned # {}
    /\ LET f == LastOwned(p)
       IN  /\ files' = IF Mine(p, f) THEN [files EXCEPT ![f] = None] ELSE files
           /\ publisher' = [publisher EXCEPT ![p].owned = @ \ {f}]
    /\ UNCHANGED <<root, made, artifacts, lock, world, bencher, trouble>>

CleanedUp(p) ==
    /\ publisher[p].pc = "cleanup" /\ publisher[p].owned = {}
    /\ lock' = Unlocked(p)
    /\ Ends(p, 4)
    /\ UNCHANGED <<root, made, artifacts, files, world, bencher, trouble>>

(***************************************************************************)
(* What can happen besides.                                                *)
(***************************************************************************)

Trouble == trouble < MaxTrouble /\ trouble' = trouble + 1

\* A source is not as it was registered, or is again.
Edit(s) ==
    /\ Trouble
    /\ world' = [world EXCEPT ![s] = 3 - @]
    /\ UNCHANGED <<place, bencher, publisher>>

KillBencher(b) ==
    /\ Trouble
    /\ bencher[b].pc \notin {"start", "done", "killed"}
    /\ BGoes(b, "killed")
    /\ UNCHANGED <<place, world, publisher>>

KillPublisher(p) ==
    /\ Trouble
    /\ publisher[p].pc \notin {"start", "done", "killed"}
    /\ Goes(p, "killed")
    /\ UNCHANGED <<place, world, bencher>>

\* A write fails, but for those between a link and the look at it.
Fail(p) ==
    /\ Trouble
    /\ publisher[p].pc \notin {"start", "linked", "marked", "unlock", "cleanup", "done", "killed"}
    /\ Backs(p)
    /\ UNCHANGED <<place, world, bencher>>

\* Somebody who takes an attempt for dead removes it, but not in the instant in
\* which a publisher looks at a file it has just linked.
RemoveRoot ==
    /\ Trouble
    /\ root # 0
    /\ \A p \in Publishers : publisher[p].pc \notin {"linked", "marked"}
    /\ root' = 0 /\ artifacts' = {} /\ lock' = None
    /\ files' = [f \in Files |-> None]
    /\ UNCHANGED <<made, world, bencher, publisher>>

\* Somebody frees the lock of a publisher that was killed, or all that it left.
BreakLock ==
    /\ lock # None /\ publisher[lock].pc = "killed"
    /\ lock' = None
    /\ \/ UNCHANGED files
       \/ files' = [f \in Files |-> IF files[f] # None /\ files[f].by = lock THEN None ELSE files[f]]
    /\ UNCHANGED <<root, made, artifacts, world, bencher, publisher, trouble>>

PubInit ==
    /\ root = 0 /\ made = 0 /\ artifacts = {} /\ lock = None
    /\ files = [f \in Files |-> None]
    /\ world = [s \in Sources |-> Registered]
    /\ bencher = [b \in Benchers |-> [pc |-> "start", exit |-> 0, root |-> 0]]
    /\ publisher = [p \in Publishers |-> [pc |-> "start", exit |-> 0, view |-> NoView, staged |-> NoView,
                                          root |-> 0, next |-> 1, owned |-> {}]]
    /\ trouble = 0

Idle == (\A b \in Benchers : bencher[b].pc \in {"done", "killed"})
        /\ (\A p \in Publishers : publisher[p].pc \in {"done", "killed"}) /\ UNCHANGED pubVars

PubNext ==
    \/ \E b \in Benchers : \/ BReserve(b) \/ BCaptured(b) \/ BArtifacts(b) \/ BVerify(b) \/ BBundle(b) \/ BBundled(b)
                           \/ KillBencher(b)
    \/ \E p \in Publishers : \/ ReadBench(p) \/ ReadRig(p) \/ ReadDogfood(p) \/ Open(p) \/ Lock(p) \/ Check(p)
                             \/ Stage(p) \/ Recheck(p) \/ Install(p) \/ Link(p) \/ Linked(p) \/ Verify(p)
                             \/ Mark(p) \/ LinkMark(p) \/ Marked(p) \/ Unlock(p) \/ Cleanup(p) \/ CleanedUp(p)
                             \/ KillPublisher(p) \/ Fail(p)
    \/ \E s \in Sources : Edit(s)
    \/ RemoveRoot
    \/ BreakLock
    \/ Idle

PubSpec == PubInit /\ [][PubNext]_pubVars

(***************************************************************************)
(* What a publication promises.                                            *)
(***************************************************************************)

Accepted(p) == publisher[p].pc = "done" /\ publisher[p].exit = 0 /\ root = publisher[p].root

\* A measurement that was accepted is whole for as long as its attempt is there:
\* marker, result, report and copies are all of the publisher that was told so and
\* of the sources it read, its bundle and the bundle's artifacts are those of the
\* bench it was derived from, and the others are as they were registered
\* (runPolicyStatsWithRuntime, verifyPublishedPolicyBundle).
AcceptedIsWhole ==
    \A p \in Publishers : Accepted(p) =>
        /\ \A f \in Range(Outputs) \cup {"complete"} :
              Readable(files, f) /\ files[f].by = p /\ files[f].what = publisher[p].view
        /\ BundleHolds /\ files["bundle"].by = publisher[p].view.bench
        /\ \A s \in Sources : publisher[p].view[s] = Registered

\* A publisher that is refused, by another one's lock or files or by anything that
\* went wrong, leaves neither a file nor its lock, and takes none that is not its
\* own: one that was accepted beside it stays whole (ownedFinal, removeOwnedFile).
RefusedLeavesNothing ==
    \A p \in Publishers : publisher[p].pc = "done" /\ publisher[p].exit # 0 =>
        lock # p /\ \A f \in Files : files[f] = None \/ files[f].by # p
=============================================================================

------------------------------- MODULE Scope -------------------------------
(***************************************************************************)
(* What a review covers.  While other processes may write, the gate reads  *)
(* the diff, a fingerprint of the tree and the contents of the files of    *)
(* the diff, until two readings agree (src/cli/commands/gate.ts).  A later *)
(* review of the same cycle only judges what changed since the last one    *)
(* (src/core/reviewed-snapshot.ts), a diff of contents that have passed is *)
(* not reviewed at all (the ledger of src/core/orchestrator.ts), and what  *)
(* was there before the session is not held against it                     *)
(* (src/core/session-manifest.ts).                                         *)
(*                                                                         *)
(* A content is the name of who wrote it, with a mark for a second one;    *)
(* equal contents have equal hashes, and nobody writes another's bytes.    *)
(***************************************************************************)
EXTENDS Naturals, FiniteSets

CONSTANTS
    Files,
    Configs,      \* the scenes: which files are there and dirty at first, what the session
                  \* and the others may write and how often, commits, stops, session starts
                  \* and kills, whether the session may work without a manifest, and whether
                  \* its manifest may grow old
    MaxRounds,    \* SNAPSHOT_VERIFY_MAX_ROUNDS
    GitFails,     \* whether a git command of workingTreeDirtyFiles may fail
    None

Gone == "gone"
Own == {"own", "own+"}
Contents == Own \cup {Gone, "head", "other"}

Scenes ==
    [head : [Files -> Contents \ Own], dirty : SUBSET Files, own : SUBSET Contents,
     tools : SUBSET BOOLEAN, other : SUBSET Contents, during : Nat, cut : SUBSET {FALSE},
     hidden : SUBSET Files, odd : SUBSET Files, unstarted : BOOLEAN, expires : BOOLEAN,
     left : [own : Nat, other : Nat, commits : Nat, stops : Nat, starts : Nat, kills : Nat]]

Manifests ==
    [baseline : UNION {[S -> Contents] : S \in SUBSET Files}, owned : SUBSET Files, old : BOOLEAN]

ASSUME ScopeAssumption ==
    /\ MaxRounds \in Nat \ {0} /\ GitFails \in BOOLEAN
    /\ \A c \in Configs : c \in Scenes
    /\ None \notin Contents /\ None \notin Manifests

VARIABLES
    config,    \* the scene, fixed
    tree, head, base,   \* contents on disk, of HEAD, and of the commit the batch began at
    older,     \* files last written before base_ts, the moment the batch began
    manifest,  \* sessions/<id>.json: the contents that were dirty at the session's start,
               \* and the files the session has edited with a tool
    start,     \* the session-start hook
    trigs,     \* triggers on their way
    gate,      \* the stop hook
    snapshot,  \* state.json: reviewed_snapshot
    ledger,    \* state.json: pass_ledger
    left,      \* what the scene still allows
    seen,      \* history: contents a recorded review of this cycle has covered
    passed     \* history: the diffs that have passed at full scope

vars == <<config, tree, head, base, older, manifest, start, trigs, gate, snapshot, ledger, left, seen, passed>>
world == <<tree, head>>
batch == <<base, older>>
memory == <<snapshot, ledger, seen, passed>>

NoGate ==
    [pc |-> "idle", writes |-> 0, prev |-> None, recaptures |-> 0, head0 |-> None,
     out |-> {}, d |-> None, h |-> None, at |-> None,
     quality |-> None, live |-> None, files |-> None, foreign |-> {}, dirtyNow |-> {},
     verdict |-> None, blocking |-> {}, delta |-> None, attributable |-> {}]

Init ==
    /\ config \in Configs
    /\ head = config.head /\ base = config.head
    /\ tree = [f \in Files |-> IF f \in config.dirty THEN "other" ELSE config.head[f]]
    /\ older \in SUBSET {f \in config.dirty : head[f] = Gone}
    /\ manifest = None /\ start = [pc |-> "idle", list |-> {}] /\ trigs = {}
    /\ gate = NoGate
    /\ snapshot = None /\ ledger = None
    /\ left = config.left
    /\ seen = {} /\ passed = {}

Spend(k) == left[k] > 0 /\ left' = [left EXCEPT ![k] = @ - 1]

(***************************************************************************)
(* Reading the tree.                                                       *)
(***************************************************************************)
Dirty == {f \in Files : tree[f] # head[f]}
Untracked == {f \in Dirty : head[f] = Gone}

\* collectDiff: the files that differ from the base, but untracked ones only if they were
\* written since the batch began.
LeftOut == Untracked \cap older
Diff == [f \in {f \in Files \ LeftOut : tree[f] # base[f]} |-> tree[f]]

\* workingTreeStateHash.
Fingerprint == [f \in Dirty |-> <<head[f], tree[f]>>]

\* computeDiffFacts: files without changed lines (binary, renamed, of another mode) are
\* not in its list.
Facts(d) == DOMAIN d.shown \ config.hidden

\* snapshotReviewedFiles: a link, or a file that is too long, cannot be read.
Readable(f) == f \notin config.odd /\ tree[f] # Gone
Entry(f) == IF f \in config.odd /\ tree[f] # Gone THEN "unreadable" ELSE tree[f]
Entries(d) == [f \in Facts(d) |-> Entry(f)]
NoHash(entry) == entry \in {"unreadable", Gone}

\* workingTreeDirtyFiles: tracked files and untracked ones, by two commands; a command
\* that fails leaves its half out.
DirtyLists ==
    IF GitFails THEN {Dirty, Dirty \ Untracked, Untracked, {}} ELSE {Dirty}

(***************************************************************************)
(* The session's manifest.                                                 *)
(***************************************************************************)
Blank == [baseline |-> <<>>, owned |-> {}, old |-> FALSE]

\* computeForeignFiles.
Foreign ==
    IF manifest = None THEN {}
    ELSE {f \in DOMAIN manifest.baseline \ manifest.owned : Readable(f) /\ tree[f] = manifest.baseline[f]}

\* computeSessionAttributableFiles: everything, if there is no manifest.
Attributable_NoBaseline(d, dirtyNow) ==
    {f \in Facts(d) :
        manifest = None \/ f \in manifest.owned \/ (f \notin DOMAIN manifest.baseline /\ f \in dirtyNow)}
Attributable(d, dirtyNow) ==
    {f \in Facts(d) :
        \/ manifest = None
        \/ f \in manifest.owned
        \/ f \in DOMAIN manifest.baseline /\ (~Readable(f) \/ tree[f] # manifest.baseline[f])
        \/ f \notin DOMAIN manifest.baseline /\ f \in dirtyNow}

(***************************************************************************)
(* A session starts, or is resumed: old manifests go, and a session        *)
(* without one gets the dirty files of now as its baseline.                *)
(***************************************************************************)
Kept_Anew == FALSE
Kept == manifest # None /\ ~manifest.old

StartRead ==
    /\ start.pc = "idle" /\ gate.pc = "idle"
    /\ Spend("starts")
    /\ start' = [start EXCEPT !.pc = IF Kept THEN "idle" ELSE "list"]
    /\ manifest' = IF manifest # None /\ manifest.old THEN None ELSE manifest
    /\ UNCHANGED <<config, world, batch, trigs, gate, memory>>

StartList ==
    /\ start.pc = "list"
    /\ \E list \in DirtyLists : start' = [pc |-> "write", list |-> list]
    /\ UNCHANGED <<config, world, batch, manifest, trigs, gate, left, memory>>

StartWrite ==
    /\ start.pc = "write"
    /\ manifest' = [Blank EXCEPT !.baseline = [f \in {f \in start.list : Readable(f)} |-> tree[f]]]
    /\ start' = [pc |-> "idle", list |-> {}]
    /\ UNCHANGED <<config, world, batch, trigs, gate, left, memory>>

\* pruneOldSessionManifests removes manifests of more than seven days.
Expire ==
    /\ config.expires
    /\ manifest # None /\ ~manifest.old /\ gate.pc = "idle"
    /\ manifest' = [manifest EXCEPT !.old = TRUE]
    /\ UNCHANGED <<config, world, batch, start, trigs, gate, left, memory>>

(***************************************************************************)
(* The session edits files, with a tool or from a shell; a tool's edit is  *)
(* followed by a trigger, which reads the manifest and then writes it.     *)
(* The others write too, and anyone commits.                               *)
(***************************************************************************)
Capturing == gate.pc \in {"diff", "hash", "files"}

\* At most config.during writes fall into one capture.
Disturb ==
    IF Capturing THEN gate.writes < config.during /\ gate' = [gate EXCEPT !.writes = @ + 1]
                 ELSE UNCHANGED gate

\* The agent waits for the session-start hook and for the stop hook.
Working ==
    /\ start.pc = "idle" /\ gate.pc = "idle"
    /\ (manifest = None => config.unstarted)

Put(f, c) == tree[f] # c /\ tree' = [tree EXCEPT ![f] = c] /\ older' = older \ {f}

Edit(f, c, tool) ==
    /\ Working /\ c \in config.own /\ tool \in config.tools /\ Put(f, c)
    /\ Spend("own")
    /\ trigs' = IF tool THEN trigs \cup {[file |-> f, pc |-> "read", read |-> None]} ELSE trigs
    /\ UNCHANGED <<config, head, base, manifest, start, gate, memory>>

TriggerRead(t) ==
    /\ t.pc = "read"
    /\ trigs' = (trigs \ {t}) \cup {[t EXCEPT !.pc = "write", !.read = manifest]}
    /\ UNCHANGED <<config, world, batch, manifest, start, gate, left, memory>>

\* recordSessionOwned.
TriggerWrite(t) ==
    /\ t.pc = "write"
    /\ LET m == IF t.read = None THEN Blank ELSE t.read
       IN  manifest' = IF t.file \in m.owned THEN manifest ELSE [m EXCEPT !.owned = @ \cup {t.file}]
    /\ trigs' = trigs \ {t}
    /\ UNCHANGED <<config, world, batch, start, gate, left, memory>>

\* They put the session's content back only where they have just written over it.
OtherWrite(f, c) ==
    /\ c \in config.other /\ Put(f, c)
    /\ c \in Own => Capturing /\ left.own < config.left.own
    /\ Spend("other")
    /\ Disturb
    /\ UNCHANGED <<config, head, base, manifest, start, trigs, memory>>

Commit(S) ==
    /\ S # {} /\ S \subseteq Dirty
    /\ Spend("commits")
    /\ head' = [f \in Files |-> IF f \in S THEN tree[f] ELSE head[f]]
    /\ Disturb
    /\ UNCHANGED <<config, tree, batch, manifest, start, trigs, memory>>

(***************************************************************************)
(* gatherReviewContext.  A batch keeps its base and its moment until its   *)
(* cycle ends.  The next one begins at an edit, a while after the untracked *)
(* files that are older; a flag that the gate makes up has no moment, and  *)
(* no file is older.                                                       *)
(***************************************************************************)
Stop ==
    /\ gate.pc = "idle" /\ start.pc = "idle"
    /\ Spend("stops")
    /\ \/ UNCHANGED batch
       \/ seen = {} /\ base' = head /\ older' \in SUBSET Untracked
    /\ gate' = [NoGate EXCEPT !.pc = "diff", !.head0 = head]
    /\ UNCHANGED <<config, world, manifest, start, trigs, memory>>

\* An incomplete diff says so; `out` is history: what a reading left out for its age.
ReadDiff ==
    /\ gate.pc = "diff"
    /\ \E whole \in {TRUE} \cup config.cut :
          gate' = [gate EXCEPT !.pc = "hash", !.d = [shown |-> Diff, whole |-> whole],
                               !.out = @ \cup LeftOut]
    /\ UNCHANGED <<config, world, batch, manifest, start, trigs, left, memory>>

\* The fingerprint may be indeterminate; `at` is history: the tree it was taken of, and
\* whether HEAD was still where it was when the capture began.
ReadHash ==
    /\ gate.pc = "hash"
    /\ \E known \in {TRUE} \cup config.cut :
          gate' = [gate EXCEPT !.pc = "files", !.h = IF known THEN Fingerprint ELSE None,
                               !.at = [tree |-> tree, still |-> head = gate.head0]]
    /\ UNCHANGED <<config, world, batch, manifest, start, trigs, left, memory>>

Reading == [d |-> gate.d, h |-> gate.h, files |-> Entries(gate.d)]

\* Two consecutive readings agree on all three; or on what can be compared.
Agree_OnDiff(a, b) == a # None /\ a.d = b.d
Agree(a, b) == a # None /\ a.d = b.d /\ b.h # None /\ a.h = b.h /\ a.files = b.files
Vague(a, b) == a # None /\ a.d = b.d /\ a.files = b.files /\ (a.h = None \/ b.h = None)

\* The foreign files are found in the same step as the last reading; the fingerprint of
\* an unstable capture is not used, and its files only if the capture was verified.
Captured(quality) ==
    gate' = [NoGate EXCEPT
               !.pc = "list", !.quality = quality, !.d = gate.d, !.out = gate.out, !.at = gate.at, !.live = tree,
               !.h = IF quality = "unstable" THEN None ELSE gate.h,
               !.files = IF quality = "verified" THEN Entries(gate.d) ELSE None,
               !.foreign = Foreign]

ReadFiles ==
    /\ gate.pc = "files"
    /\ LET n == IF gate.prev = None THEN 0 ELSE gate.recaptures + 1
       IN  \/ Agree(gate.prev, Reading) /\ Captured("verified")
           \/ ~Agree(gate.prev, Reading) /\ Vague(gate.prev, Reading) /\ Captured("unverified")
           \/ /\ ~Agree(gate.prev, Reading) /\ ~Vague(gate.prev, Reading)
              /\ \/ ~gate.d.whole /\ Captured("unverified")
                 \/ gate.d.whole /\ n >= MaxRounds /\ Captured("unstable")
                 \* The budget of the setup is spent.
                 \/ gate.d.whole /\ n < MaxRounds /\ Captured(IF n > 0 THEN "unstable" ELSE "unverified")
                 \/ /\ gate.d.whole /\ n < MaxRounds
                    /\ gate' = [gate EXCEPT !.pc = "diff", !.prev = Reading, !.recaptures = n,
                                            !.d = None, !.h = None, !.at = None]
    /\ UNCHANGED <<config, world, batch, manifest, start, trigs, left, memory>>

ListDirty ==
    /\ gate.pc = "list"
    /\ \E list \in DirtyLists : gate' = [gate EXCEPT !.pc = "panel", !.dirtyNow = list]
    /\ UNCHANGED <<config, world, batch, manifest, start, trigs, left, memory>>

(***************************************************************************)
(* runIteration.                                                           *)
(***************************************************************************)

\* The contents of the diff are those that passed: the same files, each with the content
\* it had, and none in the diff that has no entry.
SameContents(files) ==
    /\ DOMAIN files # {} /\ DOMAIN files = DOMAIN ledger
    /\ \A f \in DOMAIN files : files[f] = ledger[f] /\ files[f] # "unreadable"

LedgerServes ==
    /\ ledger # None /\ gate.files # None /\ gate.d.whole
    /\ SameContents(gate.files)
    /\ DOMAIN gate.d.shown = DOMAIN gate.files

Serve ==
    /\ gate.pc = "panel" /\ LedgerServes
    /\ gate' = [gate EXCEPT !.pc = "served"]
    /\ UNCHANGED <<config, world, batch, manifest, start, trigs, left, memory>>

\* computeDeltaScope.
Changed(files) ==
    {f \in DOMAIN files :
        f \notin DOMAIN snapshot.files \/ NoHash(files[f]) \/ NoHash(snapshot.files[f])
        \/ files[f] # snapshot.files[f]}

Delta ==
    IF snapshot = None \/ gate.files = None \/ ~gate.d.whole THEN None
    ELSE Changed(gate.files) \cup snapshot.blocking

\* Nothing differs from the base.
Nothing ==
    /\ gate.pc = "panel" /\ DOMAIN gate.d.shown = {}
    /\ gate' = NoGate
    /\ UNCHANGED <<config, world, batch, manifest, start, trigs, left, memory>>

\* The panel has judged; the report says whose work each file is.
Review(verdict, blocking) ==
    /\ gate.pc = "panel" /\ ~LedgerServes
    /\ DOMAIN gate.d.shown # {}
    /\ IF verdict = "FAIL" THEN blocking # {} /\ blocking \subseteq DOMAIN gate.d.shown ELSE blocking = {}
    /\ gate' = [gate EXCEPT !.pc = "reported", !.verdict = verdict, !.blocking = blocking,
                            !.delta = Delta, !.attributable = Attributable(gate.d, gate.dirtyNow)]
    /\ UNCHANGED <<config, world, batch, manifest, start, trigs, left, memory>>

Remembered == IF gate.files = None THEN None ELSE [files |-> gate.files, blocking |-> gate.blocking]

\* passLedgerEligible, and a panel that was complete.
Blessed_AnyScope(complete) == gate.files # None /\ gate.d.whole /\ complete
Blessed(complete) == gate.files # None /\ gate.d.whole /\ gate.delta = None /\ complete

Record(complete) ==
    /\ gate.pc = "reported"
    /\ CASE gate.verdict = "PASS" ->
              /\ snapshot' = None /\ seen' = {}
              /\ ledger' = IF Blessed(complete) THEN gate.files ELSE ledger
              /\ passed' = IF gate.delta = None THEN passed \cup {gate.d.shown} ELSE passed
         [] gate.verdict = "FAIL" ->
              /\ snapshot' = Remembered
              /\ seen' = seen \cup {<<f, gate.d.shown[f]>> : f \in DOMAIN gate.d.shown}
              /\ UNCHANGED <<ledger, passed>>
         [] OTHER -> UNCHANGED memory
    /\ gate' = NoGate
    /\ UNCHANGED <<config, world, batch, manifest, start, trigs, left>>

RecordServed ==
    /\ gate.pc = "served"
    /\ snapshot' = None /\ seen' = {}
    /\ gate' = NoGate
    /\ UNCHANGED <<config, world, batch, manifest, start, trigs, left, ledger, passed>>

\* A commit after an escalation begins a new cycle; the ledger stays.
Rearm ==
    /\ gate.pc = "panel" /\ snapshot # None /\ head # base
    /\ snapshot' = None /\ seen' = {}
    /\ UNCHANGED <<config, world, batch, manifest, start, trigs, gate, left, ledger, passed>>

Kill ==
    /\ gate.pc # "idle" /\ Spend("kills")
    /\ gate' = NoGate
    /\ UNCHANGED <<config, world, batch, manifest, start, trigs, memory>>

Next ==
    \/ StartRead \/ StartList \/ StartWrite \/ Expire
    \/ \E f \in Files, c \in config.own, tool \in BOOLEAN : Edit(f, c, tool)
    \/ \E t \in trigs : TriggerRead(t) \/ TriggerWrite(t)
    \/ \E f \in Files, c \in config.other : OtherWrite(f, c)
    \/ \E S \in SUBSET Files : Commit(S)
    \/ Stop \/ ReadDiff \/ ReadHash \/ ReadFiles \/ ListDirty
    \/ Serve \/ Nothing
    \/ \E verdict \in {"PASS", "FAIL", "ERROR"}, blocking \in SUBSET Files : Review(verdict, blocking)
    \/ \E complete \in BOOLEAN : Record(complete)
    \/ RecordServed \/ Rearm \/ Kill

Spec == Init /\ [][Next]_vars

(***************************************************************************)
(* Properties.                                                             *)
(***************************************************************************)
Judging == gate.pc \in {"list", "panel", "served", "reported"}

\* A verified capture is of one state of the tree: the contents the panel is shown, the
\* fingerprint that will stand for "reviewed", and the contents later reviews are compared
\* with are the same, whoever writes meanwhile, if HEAD stays (gatherReviewContext; a
\* fingerprint is relative to HEAD, which is recorded next to it: see StopGate).  An
\* untracked file that the diff leaves out for its age is in the fingerprint all the same.
CaptureIsOneState ==
    Judging /\ gate.quality = "verified" =>
        /\ gate.at.still => \A f \in Files :
              \/ gate.at.tree[f] = IF f \in DOMAIN gate.d.shown THEN gate.d.shown[f] ELSE base[f]
              \/ f \in gate.out \ DOMAIN gate.d.shown
        /\ \A f \in DOMAIN gate.files : gate.files[f] \in {gate.d.shown[f], "unreadable"}

\* What the ledger lets pass without a review has passed one at full scope, all of it
\* together: no part of a larger change, no change that was judged only in part.  Files
\* without changed lines are left out of the comparison: the ledger has no entry for them.
LedgerServesPassed ==
    gate.pc = "served" =>
        \E p \in passed :
            /\ DOMAIN p \ config.hidden = DOMAIN gate.d.shown
            /\ \A f \in DOMAIN gate.d.shown : p[f] = gate.d.shown[f]

\* What the session wrote is never treated as somebody else's, however often the session
\* is resumed and in whatever order its triggers write the manifest (computeForeignFiles).
OwnWorkIsReviewed ==
    Judging => \A f \in gate.foreign : gate.live[f] \notin Own

\* While a file holds uncommitted work of the session that the panel was shown, the report
\* says so, and the agent cannot disown the findings on it (computeSessionAttributableFiles).
OwnWorkNotDisowned ==
    [][gate.pc = "panel" /\ gate'.pc = "reported" =>
          \A f \in Facts(gate.d) :
              gate.d.shown[f] \in Own /\ tree[f] = gate.d.shown[f] /\ f \in Dirty =>
                  f \in gate'.attributable]_vars
=============================================================================

---------------------------- MODULE Scope_proofs ----------------------------
(***************************************************************************)
(* What a review covers, for any files, scenes and bounds: a verified      *)
(* capture is of one state of the tree, the ledger serves only what has    *)
(* passed, and what the session wrote stays its own.  The conditions are   *)
(* named: Bounded, Attended.  At the end the audit log: for any number of  *)
(* gates, days and events, any retention, and whatever fails, is pruned or *)
(* dies in between, an honest log verifies.                                *)
(***************************************************************************)
EXTENDS Scope, Audit, TLAPS

USE DEF batch

GateFields ==
    {"pc", "writes", "prev", "recaptures", "head0", "out", "d", "h", "at", "quality", "live", "files",
     "foreign", "dirtyNow", "verdict", "blocking", "delta", "attributable"}

Shape ==
    /\ config \in Configs
    /\ tree \in [Files -> Contents] /\ head \in [Files -> Contents] /\ base \in [Files -> Contents]
    /\ DOMAIN gate = GateFields
    /\ gate.writes \in Nat /\ gate.recaptures \in Nat
    /\ Capturing => gate.head0 \in [Files -> Contents]

\* What the steps of a capture do to the gate.
LEMMA StopDoes ==
    ASSUME Shape, Stop
    PROVE  /\ DOMAIN gate' = GateFields
           /\ gate'.pc = "diff" /\ gate'.writes = 0 /\ gate'.prev = None /\ gate'.recaptures = 0
           /\ gate'.head0 = head
BY DEF Shape, Stop, NoGate, GateFields

LEMMA ReadDiffDoes ==
    ASSUME Shape, ReadDiff
    PROVE  /\ DOMAIN gate' = GateFields
           /\ gate'.pc = "hash" /\ gate'.d.shown = Diff /\ gate'.out = gate.out \cup LeftOut
           /\ UNCHANGED <<gate.writes, gate.prev, gate.recaptures, gate.head0>>
<1>1. PICK whole \in {TRUE} \cup config.cut :
        gate' = [gate EXCEPT !.pc = "hash", !.d = [shown |-> Diff, whole |-> whole],
                             !.out = @ \cup LeftOut]
  BY DEF ReadDiff
<1> HIDE DEF Diff, LeftOut
<1> QED BY <1>1 DEF Shape, GateFields

LEMMA ReadHashDoes ==
    ASSUME Shape, ReadHash
    PROVE  /\ DOMAIN gate' = GateFields
           /\ gate'.pc = "files" /\ gate'.h \in {Fingerprint, None}
           /\ gate'.at.tree = tree /\ (gate'.at.still => head = gate.head0)
           /\ UNCHANGED <<gate.writes, gate.prev, gate.recaptures, gate.head0, gate.d, gate.out>>
<1>1. PICK known \in {TRUE} \cup config.cut :
        gate' = [gate EXCEPT !.pc = "files", !.h = IF known THEN Fingerprint ELSE None,
                             !.at = [tree |-> tree, still |-> head = gate.head0]]
  BY DEF ReadHash
<1> HIDE DEF Fingerprint
<1> QED BY <1>1 DEF Shape, GateFields

LEMMA ReadFilesDoes ==
    ASSUME Shape, ReadFiles
    PROVE  /\ DOMAIN gate' = GateFields
           /\ \/ /\ gate'.pc = "list" /\ gate'.d = gate.d /\ gate'.at = gate.at /\ gate'.live = tree
                 /\ gate'.out = gate.out /\ gate'.writes = 0 /\ gate'.recaptures = 0
                 /\ gate'.foreign = Foreign
                 /\ gate'.quality \in {"verified", "unverified", "unstable"}
                 /\ gate'.files = IF gate'.quality = "verified" THEN Entries(gate.d) ELSE None
                 /\ gate'.quality = "verified" => Agree(gate.prev, Reading)
              \/ /\ gate'.pc = "diff" /\ gate'.prev = Reading /\ gate'.recaptures \in Nat
                 /\ UNCHANGED <<gate.writes, gate.head0, gate.out>>
<1>1. PICK n \in Nat :
        \/ /\ Agree(gate.prev, Reading) /\ Captured("verified")
        \/ Captured("unverified") \/ Captured("unstable")
        \/ gate' = [gate EXCEPT !.pc = "diff", !.prev = Reading, !.recaptures = n,
                                !.d = None, !.h = None, !.at = None]
  <2> DEFINE n == IF gate.prev = None THEN 0 ELSE gate.recaptures + 1
  <2>1. n \in Nat BY DEF Shape
  <2> QED BY <2>1 DEF ReadFiles
<1>2. ASSUME NEW quality \in {"verified", "unverified", "unstable"}, Captured(quality)
      PROVE  /\ DOMAIN gate' = GateFields
             /\ gate'.pc = "list" /\ gate'.d = gate.d /\ gate'.at = gate.at /\ gate'.live = tree
             /\ gate'.out = gate.out /\ gate'.writes = 0 /\ gate'.recaptures = 0
             /\ gate'.foreign = Foreign /\ gate'.quality = quality
             /\ gate'.files = IF quality = "verified" THEN Entries(gate.d) ELSE None
  <2> DEFINE hash == IF quality = "unstable" THEN None ELSE gate.h
             entries == IF quality = "verified" THEN Entries(gate.d) ELSE None
             foreign == Foreign
  <2>1. gate' = [NoGate EXCEPT !.pc = "list", !.quality = quality, !.d = gate.d, !.out = gate.out,
                               !.at = gate.at, !.live = tree, !.h = hash, !.files = entries, !.foreign = foreign]
    BY <1>2 DEF Captured
  <2> HIDE DEF hash, entries, foreign
  <2>2. /\ DOMAIN gate' = GateFields
        /\ gate'.pc = "list" /\ gate'.d = gate.d /\ gate'.at = gate.at /\ gate'.live = tree
        /\ gate'.out = gate.out /\ gate'.writes = 0 /\ gate'.recaptures = 0
        /\ gate'.foreign = foreign /\ gate'.quality = quality
        /\ gate'.files = entries
    BY <2>1 DEF NoGate, GateFields
  <2> QED BY <2>2 DEF entries, foreign
<1>3. ASSUME gate' = [gate EXCEPT !.pc = "diff", !.prev = Reading, !.recaptures = n,
                                  !.d = None, !.h = None, !.at = None]
      PROVE  /\ DOMAIN gate' = GateFields
             /\ gate'.pc = "diff" /\ gate'.prev = Reading /\ gate'.recaptures \in Nat
             /\ UNCHANGED <<gate.writes, gate.head0, gate.out>>
  <2> HIDE DEF Reading
  <2> QED BY <1>3 DEF Shape, GateFields
<1> QED BY <1>1, <1>2, <1>3

LEMMA DisturbDoes ==
    ASSUME Shape, Disturb
    PROVE  \/ ~Capturing /\ gate' = gate
           \/ /\ Capturing /\ gate.writes < config.during
              /\ DOMAIN gate' = GateFields /\ gate'.writes = gate.writes + 1
              /\ \A x \in GateFields \ {"writes"} : gate'[x] = gate[x]
BY DEF Disturb, Shape, GateFields

-----------------------------------------------------------------------------
(* A verified capture is of one state of the tree if at most two writes and  *)
(* commits fall into it: a third could undo a second between two readings.   *)
(* The invariant counts them: a content that differs from the diff takes a   *)
(* write, one that differs and is back takes two.  It says nothing of a file *)
(* that a reading left out for its age, unless the diff shows it.            *)

Told(d) == {f \in Files : f \notin gate.out \/ f \in DOMAIN d.shown}
Content(d, f) == IF f \in DOMAIN d.shown THEN d.shown[f] ELSE base[f]
Away(d, f) == tree[f] # Content(d, f)
Moved(f) == head[f] # gate.head0[f]

\* The fingerprint h is not of the contents of the diff d.
HashOff(d, h, f) == f \in DOMAIN h /\ h[f][2] # Content(d, f)
HeadOff(d, h, f) == f \notin DOMAIN h /\ gate.head0[f] # Content(d, f)
FileOff(d, files, f) == f \in DOMAIN files /\ files[f] \notin {Content(d, f), "unreadable"}

\* Before the diff is read again.
Before(d, h, f) ==
    /\ HashOff(d, h, f) => gate.writes >= 1 /\ (Away(d, f) \/ gate.writes >= 2)
    /\ HeadOff(d, h, f) => gate.writes >= 1 /\ (Away(d, f) \/ Moved(f) \/ gate.writes >= 2)
FilesBefore(d, files, f) ==
    FileOff(d, files, f) => gate.writes >= 1 /\ (Away(d, f) \/ gate.writes >= 2)

\* After it has been read again, with the same result.
After(d, h, f) ==
    /\ HashOff(d, h, f) => gate.writes >= 2 /\ (Away(d, f) => gate.writes >= 3)
    /\ HeadOff(d, h, f) => /\ gate.writes >= 1
                           /\ ~Away(d, f) /\ ~Moved(f) => gate.writes >= 2
                           /\ Away(d, f) /\ Moved(f) => gate.writes >= 2
                           /\ Away(d, f) /\ ~Moved(f) => gate.writes >= 3
FilesAfter(d, files, f) ==
    FileOff(d, files, f) => gate.writes >= 2 /\ (Away(d, f) => gate.writes >= 3)

Counted ==
    Capturing =>
        /\ gate.writes <= 2
        /\ \A f \in Files : Moved(f) => gate.writes >= 1
        /\ gate.pc \in {"hash", "files"} =>
             /\ DOMAIN gate.d.shown \subseteq Files
             /\ \A f \in Told(gate.d) : Away(gate.d, f) => gate.writes >= 1
        /\ gate.pc = "files" /\ gate.h # None => \A f \in Told(gate.d) : Before(gate.d, gate.h, f)
        /\ gate.prev # None =>
             /\ gate.pc = "diff" => \A f \in Told(gate.prev.d) :
                  /\ gate.prev.h # None => Before(gate.prev.d, gate.prev.h, f)
                  /\ FilesBefore(gate.prev.d, gate.prev.files, f)
             /\ gate.pc = "hash" /\ gate.d = gate.prev.d => \A f \in Told(gate.d) :
                  /\ gate.prev.h # None => After(gate.d, gate.prev.h, f)
                  /\ FilesAfter(gate.d, gate.prev.files, f)
             /\ gate.pc = "files" /\ gate.d = gate.prev.d => \A f \in Told(gate.d) :
                  /\ gate.h = gate.prev.h /\ gate.h # None /\ gate.at.still =>
                       gate.at.tree[f] = Content(gate.d, f)
                  /\ FilesAfter(gate.d, gate.prev.files, f)

CaptureInv == Shape /\ Counted /\ CaptureIsOneState

\* The parts of a capture that a step of the others' has to keep for each file.
LEMMA WriteKeeps ==
    ASSUME Shape, Capturing, NEW f \in Files, NEW c, OtherWrite(f, c), NEW g \in Files, NEW d
    PROVE  /\ gate'.writes = gate.writes + 1 /\ Moved(g)' = Moved(g)
           /\ Away(d, g)' => Away(d, g) \/ gate.writes' >= 1
           /\ \A h : Before(d, h, g) => Before(d, h, g)'
           /\ \A h : After(d, h, g) => After(d, h, g)'
           /\ \A files : FilesBefore(d, files, g) => FilesBefore(d, files, g)'
           /\ \A files : FilesAfter(d, files, g) => FilesAfter(d, files, g)'
<1>1. /\ gate'.writes = gate.writes + 1 /\ gate'.head0 = gate.head0 /\ gate.writes \in Nat
      /\ head' = head /\ base' = base /\ tree'[g] = IF g = f THEN c ELSE tree[g]
      /\ g = f => c # tree[g]
  BY DisturbDoes DEF OtherWrite, Put, Shape, GateFields
<1>2. Moved(g)' = Moved(g) BY <1>1 DEF Moved
<1>3. \A e : Content(e, g)' = Content(e, g) BY <1>1 DEF Content
<1>4. \A h : (HashOff(d, h, g) <=> HashOff(d, h, g)') /\ (HeadOff(d, h, g) <=> HeadOff(d, h, g)')
  BY <1>1, <1>3 DEF HashOff, HeadOff
<1>5. \A files : FileOff(d, files, g) <=> FileOff(d, files, g)'
  BY <1>1, <1>3 DEF FileOff
<1>6. \/ Away(d, g)' /\ ~Away(d, g)
      \/ Away(d, g)' = Away(d, g)
      \/ Away(d, g) /\ ~Away(d, g)'
  BY DEF Away
<1>7. ~Away(d, g) /\ gate.writes >= 2 => gate'.writes >= 3 BY <1>1
<1>8. gate.writes >= 1 => gate'.writes >= 2 BY <1>1
<1>9. (gate.writes >= 2 => gate'.writes >= 2) /\ (gate.writes >= 3 => gate'.writes >= 3) /\ gate'.writes >= 1 BY <1>1
<1> USE <1>2, <1>4, <1>5, <1>7, <1>8, <1>9
<1> HIDE DEF Away, Moved
<1>a. \A h : Before(d, h, g) => Before(d, h, g)' BY DEF Before
<1>b. \A h : After(d, h, g) => After(d, h, g)' BY DEF After
<1>c. \A files : FilesBefore(d, files, g) => FilesBefore(d, files, g)' BY DEF FilesBefore
<1>d. \A files : FilesAfter(d, files, g) => FilesAfter(d, files, g)' BY DEF FilesAfter
<1> QED BY <1>1, <1>2, <1>a, <1>b, <1>c, <1>d

LEMMA CommitKeeps ==
    ASSUME Shape, Capturing, NEW S, Commit(S), NEW g \in Files, NEW d
    PROVE  /\ gate'.writes = gate.writes + 1 /\ Away(d, g)' = Away(d, g)
           /\ \A h : Before(d, h, g) => Before(d, h, g)'
           /\ \A h : After(d, h, g) => After(d, h, g)'
           /\ \A files : FilesBefore(d, files, g) => FilesBefore(d, files, g)'
           /\ \A files : FilesAfter(d, files, g) => FilesAfter(d, files, g)'
<1>1. /\ gate'.writes = gate.writes + 1 /\ gate'.head0 = gate.head0 /\ gate.writes \in Nat
      /\ tree' = tree /\ base' = base /\ head'[g] = IF g \in S THEN tree[g] ELSE head[g]
  BY DisturbDoes DEF Commit, Shape, GateFields
<1>2. Away(d, g)' = Away(d, g) BY <1>1 DEF Away, Content
<1>3. \A e : Content(e, g)' = Content(e, g) BY <1>1 DEF Content
<1>4. \A h : (HashOff(d, h, g) <=> HashOff(d, h, g)') /\ (HeadOff(d, h, g) <=> HeadOff(d, h, g)')
  BY <1>1, <1>3 DEF HashOff, HeadOff
<1>5. \A files : FileOff(d, files, g) <=> FileOff(d, files, g)'
  BY <1>1, <1>3 DEF FileOff
<1>6. \A h : HeadOff(d, h, g) /\ ~Away(d, g) /\ ~Moved(g)' => ~Moved(g)
  BY <1>1 DEF Away, Moved, HeadOff
<1>8. gate.writes >= 1 => gate'.writes >= 2 BY <1>1
<1>9. (gate.writes >= 2 => gate'.writes >= 3) /\ (gate.writes >= 3 => gate'.writes >= 3) /\ gate'.writes >= 1 BY <1>1
<1> USE <1>2, <1>4, <1>5, <1>8, <1>9
<1> HIDE DEF Away, Moved
<1>a. \A h : Before(d, h, g) => Before(d, h, g)' BY <1>6, <1>1 DEF Before
<1>b. \A h : After(d, h, g) => After(d, h, g)'
  <2> SUFFICES ASSUME NEW h, After(d, h, g) PROVE After(d, h, g)' OBVIOUS
  <2>1. HashOff(d, h, g)' => gate'.writes >= 2 /\ (Away(d, g)' => gate'.writes >= 3)
    BY <1>1 DEF After
  <2>2. HeadOff(d, h, g)' =>
          /\ gate'.writes >= 1
          /\ ~Away(d, g)' /\ ~Moved(g)' => gate'.writes >= 2
          /\ Away(d, g)' /\ Moved(g)' => gate'.writes >= 2
          /\ Away(d, g)' /\ ~Moved(g)' => gate'.writes >= 3
    BY <1>1, <1>6 DEF After
  <2> QED BY <2>1, <2>2 DEF After
<1>c. \A files : FilesBefore(d, files, g) => FilesBefore(d, files, g)' BY <1>1 DEF FilesBefore
<1>d. \A files : FilesAfter(d, files, g) => FilesAfter(d, files, g)' BY <1>1 DEF FilesAfter
<1> QED BY <1>1, <1>2, <1>a, <1>b, <1>c, <1>d

Bounded == \A c \in Configs : c.during <= 2

LEMMA ReadDiffCounted ==
    ASSUME Shape, Counted, ReadDiff
    PROVE  Counted'
<1>1. /\ gate.pc = "diff" /\ gate'.pc = "hash" /\ gate'.d.shown = Diff /\ Capturing
      /\ gate'.out = gate.out \cup LeftOut
      /\ UNCHANGED <<gate.writes, gate.prev, gate.recaptures, gate.head0, tree, head, base>>
  BY ReadDiffDoes DEF ReadDiff, world, Capturing
<1>2. \A f \in Told(gate.d)' : ~Away(gate.d, f)' BY <1>1 DEF Away, Content, Diff, Told
<1>3. DOMAIN gate'.d.shown \subseteq Files BY <1>1 DEF Diff
<1>4. \A f \in Files : Moved(f)' = Moved(f) BY <1>1 DEF Moved
<1>5. \A f, d, h, files :
         /\ Away(d, f)' = Away(d, f) /\ HashOff(d, h, f)' = HashOff(d, h, f)
         /\ HeadOff(d, h, f)' = HeadOff(d, h, f) /\ FileOff(d, files, f)' = FileOff(d, files, f)
  BY <1>1 DEF Away, HashOff, HeadOff, FileOff, Content
<1>6. ASSUME gate.prev # None, gate'.d = gate.prev.d, NEW f \in Told(gate.d)'
      PROVE  /\ gate.prev.h # None => After(gate.d, gate.prev.h, f)'
             /\ FilesAfter(gate.d, gate.prev.files, f)'
  <2>0. f \in Files /\ f \in Told(gate.prev.d) BY <1>1, <1>6 DEF Told
  <2>1. /\ gate.prev.h # None => Before(gate.prev.d, gate.prev.h, f)
        /\ FilesBefore(gate.prev.d, gate.prev.files, f)
    BY <1>1, <1>6, <2>0 DEF Counted
  <2>2. ~Away(gate.prev.d, f) BY <1>2, <1>5, <1>6, <2>0
  <2>3. FilesAfter(gate.d, gate.prev.files, f)'
    BY <1>1, <1>2, <1>5, <1>6, <2>0, <2>1, <2>2 DEF FilesBefore, FilesAfter
  <2>4. gate.prev.h # None => After(gate.d, gate.prev.h, f)'
    BY <1>1, <1>2, <1>4, <1>5, <1>6, <2>0, <2>1, <2>2 DEF Before, After
  <2> QED BY <2>3, <2>4
<1> QED BY <1>1, <1>2, <1>3, <1>4, <1>6 DEF Counted, Capturing

LEMMA ReadHashCounted ==
    ASSUME Shape, Counted, ReadHash
    PROVE  Counted'
<1>1. /\ gate.pc = "hash" /\ gate'.pc = "files" /\ gate'.h \in {Fingerprint, None} /\ Capturing
      /\ gate'.at.tree = tree /\ (gate'.at.still => head = gate.head0)
      /\ UNCHANGED <<gate.writes, gate.prev, gate.recaptures, gate.head0, gate.d, gate.out, tree, head, base>>
  BY ReadHashDoes DEF ReadHash, world, Capturing
<1>0. Told(gate.d)' = Told(gate.d) /\ Told(gate.d) \subseteq Files BY <1>1 DEF Told
<1>2. \A f \in Files : Moved(f)' = Moved(f) BY <1>1 DEF Moved
<1>3. \A f, d, h, files :
         /\ Away(d, f)' = Away(d, f) /\ HashOff(d, h, f)' = HashOff(d, h, f)
         /\ HeadOff(d, h, f)' = HeadOff(d, h, f) /\ FileOff(d, files, f)' = FileOff(d, files, f)
         /\ Content(d, f)' = Content(d, f)
  BY <1>1 DEF Away, HashOff, HeadOff, FileOff, Content
<1>4. ASSUME gate'.h # None, NEW f \in Told(gate.d)
      PROVE  Before(gate.d, gate.h, f)'
  <2>1. gate'.h = Fingerprint BY <1>1, <1>4
  <2>2. HashOff(gate.d, gate'.h, f) => Away(gate.d, f)
    BY <2>1 DEF HashOff, Away, Fingerprint
  <2>3. HeadOff(gate.d, gate'.h, f) => Away(gate.d, f) \/ Moved(f)
    BY <1>0, <2>1 DEF HeadOff, Away, Moved, Fingerprint, Dirty
  <2>4. Away(gate.d, f) \/ Moved(f) => gate.writes >= 1 BY <1>0, <1>1 DEF Counted
  <2> QED BY <1>0, <1>1, <1>2, <1>3, <2>2, <2>3, <2>4 DEF Before
<1>5. ASSUME gate.prev # None, gate.d = gate.prev.d, NEW f \in Told(gate.d)
      PROVE  /\ gate'.h = gate.prev.h /\ gate'.h # None /\ gate'.at.still =>
                  gate'.at.tree[f] = Content(gate.d, f)
             /\ FilesAfter(gate.d, gate.prev.files, f)'
  <2>1. /\ gate.prev.h # None => After(gate.d, gate.prev.h, f)
        /\ FilesAfter(gate.d, gate.prev.files, f)
        /\ gate.writes <= 2 /\ gate.writes \in Nat
    BY <1>1, <1>5 DEF Counted, Shape
  <2>2. FilesAfter(gate.d, gate.prev.files, f)' BY <1>1, <1>3, <2>1 DEF FilesAfter
  <2>3. ASSUME gate'.h = gate.prev.h, gate'.h # None, gate'.at.still, Away(gate.d, f)
        PROVE  FALSE
    <3>1. gate'.h = Fingerprint /\ head = gate.head0 BY <1>1, <2>3
    <3>2. ~HashOff(gate.d, gate.prev.h, f) BY <2>1, <2>3 DEF After
    <3>3. ~HeadOff(gate.d, gate.prev.h, f) BY <2>1, <2>3, <3>1 DEF After, Moved
    <3> QED BY <1>0, <2>3, <3>1, <3>2, <3>3 DEF HashOff, HeadOff, Away, Fingerprint, Dirty
  <2> QED BY <1>1, <2>2, <2>3 DEF Away
<1>6. /\ gate'.writes <= 2 /\ DOMAIN gate'.d.shown \subseteq Files
      /\ \A f \in Files : Moved(f)' => gate'.writes >= 1
      /\ \A f \in Told(gate.d) : Away(gate.d, f)' => gate'.writes >= 1
  BY <1>1, <1>2, <1>3 DEF Counted
<1> QED BY <1>0, <1>1, <1>3, <1>4, <1>5, <1>6 DEF Counted, Capturing

LEMMA ReadFilesCounted ==
    ASSUME Shape, Counted, ReadFiles
    PROVE  Counted' /\ CaptureIsOneState'
<1>1. gate.pc = "files" /\ Capturing /\ UNCHANGED <<tree, head, base, config>>
  BY DEF ReadFiles, world, Capturing
<1>2. ASSUME NEW f \in Facts(gate.d)
      PROVE  /\ f \in Told(gate.d) /\ f \in Files /\ Content(gate.d, f) = gate.d.shown[f]
             /\ FileOff(gate.d, Entries(gate.d), f) => Away(gate.d, f)
  <2>1. f \in Files /\ f \in DOMAIN gate.d.shown BY <1>1, <1>2 DEF Counted, Facts
  <2> QED BY <1>2, <2>1 DEF Content, FileOff, Entries, Entry, Away, Told
<1>3. CASE gate'.pc = "list"
  <2>1. /\ gate'.d = gate.d /\ gate'.at = gate.at /\ gate'.out = gate.out
        /\ gate'.quality = "verified" =>
             Agree(gate.prev, Reading) /\ gate'.files = Entries(gate.d)
    BY <1>3, ReadFilesDoes
  <2>2. ASSUME gate'.quality = "verified"
        PROVE  /\ gate'.at.still => \A f \in Told(gate.d) : gate'.at.tree[f] = Content(gate.d, f)
               /\ \A f \in DOMAIN gate'.files : gate'.files[f] \in {gate.d.shown[f], "unreadable"}
    <3>1. /\ gate.prev # None /\ gate.prev.d = gate.d /\ gate.h # None /\ gate.prev.h = gate.h
          /\ gate.prev.files = Entries(gate.d) /\ gate'.files = Entries(gate.d)
      BY <2>1, <2>2 DEF Agree, Reading
    <3>2. \A f \in Told(gate.d) :
                           /\ gate.at.still => gate.at.tree[f] = Content(gate.d, f)
                           /\ FilesAfter(gate.d, Entries(gate.d), f)
                           /\ gate.writes <= 2 /\ gate.writes \in Nat
      BY <1>1, <3>1 DEF Counted, Shape
    <3>3. ASSUME NEW f \in Facts(gate.d)
          PROVE  Entries(gate.d)[f] \in {gate.d.shown[f], "unreadable"}
      <4>1. ~FileOff(gate.d, Entries(gate.d), f) BY <1>2, <3>2 DEF FilesAfter
      <4> QED BY <1>2, <4>1 DEF FileOff, Entries
    <3> QED BY <2>1, <3>1, <3>2, <3>3 DEF Entries
  <2> QED BY <1>1, <1>3, <2>1, <2>2 DEF Counted, Capturing, CaptureIsOneState, Content, Told
<1>4. CASE gate'.pc = "diff"
  <2>1. /\ gate'.prev = Reading
        /\ UNCHANGED <<gate.writes, gate.head0, gate.out>>
    BY <1>4, ReadFilesDoes
  <2>2. /\ gate'.prev.d = gate.d /\ gate'.prev.h = gate.h /\ gate'.prev.files = Entries(gate.d)
    BY <2>1 DEF Reading
  <2>3. \A f, d, h, files :
         /\ Away(d, f)' = Away(d, f) /\ HashOff(d, h, f)' = HashOff(d, h, f)
         /\ HeadOff(d, h, f)' = HeadOff(d, h, f) /\ FileOff(d, files, f)' = FileOff(d, files, f)
         /\ Moved(f)' = Moved(f)
    BY <1>1, <2>1 DEF Away, HashOff, HeadOff, FileOff, Content, Moved
  <2>4. Told(gate.prev.d)' = Told(gate.d) /\ Told(gate.d) \subseteq Files
    BY <1>1, <2>1, <2>2 DEF Told
  <2>5. ASSUME NEW f \in Told(gate.d)
        PROVE  /\ gate'.prev.h # None => Before(gate.prev.d, gate.prev.h, f)'
               /\ FilesBefore(gate.prev.d, gate.prev.files, f)'
    <3>1. gate.h # None => Before(gate.d, gate.h, f) BY <1>1 DEF Counted
    <3>2. gate'.prev.h # None => Before(gate.prev.d, gate.prev.h, f)'
      BY <2>1, <2>2, <2>3, <3>1 DEF Before
    <3>3. FileOff(gate.d, Entries(gate.d), f) => Away(gate.d, f)
      BY <1>2 DEF FileOff, Entries
    <3>4. Away(gate.d, f) => gate.writes >= 1 BY <1>1 DEF Counted
    <3> QED BY <2>1, <2>2, <2>3, <3>2, <3>3, <3>4 DEF FilesBefore
  <2>6. gate'.writes <= 2 /\ \A f \in Files : Moved(f)' => gate'.writes >= 1
    BY <1>1, <2>1, <2>3 DEF Counted
  <2> QED BY <1>4, <2>4, <2>5, <2>6 DEF Counted, Capturing, CaptureIsOneState, Judging
<1> QED BY <1>3, <1>4, ReadFilesDoes

LEMMA DisturbCounted ==
    ASSUME Shape, Counted, Bounded, ScopeAssumption, Capturing,
           \/ \E f \in Files, c \in config.other : OtherWrite(f, c)
           \/ \E S : Commit(S)
    PROVE  Counted'
<1>1. /\ gate'.writes = gate.writes + 1 /\ gate.writes \in Nat /\ gate.writes < config.during
      /\ \A x \in GateFields \ {"writes"} : gate'[x] = gate[x]
      /\ base' = base
  BY DisturbDoes DEF OtherWrite, Commit, Shape
<1>2. gate'.writes <= 2 /\ gate'.writes >= 1
  <2>1. config.during <= 2 /\ config.during \in Nat BY DEF Shape, Bounded, ScopeAssumption, Scenes
  <2> QED BY <1>1, <2>1
<1>3. /\ UNCHANGED <<gate.pc, gate.d, gate.h, gate.at, gate.prev, gate.head0, gate.out>>
      /\ \A d : Told(d)' = Told(d) /\ Told(d) \subseteq Files
  BY <1>1 DEF GateFields, Told
<1>4. ASSUME NEW f \in Files, NEW d
      PROVE  /\ \A h : Before(d, h, f) => Before(d, h, f)'
             /\ \A h : After(d, h, f) => After(d, h, f)'
             /\ \A files : FilesBefore(d, files, f) => FilesBefore(d, files, f)'
             /\ \A files : FilesAfter(d, files, f) => FilesAfter(d, files, f)'
             /\ Content(d, f)' = Content(d, f)
  BY <1>1, WriteKeeps, CommitKeeps DEF Content
<1>5. ASSUME gate.pc = "files", gate.h # None
      PROVE  \A f \in Told(gate.d) : Before(gate.d, gate.h, f)'
  BY <1>3, <1>4, <1>5 DEF Counted
<1>6. ASSUME gate.prev # None, gate.pc = "diff", NEW f \in Told(gate.prev.d)
      PROVE  /\ gate.prev.h # None => Before(gate.prev.d, gate.prev.h, f)'
             /\ FilesBefore(gate.prev.d, gate.prev.files, f)'
  BY <1>3, <1>4, <1>6 DEF Counted
<1>7. ASSUME gate.prev # None, gate.pc = "hash", gate.d = gate.prev.d, NEW f \in Told(gate.d)
      PROVE  /\ gate.prev.h # None => After(gate.d, gate.prev.h, f)'
             /\ FilesAfter(gate.d, gate.prev.files, f)'
  BY <1>3, <1>4, <1>7 DEF Counted
<1>8. ASSUME gate.prev # None, gate.pc = "files", gate.d = gate.prev.d, NEW f \in Told(gate.d)
      PROVE  /\ gate.h = gate.prev.h /\ gate.h # None /\ gate.at.still =>
                  gate.at.tree[f] = Content(gate.d, f)'
             /\ FilesAfter(gate.d, gate.prev.files, f)'
  BY <1>3, <1>4, <1>8 DEF Counted
<1> QED BY <1>2, <1>3, <1>5, <1>6, <1>7, <1>8 DEF Counted, Capturing

\* What a step does that is no part of a capture: the gate is at rest before and after,
\* or it has its capture and keeps it.
LEMMA RestCounted ==
    ASSUME Shape, CaptureIsOneState, ~Capturing', ~Judging'
    PROVE  Counted' /\ CaptureIsOneState'
BY DEF Counted, CaptureIsOneState

LEMMA JudgingCounted ==
    ASSUME Shape, CaptureIsOneState, Judging, ~Capturing', UNCHANGED <<base, gate.quality, gate.at, gate.d, gate.out, gate.files>>
    PROVE  Counted' /\ CaptureIsOneState'
BY DEF Counted, CaptureIsOneState

LEMMA StillCounted ==
    ASSUME Shape, Counted, CaptureIsOneState, UNCHANGED <<tree, head, base, gate>>
    PROVE  Counted' /\ CaptureIsOneState'
<1>1. \A f, d, h, files :
         /\ Away(d, f)' = Away(d, f) /\ HashOff(d, h, f)' = HashOff(d, h, f)
         /\ HeadOff(d, h, f)' = HeadOff(d, h, f) /\ FileOff(d, files, f)' = FileOff(d, files, f)
         /\ Moved(f)' = Moved(f) /\ Content(d, f)' = Content(d, f)
  BY DEF Away, HashOff, HeadOff, FileOff, Content, Moved
<1>2. Counted' BY <1>1 DEF Counted, Capturing, Before, After, FilesBefore, FilesAfter, Told
<1> QED BY <1>2 DEF CaptureIsOneState, Judging

LEMMA ShapeNext ==
    ASSUME Shape, ScopeAssumption, [Next]_vars
    PROVE  Shape'
<1> USE DEF world, memory
<1>1. ASSUME NEW f \in Files, NEW c \in config.own, NEW tool \in BOOLEAN, Edit(f, c, tool) PROVE Shape'
  <2>1. c \in Contents /\ UNCHANGED <<config, head, base, gate>> /\ tree' = [tree EXCEPT ![f] = c]
    BY <1>1 DEF Edit, Put, Shape, ScopeAssumption, Scenes
  <2> QED BY <2>1 DEF Shape, Capturing
<1>2. ASSUME NEW f \in Files, NEW c \in config.other, OtherWrite(f, c) PROVE Shape'
  <2>1. c \in Contents /\ UNCHANGED <<config, head, base>> /\ tree' = [tree EXCEPT ![f] = c]
    BY <1>2 DEF OtherWrite, Put, Shape, ScopeAssumption, Scenes
  <2>2. /\ DOMAIN gate' = GateFields /\ gate'.writes \in Nat
        /\ UNCHANGED <<gate.recaptures, gate.head0, gate.pc>>
    BY <1>2, DisturbDoes DEF OtherWrite, Shape, GateFields
  <2> QED BY <2>1, <2>2 DEF Shape, Capturing
<1>3. ASSUME NEW S \in SUBSET Files, Commit(S) PROVE Shape'
  <2>1. UNCHANGED <<config, tree, base>> /\ head' \in [Files -> Contents]
    BY <1>3 DEF Commit, Shape
  <2>2. /\ DOMAIN gate' = GateFields /\ gate'.writes \in Nat
        /\ UNCHANGED <<gate.recaptures, gate.head0, gate.pc>>
    BY <1>3, DisturbDoes DEF Commit, Shape, GateFields
  <2> QED BY <2>1, <2>2 DEF Shape, Capturing
<1>4. ASSUME Stop PROVE Shape'
  <2>1. UNCHANGED <<config, world>> /\ base' \in {base, head} BY <1>4 DEF Stop
  <2> QED BY <1>4, <2>1, StopDoes DEF Shape
<1>5. ASSUME ReadDiff \/ ReadHash \/ ReadFiles PROVE Shape'
  <2>1. UNCHANGED <<config, tree, head, base>> /\ Capturing
    BY <1>5 DEF ReadDiff, ReadHash, ReadFiles, Capturing
  <2>2. /\ DOMAIN gate' = GateFields /\ gate'.writes \in Nat /\ gate'.recaptures \in Nat
        /\ gate'.head0 = gate.head0 \/ gate'.pc = "list"
    BY <1>5, ReadDiffDoes, ReadHashDoes, ReadFilesDoes DEF Shape
  <2> QED BY <2>1, <2>2 DEF Shape, Capturing
<1>6. ASSUME NEW list, gate' = [gate EXCEPT !.pc = "panel", !.dirtyNow = list],
             UNCHANGED <<config, tree, head, base>>
      PROVE  Shape'
  BY <1>6 DEF Shape, GateFields, Capturing
<1>7. ASSUME gate' = [gate EXCEPT !.pc = "served"], UNCHANGED <<config, tree, head, base>>
      PROVE  Shape'
  BY <1>7 DEF Shape, GateFields, Capturing
<1>8. ASSUME NEW verdict, NEW blocking, Review(verdict, blocking) PROVE Shape'
  <2> DEFINE delta == Delta
             attributable == Attributable(gate.d, gate.dirtyNow)
  <2>1. /\ gate' = [gate EXCEPT !.pc = "reported", !.verdict = verdict, !.blocking = blocking,
                                !.delta = delta, !.attributable = attributable]
        /\ UNCHANGED <<config, tree, head, base>>
    BY <1>8 DEF Review
  <2> HIDE DEF delta, attributable
  <2> QED BY <2>1 DEF Shape, GateFields, Capturing
<1>9. ASSUME gate' = NoGate, UNCHANGED <<config, tree, head, base>> PROVE Shape'
  BY <1>9 DEF Shape, GateFields, Capturing, NoGate
<1>10. ASSUME UNCHANGED <<config, tree, head, base, gate>> PROVE Shape'
  BY <1>10 DEF Shape, Capturing
<1>11. CASE StartRead \/ StartList \/ StartWrite \/ Expire \/ Rearm
             \/ \E t \in trigs : TriggerRead(t) \/ TriggerWrite(t)
  BY <1>10, <1>11 DEF StartRead, StartList, StartWrite, Expire, Rearm, TriggerRead, TriggerWrite
<1>12. CASE ListDirty \/ Serve BY <1>6, <1>7, <1>12 DEF ListDirty, Serve
<1>13. CASE Nothing \/ RecordServed \/ Kill \/ \E complete \in BOOLEAN : Record(complete)
  BY <1>9, <1>13 DEF Nothing, RecordServed, Kill, Record
<1>14. CASE UNCHANGED vars BY <1>10, <1>14 DEF vars
<1> QED BY <1>1, <1>2, <1>3, <1>4, <1>5, <1>8, <1>11, <1>12, <1>13, <1>14 DEF Next

LEMMA CaptureNext ==
    ASSUME CaptureInv, Bounded, ScopeAssumption, [Next]_vars
    PROVE  CaptureInv'
<1>1. Shape' BY ShapeNext DEF CaptureInv
<1> USE DEF CaptureInv, world
<1>2. CASE \E f \in Files, c \in config.own, tool \in BOOLEAN : Edit(f, c, tool)
  <2>1. gate.pc = "idle" /\ gate' = gate BY <1>2 DEF Edit, Working
  <2> QED BY <1>1, <2>1, RestCounted DEF Capturing, Judging
<1>3. CASE \/ \E f \in Files, c \in config.other : OtherWrite(f, c)
           \/ \E S \in SUBSET Files : Commit(S)
  <2>1. CASE Capturing
    <3>1. gate'.pc = gate.pc BY <1>3, DisturbDoes DEF OtherWrite, Commit, GateFields
    <3>2. Counted' BY <1>3, <2>1, DisturbCounted
    <3> QED BY <1>1, <2>1, <3>1, <3>2 DEF CaptureIsOneState, Judging, Capturing
  <2>2. CASE ~Capturing
    <3>1. gate' = gate /\ base' = base BY <1>3, <2>2, DisturbDoes DEF OtherWrite, Commit
    <3> QED BY <1>1, <2>2, <3>1, RestCounted, JudgingCounted DEF Capturing, Judging
  <2> QED BY <2>1, <2>2
<1>4. CASE Stop
  <2>1. Counted' BY <1>4, StopDoes DEF Counted, Capturing, Moved, Stop
  <2> QED BY <1>1, <1>4, <2>1, StopDoes DEF CaptureIsOneState, Judging
<1>5. CASE ReadDiff
  BY <1>1, <1>5, ReadDiffCounted, ReadDiffDoes DEF CaptureIsOneState, Judging
<1>6. CASE ReadHash
  BY <1>1, <1>6, ReadHashCounted, ReadHashDoes DEF CaptureIsOneState, Judging
<1>7. CASE ReadFiles BY <1>1, <1>7, ReadFilesCounted
<1>8. CASE ListDirty
  <2>1. PICK list \in DirtyLists : gate' = [gate EXCEPT !.pc = "panel", !.dirtyNow = list]
    BY <1>8 DEF ListDirty
  <2>2. ~Capturing' /\ Judging /\ UNCHANGED <<base, gate.quality, gate.at, gate.d, gate.out, gate.files>>
    BY <1>8, <2>1 DEF ListDirty, Judging, Capturing, Shape, GateFields
  <2> QED BY <1>1, <2>2, JudgingCounted
<1>9. CASE Serve
  <2>1. ~Capturing' /\ Judging /\ UNCHANGED <<base, gate.quality, gate.at, gate.d, gate.out, gate.files>>
    BY <1>9 DEF Serve, Judging, Capturing, Shape, GateFields
  <2> QED BY <1>1, <2>1, JudgingCounted
<1>10. CASE \E verdict \in {"PASS", "FAIL", "ERROR"}, blocking \in SUBSET Files : Review(verdict, blocking)
  <2> DEFINE delta == Delta
             attributable == Attributable(gate.d, gate.dirtyNow)
  <2>1. PICK verdict, blocking :
          /\ gate' = [gate EXCEPT !.pc = "reported", !.verdict = verdict, !.blocking = blocking,
                                !.delta = delta, !.attributable = attributable]
          /\ UNCHANGED base /\ gate.pc = "panel"
    BY <1>10 DEF Review
  <2> HIDE DEF delta, attributable
  <2>2. ~Capturing' /\ Judging /\ UNCHANGED <<base, gate.quality, gate.at, gate.d, gate.out, gate.files>>
    BY <2>1 DEF Judging, Capturing, Shape, GateFields
  <2> QED BY <1>1, <2>2, JudgingCounted
<1>11. CASE Nothing \/ RecordServed \/ Kill \/ \E complete \in BOOLEAN : Record(complete)
  <2>1. gate' = NoGate BY <1>11 DEF Nothing, RecordServed, Kill, Record
  <2> QED BY <1>1, <2>1, RestCounted DEF Capturing, Judging, NoGate
<1>12. CASE UNCHANGED <<tree, head, base, gate>> BY <1>1, <1>12, StillCounted
<1>13. CASE StartRead \/ StartList \/ StartWrite \/ Expire \/ Rearm
             \/ \E t \in trigs : TriggerRead(t) \/ TriggerWrite(t)
  BY <1>12, <1>13 DEF StartRead, StartList, StartWrite, Expire, Rearm, TriggerRead, TriggerWrite
<1> QED BY <1>2, <1>3, <1>4, <1>5, <1>6, <1>7, <1>8, <1>9, <1>10, <1>11, <1>12, <1>13 DEF Next, vars

LEMMA CaptureInit == Init /\ ScopeAssumption => CaptureInv
<1> SUFFICES ASSUME Init, ScopeAssumption PROVE CaptureInv OBVIOUS
<1>1. config \in Scenes /\ "other" \in Contents /\ gate = NoGate
  BY DEF Init, ScopeAssumption, Contents
<1>2. Shape BY <1>1 DEF Init, Shape, Scenes, Capturing, NoGate, GateFields
<1> QED BY <1>1, <1>2 DEF CaptureInv, Counted, CaptureIsOneState, Capturing, Judging, NoGate

(* A verified capture is of one state of the tree, in every scene in which  *)
(* at most two writes and commits fall into a capture.                      *)
THEOREM OneState == ASSUME Bounded PROVE Spec => []CaptureIsOneState
<1>1. CaptureInv /\ [Next]_vars => CaptureInv' BY CaptureNext, ScopeAssumption
<1>2. CaptureInv => CaptureIsOneState BY DEF CaptureInv
<1> QED BY <1>1, <1>2, CaptureInit, ScopeAssumption, PTL DEF Spec

-----------------------------------------------------------------------------
(* The ledger: what it holds is what a diff that passed at full scope held.  *)

Vouched(entries) ==
    \E p \in passed : /\ DOMAIN p \ config.hidden = DOMAIN entries
                      /\ \A f \in DOMAIN entries : entries[f] \in {p[f], "unreadable"}

LedgerInv ==
    /\ ledger # None => Vouched(ledger)
    /\ Judging /\ gate.files # None => DOMAIN gate.files = Facts(gate.d) /\ gate.quality = "verified"
    /\ LedgerServesPassed

\* The gate has no capture, or keeps the one it has, and does not go to be served.
LEMMA LedgerKept ==
    ASSUME LedgerInv,
           ~Judging' \/ (Judging /\ UNCHANGED <<gate.d, gate.files, gate.quality>>),
           gate'.pc = "served" => gate.pc = "served",
           \A p \in passed : p \in passed', ledger' = ledger, config' = config
    PROVE  LedgerInv'
<1>1. ledger' # None => Vouched(ledger)' BY DEF LedgerInv, Vouched
<1>2. LedgerServesPassed'
  <2>1. gate'.pc = "served" => gate.d = gate'.d BY DEF Judging
  <2> QED BY <2>1 DEF LedgerInv, LedgerServesPassed
<1> QED BY <1>1, <1>2 DEF LedgerInv, Facts

LEMMA LedgerNext ==
    ASSUME LedgerInv, CaptureInv, [Next]_vars
    PROVE  LedgerInv'
<1> USE DEF world, memory
<1>1. CASE \/ \E f \in Files, c \in config.own, tool \in BOOLEAN : Edit(f, c, tool)
           \/ \E t \in trigs : TriggerRead(t) \/ TriggerWrite(t)
           \/ StartRead \/ StartList \/ StartWrite \/ Expire \/ Rearm \/ UNCHANGED vars
  <2>1. UNCHANGED <<gate, passed, ledger, config>>
    BY <1>1 DEF Edit, TriggerRead, TriggerWrite, StartRead, StartList, StartWrite, Expire, Rearm, vars
  <2>2. Judging => Judging' BY <2>1 DEF Judging
  <2>3. ~Judging => ~Judging' BY <2>1 DEF Judging
  <2>9. ledger' = ledger /\ config' = config /\ (\A p \in passed : p \in passed') BY <2>1
  <2>5. ~Judging' \/ (Judging /\ UNCHANGED <<gate.d, gate.files, gate.quality>>) BY <2>1, <2>3
  <2>6. gate'.pc = "served" => gate.pc = "served" BY <2>1
  <2> QED BY <2>9, <2>5, <2>6, LedgerKept
<1>2. CASE \/ \E f \in Files, c \in config.other : OtherWrite(f, c)
           \/ \E S \in SUBSET Files : Commit(S)
  <2>1. UNCHANGED <<passed, ledger, config, gate.pc, gate.d, gate.files, gate.quality>>
    BY <1>2, DisturbDoes DEF OtherWrite, Commit, GateFields, CaptureInv
  <2>2. ~Judging => ~Judging' BY <2>1 DEF Judging
  <2>9. ledger' = ledger /\ config' = config /\ (\A p \in passed : p \in passed') BY <2>1
  <2>5. ~Judging' \/ (Judging /\ UNCHANGED <<gate.d, gate.files, gate.quality>>) BY <2>1, <2>2
  <2>6. gate'.pc = "served" => gate.pc = "served" BY <2>1
  <2> QED BY <2>9, <2>5, <2>6, LedgerKept
<1>3. CASE Stop \/ ReadDiff \/ ReadHash
  <2>1. UNCHANGED <<passed, ledger, config>> /\ gate'.pc \in {"diff", "hash", "files"}
    BY <1>3, StopDoes, ReadDiffDoes, ReadHashDoes DEF Stop, ReadDiff, ReadHash, CaptureInv
  <2>2. ~Judging' /\ gate'.pc # "served" BY <2>1 DEF Judging
  <2>9. ledger' = ledger /\ config' = config /\ (\A p \in passed : p \in passed') BY <2>1
  <2> QED BY <2>2, <2>9, LedgerKept
<1>4. CASE ReadFiles
  <2>1. UNCHANGED <<passed, ledger, config>> BY <1>4 DEF ReadFiles
  <2>2. CASE gate'.pc = "diff"
    <3>1. ~Judging' /\ gate'.pc # "served" BY <2>2 DEF Judging
    <3>2. ledger' = ledger /\ config' = config /\ (\A p \in passed : p \in passed') BY <2>1
    <3> QED BY <3>1, <3>2, LedgerKept
  <2>3. CASE gate'.pc = "list"
    <3>1. gate'.files # None => gate'.files = Entries(gate'.d) /\ gate'.quality = "verified"
      BY <1>4, <2>3, ReadFilesDoes DEF CaptureInv
    <3>2. gate'.files # None => DOMAIN gate'.files = Facts(gate.d)'
      BY <2>1, <3>1 DEF Entries, Facts
    <3> QED BY <2>1, <2>3, <3>1, <3>2 DEF LedgerInv, Vouched, LedgerServesPassed
  <2> QED BY <1>4, <2>2, <2>3, ReadFilesDoes DEF CaptureInv
<1>5. CASE ListDirty \/ \E verdict \in {"PASS", "FAIL", "ERROR"}, blocking \in SUBSET Files : Review(verdict, blocking)
  <2> DEFINE delta == Delta
             attributable == Attributable(gate.d, gate.dirtyNow)
  <2>1. PICK list, verdict, blocking :
          /\ \/ gate' = [gate EXCEPT !.pc = "panel", !.dirtyNow = list]
             \/ gate' = [gate EXCEPT !.pc = "reported", !.verdict = verdict, !.blocking = blocking,
                                     !.delta = delta, !.attributable = attributable]
          /\ UNCHANGED <<passed, ledger, config>> /\ gate.pc \in {"list", "panel"}
    BY <1>5 DEF Review, ListDirty
  <2> HIDE DEF delta, attributable
  <2>2. /\ gate'.pc \in {"panel", "reported"} /\ Judging
        /\ UNCHANGED <<gate.d, gate.files, gate.quality>>
    BY <2>1 DEF Judging, CaptureInv, Shape, GateFields
  <2> QED BY <2>1, <2>2, LedgerKept
<1>6. CASE Serve
  <2>1. /\ gate'.pc = "served" /\ gate.pc = "panel" /\ LedgerServes
        /\ UNCHANGED <<passed, ledger, config, gate.d, gate.files, gate.quality>>
    BY <1>6 DEF Serve, CaptureInv, Shape, GateFields
  <2>2. PICK p \in passed : /\ DOMAIN p \ config.hidden = DOMAIN ledger
                            /\ \A f \in DOMAIN ledger : ledger[f] \in {p[f], "unreadable"}
    BY <2>1 DEF LedgerServes, LedgerInv, Vouched
  <2>3. /\ DOMAIN gate.d.shown = DOMAIN ledger /\ DOMAIN gate.files = DOMAIN ledger
        /\ \A f \in DOMAIN ledger : gate.files[f] = ledger[f] /\ gate.files[f] # "unreadable"
    BY <2>1 DEF LedgerServes, SameContents
  <2>4. \A f \in DOMAIN gate.files : gate.files[f] \in {gate.d.shown[f], "unreadable"}
    BY <2>1 DEF LedgerServes, LedgerInv, CaptureInv, CaptureIsOneState, Judging
  <2>5. \A f \in DOMAIN gate.d.shown : p[f] = gate.d.shown[f] BY <2>2, <2>3, <2>4
  <2>6. LedgerServesPassed' BY <2>1, <2>2, <2>3, <2>5 DEF LedgerServesPassed
  <2> QED BY <2>1, <2>6 DEF LedgerInv, Vouched, Judging, Facts
<1>7. CASE Nothing \/ RecordServed \/ Kill
  <2>1. UNCHANGED <<passed, ledger, config>> /\ gate' = NoGate
    BY <1>7 DEF Nothing, RecordServed, Kill
  <2>2. ~Judging' /\ gate'.pc # "served" BY <2>1 DEF Judging, NoGate
  <2>9. ledger' = ledger /\ config' = config /\ (\A p \in passed : p \in passed') BY <2>1
  <2> QED BY <2>2, <2>9, LedgerKept
<1>8. ASSUME NEW complete \in BOOLEAN, Record(complete) PROVE LedgerInv'
  <2>1. gate.pc = "reported" /\ gate' = NoGate /\ config' = config BY <1>8 DEF Record
  <2>2. CASE gate.verdict = "PASS" /\ Blessed(complete)
    <3>1. ledger' = gate.files /\ passed' = passed \cup {gate.d.shown} /\ gate.files # None
      BY <1>8, <2>2 DEF Record, Blessed
    <3>2. /\ DOMAIN gate.files = DOMAIN gate.d.shown \ config.hidden
          /\ \A f \in DOMAIN gate.files : gate.files[f] \in {gate.d.shown[f], "unreadable"}
      BY <2>1, <3>1 DEF LedgerInv, CaptureInv, CaptureIsOneState, Judging, Facts
    <3>3. gate.d.shown \in passed' BY <3>1
    <3>4. Vouched(ledger)' BY <2>1, <3>1, <3>2, <3>3 DEF Vouched
    <3> QED BY <2>1, <3>4 DEF LedgerInv, LedgerServesPassed, Judging, NoGate
  <2>3. CASE ~(gate.verdict = "PASS" /\ Blessed(complete))
    <3>1. ledger' = ledger /\ \A p \in passed : p \in passed' BY <1>8, <2>3 DEF Record
    <3> QED BY <2>1, <3>1, LedgerKept DEF Judging, NoGate
  <2> QED BY <2>2, <2>3
<1> QED BY <1>1, <1>2, <1>3, <1>4, <1>5, <1>6, <1>7, <1>8 DEF Next

(* What the ledger lets pass has passed a review at full scope, all of it   *)
(* together, in every scene with at most two writes per capture.            *)
THEOREM ServedHasPassed == ASSUME Bounded PROVE Spec => []LedgerServesPassed
<1>1. Init => LedgerInv
  BY DEF Init, LedgerInv, LedgerServesPassed, Judging, NoGate
<1>2. LedgerInv /\ CaptureInv /\ [Next]_vars => LedgerInv' BY LedgerNext
<1>3. CaptureInv /\ [Next]_vars => CaptureInv' BY CaptureNext, ScopeAssumption
<1>4. LedgerInv => LedgerServesPassed BY DEF LedgerInv
<1> QED BY <1>1, <1>2, <1>3, <1>4, CaptureInit, ScopeAssumption, PTL DEF Spec

-----------------------------------------------------------------------------
(* What the session wrote is never in a baseline: a baseline is taken before *)
(* the session has written anything, and a trigger that writes an old        *)
(* manifest back writes a baseline that was taken before, too.  For this the *)
(* session has to be attended: it starts before it works, and its manifest   *)
(* does not expire while it may still work.                                  *)

Attended ==
    \A c \in Configs : c.own = {} \/ (~c.expires /\ (c.unstarted => c.left.starts = 0))

Fresh == left.own = config.left.own

\* A manifest that holds none of the session's contents.
Foreseen(m) ==
    m # None =>
        /\ m \in Manifests /\ (m.old => config.expires)
        /\ \A f \in DOMAIN m.baseline : m.baseline[f] \notin Own

Purse == left \in [own : Nat, other : Nat, commits : Nat, stops : Nat, starts : Nat, kills : Nat]

SessionInv ==
    /\ Purse /\ left.own <= config.left.own
    /\ config.own = {} => Fresh
    /\ Fresh => trigs = {} /\ \A f \in Files : tree[f] \notin Own
    /\ DOMAIN start = {"pc", "list"} /\ start.list \subseteq Files
    /\ start.pc # "idle" => Fresh
    /\ config.own # {} /\ config.unstarted => left.starts = 0
    /\ ~Fresh /\ ~config.unstarted => manifest # None
    /\ Foreseen(manifest)
    /\ \A t \in trigs : DOMAIN t = {"file", "pc", "read"} /\ t.file \in Files /\ Foreseen(t.read)

OwnInv == Shape /\ SessionInv /\ OwnWorkIsReviewed

LEMMA SpendDoes ==
    ASSUME Purse, NEW k \in {"own", "other", "commits", "stops", "starts", "kills"}, Spend(k)
    PROVE  /\ Purse' /\ left'[k] = left[k] - 1 /\ left[k] > 0
           /\ \A j \in {"own", "other", "commits", "stops", "starts", "kills"} \ {k} : left'[j] = left[j]
BY DEF Spend, Purse

\* A step that neither writes the session's contents nor touches its manifest.
LEMMA SessionKept ==
    ASSUME SessionInv, Purse', left'.own = left.own, left.starts = 0 => left'.starts = 0,
           UNCHANGED <<config, start, manifest, trigs>>,
           Fresh => \A f \in Files : tree'[f] \notin Own
    PROVE  SessionInv'
<1>1. Fresh' <=> Fresh BY DEF Fresh
<1>2. \A m : Foreseen(m)' <=> Foreseen(m)
  <2> TAKE m
  <2> QED BY DEF Foreseen
<1> QED BY <1>1, <1>2 DEF SessionInv

LEMMA SessionNext ==
    ASSUME SessionInv, Shape, Attended, ScopeAssumption, [Next]_vars
    PROVE  SessionInv'
<1> USE DEF world, memory
<1>0. /\ config \in Scenes
      /\ config.own = {} \/ (~config.expires /\ (config.unstarted => config.left.starts = 0))
  BY DEF Shape, ScopeAssumption, Attended
<1>1. CASE StartRead
  <2>1. /\ left'.own = left.own /\ left.starts > 0 /\ Purse' /\ left'.starts <= left.starts
        /\ left.starts \in Nat /\ left'.starts \in Nat
    BY <1>1, SpendDoes DEF StartRead, SessionInv, Purse
  <2>2. UNCHANGED <<config, tree, trigs>> BY <1>1 DEF StartRead
  <2>3. Fresh' <=> Fresh BY <2>1, <2>2 DEF Fresh
  <2>4. ~Fresh => Kept
    <3>1. ~Fresh => config.own # {} /\ ~config.unstarted BY <2>1 DEF SessionInv
    <3> QED BY <3>1, <1>0 DEF SessionInv, Kept, Foreseen
  <2>5. start'.pc # "idle" => Fresh'
    <3>1. ~Fresh => start' = [start EXCEPT !.pc = "idle"] BY <1>1, <2>4 DEF StartRead
    <3>2. ~Fresh => start'.pc = "idle" BY <3>1 DEF SessionInv
    <3> QED BY <3>2, <2>3
  <2>6. manifest' = manifest \/ (manifest' = None /\ Fresh)
    BY <1>1, <2>4 DEF StartRead, Kept
  <2>7. \A m : Foreseen(m)' <=> Foreseen(m)
    <3> TAKE m
    <3> QED BY <2>2 DEF Foreseen
  <2>8. Foreseen(manifest)' BY <2>2, <2>6 DEF Foreseen, SessionInv
  <2>9. \A t \in trigs' : DOMAIN t = {"file", "pc", "read"} /\ t.file \in Files /\ Foreseen(t.read)'
    BY <2>2, <2>7 DEF SessionInv
  <2>10. DOMAIN start' = {"pc", "list"} /\ start'.list \subseteq Files
    <3> DEFINE pc == IF Kept THEN "idle" ELSE "list"
    <3>1. start' = [start EXCEPT !.pc = pc] BY <1>1 DEF StartRead
    <3> HIDE DEF pc
    <3> QED BY <3>1 DEF SessionInv
  <2> QED BY <2>1, <2>2, <2>3, <2>5, <2>6, <2>8, <2>9, <2>10 DEF SessionInv
<1>2. CASE StartList
  <2>1. UNCHANGED <<config, tree, trigs, left, manifest>> /\ start.pc = "list" BY <1>2 DEF StartList
  <2>2. Fresh /\ Fresh' BY <2>1 DEF SessionInv, Fresh
  <2>3. \A m : Foreseen(m)' <=> Foreseen(m)
    <3> TAKE m
    <3> QED BY <2>1 DEF Foreseen
  <2>4. DOMAIN start' = {"pc", "list"} /\ start'.list \subseteq Files
    <3>1. PICK list \in DirtyLists : start' = [pc |-> "write", list |-> list] BY <1>2 DEF StartList
    <3>2. list \subseteq Files BY <3>1 DEF DirtyLists, Dirty, Untracked
    <3> QED BY <3>1, <3>2
  <2> QED BY <2>1, <2>2, <2>3, <2>4 DEF SessionInv, Purse
<1>3. CASE StartWrite
  <2>1. UNCHANGED <<config, tree, trigs, left>> /\ start.pc = "write" BY <1>3 DEF StartWrite
  <2>2. Fresh /\ Fresh' BY <2>1 DEF SessionInv, Fresh
  <2>3. Foreseen(manifest)'
    <3> DEFINE noted == [f \in {f \in start.list : Readable(f)} |-> tree[f]]
    <3>1. manifest' = [Blank EXCEPT !.baseline = noted] BY <1>3 DEF StartWrite
    <3>2. \A f \in DOMAIN noted : noted[f] \notin Own
      <4> SUFFICES ASSUME NEW f \in DOMAIN noted PROVE tree[f] \notin Own OBVIOUS
      <4>1. f \in Files BY DEF SessionInv
      <4> QED BY <4>1, <2>2 DEF SessionInv
    <3>4. {f \in start.list : Readable(f)} \subseteq Files BY DEF SessionInv
    <3>5. noted \in UNION {[S -> Contents] : S \in SUBSET Files}
      <4>1. \A f \in Files : tree[f] \in Contents BY DEF Shape
      <4>2. noted \in [{f \in start.list : Readable(f)} -> Contents] BY <3>4, <4>1
      <4> QED BY <3>4, <4>2
    <3> HIDE DEF noted
    <3>3. manifest' \in Manifests /\ manifest'.old = FALSE /\ manifest'.baseline = noted
      BY <3>1, <3>5 DEF Blank, Manifests
    <3> QED BY <3>2, <3>3 DEF Foreseen
  <2>4. trigs' = {} BY <2>1, <2>2 DEF SessionInv
  <2> QED BY <1>3, <2>1, <2>2, <2>3, <2>4 DEF SessionInv, Purse, StartWrite
<1>4. CASE Expire
  <2>1. /\ UNCHANGED <<config, tree, trigs, left, start>> /\ config.expires /\ manifest # None
        /\ manifest' = [manifest EXCEPT !.old = TRUE]
    BY <1>4 DEF Expire
  <2>2. Fresh' <=> Fresh BY <2>1 DEF Fresh
  <2>3. \A m : Foreseen(m)' <=> Foreseen(m)
    <3> TAKE m
    <3> QED BY <2>1 DEF Foreseen
  <2>4. manifest \in Manifests BY <2>1 DEF SessionInv, Foreseen
  <2>5. manifest' \in Manifests /\ manifest'.baseline = manifest.baseline
    BY <2>1, <2>4 DEF Manifests
  <2>6. Foreseen(manifest)' BY <2>1, <2>5 DEF SessionInv, Foreseen
  <2>7. Fresh BY <2>1, <1>0 DEF SessionInv
  <2> QED BY <2>1, <2>2, <2>3, <2>6, <2>7 DEF SessionInv, Purse
<1>5. ASSUME NEW f \in Files, NEW c \in config.own, NEW tool \in BOOLEAN, Edit(f, c, tool)
      PROVE  SessionInv'
  <2>1. /\ UNCHANGED <<config, start, manifest>> /\ start.pc = "idle"
        /\ manifest = None => config.unstarted
    BY <1>5 DEF Edit, Working
  <2>2. /\ Purse' /\ left'.own = left.own - 1 /\ left.own \in Nat /\ left.own > 0
        /\ left'.own \in Nat /\ left'.starts = left.starts
    BY <1>5, SpendDoes DEF Edit, SessionInv, Purse
  <2>3. config.left.own \in Nat BY <1>0 DEF Scenes
  <2>4. ~Fresh' /\ left'.own <= config'.left.own BY <2>1, <2>2, <2>3 DEF SessionInv, Fresh
  <2>5. \A m : Foreseen(m)' <=> Foreseen(m)
    <3> TAKE m
    <3> QED BY <2>1 DEF Foreseen
  <2>6. \A t \in trigs' : DOMAIN t = {"file", "pc", "read"} /\ t.file \in Files /\ Foreseen(t.read)
    <3>1. \A t \in trigs' : t \in trigs \/ t = [file |-> f, pc |-> "read", read |-> None]
      BY <1>5 DEF Edit
    <3> QED BY <3>1 DEF SessionInv, Foreseen
  <2>7. config.own # {} OBVIOUS
  <2> QED BY <2>1, <2>2, <2>4, <2>5, <2>6, <2>7 DEF SessionInv
<1>6. ASSUME NEW t \in trigs, TriggerRead(t) PROVE SessionInv'
  <2>1. UNCHANGED <<config, tree, left, start, manifest>> BY <1>6 DEF TriggerRead
  <2>2. \A m : Foreseen(m)' <=> Foreseen(m)
    <3> TAKE m
    <3> QED BY <2>1 DEF Foreseen
  <2>3. ~Fresh BY DEF SessionInv
  <2>4. \A u \in trigs' : DOMAIN u = {"file", "pc", "read"} /\ u.file \in Files /\ Foreseen(u.read)
    <3> DEFINE after == [t EXCEPT !.pc = "write", !.read = manifest]
    <3>1. DOMAIN t = {"file", "pc", "read"} BY DEF SessionInv
    <3>2. DOMAIN after = {"file", "pc", "read"} /\ after.read = manifest /\ after.file = t.file BY <3>1
    <3>3. \A u \in trigs' : u \in trigs \/ u = after BY <1>6 DEF TriggerRead
    <3> HIDE DEF after
    <3> QED BY <3>2, <3>3 DEF SessionInv
  <2>5. ~Fresh' BY <2>1, <2>3 DEF Fresh
  <2> QED BY <2>1, <2>2, <2>3, <2>4, <2>5 DEF SessionInv, Purse
<1>7. ASSUME NEW t \in trigs, TriggerWrite(t) PROVE SessionInv'
  <2>1. UNCHANGED <<config, tree, left, start>> /\ trigs' \subseteq trigs BY <1>7 DEF TriggerWrite
  <2>2. \A m : Foreseen(m)' <=> Foreseen(m)
    <3> TAKE m
    <3> QED BY <2>1 DEF Foreseen
  <2>3. ~Fresh /\ ~Fresh' BY <2>1 DEF SessionInv, Fresh
  <2>4. Foreseen(manifest)' /\ (manifest # None => manifest' # None)
    <3> DEFINE m == IF t.read = None THEN Blank ELSE t.read
               owned == m.owned \cup {t.file}
    <3>1. Blank \in Manifests /\ Blank.old = FALSE /\ DOMAIN Blank.baseline = {}
      BY DEF Blank, Manifests
    <3>2. /\ m \in Manifests /\ (m.old => config.expires)
          /\ \A f \in DOMAIN m.baseline : m.baseline[f] \notin Own
      BY <3>1 DEF SessionInv, Foreseen
    <3>3. manifest' = manifest \/ manifest' = [m EXCEPT !.owned = owned]
      BY <1>7 DEF TriggerWrite
    <3>4. owned \in SUBSET Files BY <3>2 DEF Manifests, SessionInv
    <3> HIDE DEF m, owned
    <3>5. [m EXCEPT !.owned = owned] \in Manifests BY <3>2, <3>4 DEF Manifests
    <3>6. [m EXCEPT !.owned = owned].baseline = m.baseline /\ [m EXCEPT !.owned = owned].old = m.old
      BY <3>2 DEF Manifests
    <3>7. [m EXCEPT !.owned = owned] # None BY <3>5 DEF ScopeAssumption
    <3>8. CASE manifest' = manifest BY <2>2, <3>8 DEF SessionInv
    <3>9. CASE manifest' = [m EXCEPT !.owned = owned]
      BY <2>1, <3>2, <3>5, <3>6, <3>7, <3>9 DEF Foreseen
    <3> QED BY <3>3, <3>8, <3>9
  <2> QED BY <2>1, <2>2, <2>3, <2>4 DEF SessionInv, Purse
<1>8. ASSUME NEW f \in Files, NEW c \in config.other, OtherWrite(f, c) PROVE SessionInv'
  <2>1. /\ UNCHANGED <<config, start, manifest, trigs>> /\ tree' = [tree EXCEPT ![f] = c]
        /\ c \in Own => left.own < config.left.own
    BY <1>8 DEF OtherWrite, Put
  <2>2. Purse' /\ left'.own = left.own /\ left'.starts = left.starts
    BY <1>8, SpendDoes DEF OtherWrite, SessionInv
  <2>3. c \in Own => ~Fresh BY <2>1, <2>2, <1>0 DEF Fresh, Purse, Scenes, SessionInv
  <2>4. Fresh => \A g \in Files : tree'[g] \notin Own BY <2>1, <2>3 DEF SessionInv, Shape
  <2> QED BY <2>1, <2>2, <2>4, SessionKept
<1>9. CASE Stop \/ Kill \/ \E S \in SUBSET Files : Commit(S)
  <2>1. UNCHANGED <<config, tree, start, manifest, trigs>> BY <1>9 DEF Stop, Kill, Commit
  <2>2. Purse' /\ left'.own = left.own /\ left'.starts = left.starts
    BY <1>9, SpendDoes DEF Stop, Kill, Commit, SessionInv
  <2>3. Fresh => \A g \in Files : tree'[g] \notin Own BY <2>1 DEF SessionInv
  <2> QED BY <2>1, <2>2, <2>3, SessionKept
<1>10. CASE UNCHANGED <<config, tree, left, start, manifest, trigs>>
  <2>1. Purse' BY <1>10 DEF SessionInv, Purse
  <2>2. Fresh => \A g \in Files : tree'[g] \notin Own BY <1>10 DEF SessionInv
  <2> QED BY <1>10, <2>1, <2>2, SessionKept
<1>11. CASE \/ ReadDiff \/ ReadHash \/ ReadFiles \/ ListDirty \/ Serve \/ Nothing \/ RecordServed \/ Rearm
            \/ \E verdict \in {"PASS", "FAIL", "ERROR"}, blocking \in SUBSET Files : Review(verdict, blocking)
            \/ \E complete \in BOOLEAN : Record(complete)
  BY <1>10, <1>11 DEF ReadDiff, ReadHash, ReadFiles, ListDirty, Serve, Nothing, RecordServed, Rearm,
     Review, Record
<1> QED BY <1>1, <1>2, <1>3, <1>4, <1>5, <1>6, <1>7, <1>8, <1>9, <1>10, <1>11 DEF Next, vars

\* A step after the capture keeps what it found to be foreign.
LEMMA ForeignKept ==
    ASSUME OwnWorkIsReviewed, ~Judging' \/ (Judging /\ UNCHANGED <<gate.foreign, gate.live>>)
    PROVE  OwnWorkIsReviewed'
BY DEF OwnWorkIsReviewed

LEMMA ForeignNext ==
    ASSUME OwnInv, [Next]_vars
    PROVE  OwnWorkIsReviewed'
<1> USE DEF world, memory, OwnInv
<1>1. CASE UNCHANGED gate BY <1>1 DEF OwnWorkIsReviewed, Judging
<1>2. CASE \/ StartRead \/ StartList \/ StartWrite \/ Expire \/ Rearm \/ UNCHANGED vars
           \/ \E f \in Files, c \in config.own, tool \in BOOLEAN : Edit(f, c, tool)
           \/ \E t \in trigs : TriggerRead(t) \/ TriggerWrite(t)
  BY <1>1, <1>2 DEF Edit, TriggerRead, TriggerWrite, StartRead, StartList, StartWrite, Expire, Rearm, vars
<1>3. CASE \/ \E f \in Files, c \in config.other : OtherWrite(f, c)
           \/ \E S \in SUBSET Files : Commit(S)
  <2>1. UNCHANGED <<gate.pc, gate.foreign, gate.live>>
    BY <1>3, DisturbDoes DEF OtherWrite, Commit, GateFields
  <2>2. ~Judging => ~Judging' BY <2>1 DEF Judging
  <2>3. ~Judging' \/ (Judging /\ UNCHANGED <<gate.foreign, gate.live>>) BY <2>1, <2>2
  <2> QED BY <2>3, ForeignKept
<1>4. CASE Stop \/ ReadDiff \/ ReadHash
  <2>1. gate'.pc \in {"diff", "hash", "files"} BY <1>4, StopDoes, ReadDiffDoes, ReadHashDoes
  <2>2. ~Judging' BY <2>1 DEF Judging
  <2> QED BY <2>2, ForeignKept
<1>5. CASE ReadFiles
  <2>1. CASE gate'.pc = "diff" BY <2>1, ForeignKept DEF Judging
  <2>2. CASE gate'.foreign = Foreign /\ gate'.live = tree
    <3>1. \A f \in Foreign : tree[f] \notin Own BY DEF Foreign, SessionInv, Foreseen
    <3> QED BY <2>2, <3>1 DEF OwnWorkIsReviewed
  <2> QED BY <1>5, <2>1, <2>2, ReadFilesDoes
<1>6. CASE \/ ListDirty \/ Serve
           \/ \E verdict \in {"PASS", "FAIL", "ERROR"}, blocking \in SUBSET Files : Review(verdict, blocking)
  <2> DEFINE delta == Delta
             attributable == Attributable(gate.d, gate.dirtyNow)
  <2>1. PICK list, verdict, blocking :
          /\ \/ gate' = [gate EXCEPT !.pc = "panel", !.dirtyNow = list]
             \/ gate' = [gate EXCEPT !.pc = "served"]
             \/ gate' = [gate EXCEPT !.pc = "reported", !.verdict = verdict, !.blocking = blocking,
                                     !.delta = delta, !.attributable = attributable]
          /\ gate.pc \in {"list", "panel"}
    BY <1>6 DEF Review, ListDirty, Serve
  <2> HIDE DEF delta, attributable
  <2>2. UNCHANGED <<gate.foreign, gate.live>> BY <2>1 DEF Shape, GateFields
  <2>3. Judging BY <2>1 DEF Judging
  <2> QED BY <2>2, <2>3, ForeignKept
<1>7. CASE Nothing \/ RecordServed \/ Kill \/ \E complete \in BOOLEAN : Record(complete)
  <2>1. gate' = NoGate BY <1>7 DEF Nothing, RecordServed, Kill, Record
  <2>2. ~Judging' BY <2>1 DEF Judging, NoGate
  <2> QED BY <2>2, ForeignKept
<1> QED BY <1>2, <1>3, <1>4, <1>5, <1>6, <1>7 DEF Next

LEMMA OwnInit == Init /\ ScopeAssumption /\ Attended => OwnInv
<1> SUFFICES ASSUME Init, ScopeAssumption, Attended PROVE OwnInv OBVIOUS
<1>1. config \in Scenes /\ gate = NoGate /\ Shape BY CaptureInit DEF Init, ScopeAssumption, CaptureInv
<1>2. left = config.left /\ Purse BY <1>1 DEF Init, Purse, Scenes
<1>3. \A f \in Files : tree[f] \notin Own
  <2>1. \A f \in Files : config.head[f] \notin Own BY <1>1 DEF Scenes
  <2> QED BY <2>1 DEF Init, Own
<1>4. start = [pc |-> "idle", list |-> {}] /\ manifest = None /\ trigs = {} BY DEF Init
<1>6. config.own # {} /\ config.unstarted => left.starts = 0 BY <1>2 DEF Init, Attended
<1>5. left.own <= config.left.own /\ Fresh BY <1>2 DEF Purse, Fresh
<1> QED BY <1>1, <1>2, <1>3, <1>4, <1>5, <1>6 DEF OwnInv, SessionInv, Foreseen, OwnWorkIsReviewed, Judging, NoGate

(* What the session wrote is never treated as somebody else's, however       *)
(* often the session is resumed and in whatever order its triggers write the *)
(* manifest, if the session starts before it works and its manifest does not *)
(* expire while it may.                                                      *)
THEOREM OwnStaysOwn == ASSUME Attended PROVE Spec => []OwnWorkIsReviewed
<1>1. OwnInv /\ [Next]_vars => OwnInv'
  BY ShapeNext, SessionNext, ForeignNext, ScopeAssumption DEF OwnInv
<1>2. OwnInv => OwnWorkIsReviewed BY DEF OwnInv
<1> QED BY <1>1, <1>2, OwnInit, ScopeAssumption, PTL DEF Spec

\* What the gate listed before the panel judged still has every file with uncommitted
\* work of the session.
ListedInv ==
    gate.pc = "panel" => \A f \in Dirty : tree[f] \in Own => f \in gate.dirtyNow

LEMMA ListedNext ==
    ASSUME Shape, ListedInv, ScopeAssumption, ~GitFails, [Next]_vars
    PROVE  ListedInv'
<1> USE DEF world, memory
<1>1. CASE UNCHANGED <<tree, head, gate>> BY <1>1 DEF ListedInv, Dirty
<1>2. CASE \/ StartRead \/ StartList \/ StartWrite \/ Expire \/ Rearm \/ UNCHANGED vars
           \/ \E t \in trigs : TriggerRead(t) \/ TriggerWrite(t)
  BY <1>1, <1>2 DEF TriggerRead, TriggerWrite, StartRead, StartList, StartWrite, Expire, Rearm, vars
<1>3. CASE gate'.pc # "panel" BY <1>3 DEF ListedInv
<1>4. CASE \E f \in Files, c \in config.own, tool \in BOOLEAN : Edit(f, c, tool)
  BY <1>3, <1>4 DEF Edit, Working
<1>5. ASSUME NEW f \in Files, NEW c \in config.other, OtherWrite(f, c) PROVE ListedInv'
  <2>1. CASE Capturing
    <3>1. gate'.pc = gate.pc BY <1>5, <2>1, DisturbDoes DEF OtherWrite, GateFields
    <3> QED BY <3>1, <2>1, <1>3 DEF Capturing
  <2>2. CASE ~Capturing
    <3>1. gate' = gate /\ head' = head /\ tree' = [tree EXCEPT ![f] = c] /\ c \notin Own
      BY <1>5, <2>2, DisturbDoes DEF OtherWrite, Put
    <3> QED BY <3>1 DEF ListedInv, Dirty, Shape
  <2> QED BY <2>1, <2>2
<1>6. ASSUME NEW S \in SUBSET Files, Commit(S) PROVE ListedInv'
  <2>1. CASE Capturing
    <3>1. gate'.pc = gate.pc BY <1>6, <2>1, DisturbDoes DEF Commit, GateFields
    <3> QED BY <3>1, <2>1, <1>3 DEF Capturing
  <2>2. CASE ~Capturing
    <3>1. gate' = gate /\ tree' = tree /\ head' = [f \in Files |-> IF f \in S THEN tree[f] ELSE head[f]]
      BY <1>6, <2>2, DisturbDoes DEF Commit
    <3>2. Dirty' \subseteq Dirty BY <3>1 DEF Dirty
    <3> QED BY <3>1, <3>2 DEF ListedInv
  <2> QED BY <2>1, <2>2
<1>7. CASE Stop \/ ReadDiff \/ ReadHash \/ ReadFiles
  <2>1. gate'.pc \in {"diff", "hash", "files", "list"}
    BY <1>7, StopDoes, ReadDiffDoes, ReadHashDoes, ReadFilesDoes
  <2> QED BY <2>1, <1>3
<1>8. CASE ListDirty
  <2>1. UNCHANGED <<tree, head>> /\ gate' = [gate EXCEPT !.pc = "panel", !.dirtyNow = Dirty]
    BY <1>8 DEF ListDirty, DirtyLists
  <2> HIDE DEF Dirty
  <2>2. gate'.dirtyNow = Dirty BY <2>1 DEF Shape, GateFields
  <2>3. Dirty' = Dirty BY <2>1 DEF Dirty
  <2> QED BY <2>2, <2>3 DEF ListedInv
<1>9. CASE Serve
  <2>1. gate'.pc = "served" BY <1>9 DEF Serve, Shape, GateFields
  <2> QED BY <2>1, <1>3
<1>10. CASE \E verdict \in {"PASS", "FAIL", "ERROR"}, blocking \in SUBSET Files : Review(verdict, blocking)
  <2> DEFINE delta == Delta
             attributable == Attributable(gate.d, gate.dirtyNow)
  <2>1. PICK verdict, blocking :
          gate' = [gate EXCEPT !.pc = "reported", !.verdict = verdict, !.blocking = blocking,
                                !.delta = delta, !.attributable = attributable]
    BY <1>10 DEF Review
  <2> HIDE DEF delta, attributable
  <2>2. gate'.pc = "reported" BY <2>1 DEF Shape, GateFields
  <2> QED BY <2>2, <1>3
<1>11. CASE Nothing \/ RecordServed \/ Kill \/ \E complete \in BOOLEAN : Record(complete)
  <2>1. gate' = NoGate BY <1>11 DEF Nothing, RecordServed, Kill, Record
  <2> QED BY <2>1, <1>3 DEF NoGate
<1> QED BY <1>2, <1>4, <1>5, <1>6, <1>7, <1>8, <1>9, <1>10, <1>11 DEF Next

\* The report of such a file says that it is the session's.
LEMMA Disowned ==
    ASSUME OwnInv, ListedInv, NEW verdict, NEW blocking, Review(verdict, blocking),
           NEW f \in Facts(gate.d), tree[f] \in Own, f \in Dirty
    PROVE  f \in gate'.attributable
<1> DEFINE delta == Delta
           attributable == Attributable(gate.d, gate.dirtyNow)
<1>1. /\ gate' = [gate EXCEPT !.pc = "reported", !.verdict = verdict, !.blocking = blocking,
                             !.delta = delta, !.attributable = attributable]
      /\ gate.pc = "panel"
  BY DEF Review
<1>2. f \in gate.dirtyNow BY <1>1 DEF ListedInv
<1>3. manifest # None /\ f \in DOMAIN manifest.baseline => tree[f] # manifest.baseline[f]
  BY DEF OwnInv, SessionInv, Foreseen
<1>4. f \in attributable BY <1>2, <1>3 DEF Attributable
<1> HIDE DEF delta, attributable
<1> QED BY <1>1, <1>4 DEF OwnInv, Shape, GateFields

LEMMA NotDisowned ==
    ASSUME OwnInv, ListedInv, [Next]_vars, gate.pc = "panel", gate'.pc = "reported",
           NEW f \in Facts(gate.d), tree[f] \in Own, f \in Dirty
    PROVE  f \in gate'.attributable
<1> USE DEF OwnInv
<1>1. CASE \E verdict \in {"PASS", "FAIL", "ERROR"}, blocking \in SUBSET Files : Review(verdict, blocking)
  BY <1>1, Disowned
<1>2. CASE \/ StartRead \/ StartList \/ StartWrite \/ Expire \/ Rearm \/ UNCHANGED vars
           \/ \E t \in trigs : TriggerRead(t) \/ TriggerWrite(t)
           \/ \E g \in Files, c \in config.own, tool \in BOOLEAN : Edit(g, c, tool)
  BY <1>2 DEF TriggerRead, TriggerWrite, StartRead, StartList, StartWrite, Expire, Rearm, Edit, vars
<1>3. CASE \/ \E g \in Files, c \in config.other : OtherWrite(g, c)
           \/ \E S \in SUBSET Files : Commit(S)
  BY <1>3, DisturbDoes DEF OtherWrite, Commit, GateFields
<1>4. CASE Stop \/ ReadDiff \/ ReadHash \/ ReadFiles \/ ListDirty
  BY <1>4 DEF Stop, ReadDiff, ReadHash, ReadFiles, ListDirty
<1>5. CASE Serve BY <1>5 DEF Serve, Shape, GateFields
<1>6. CASE Nothing \/ RecordServed \/ Kill \/ \E complete \in BOOLEAN : Record(complete)
  <2>1. gate' = NoGate BY <1>6 DEF Nothing, RecordServed, Kill, Record
  <2> QED BY <2>1 DEF NoGate
<1> QED BY <1>1, <1>2, <1>3, <1>4, <1>5, <1>6 DEF Next

(* While a file holds uncommitted work of the session that the panel was     *)
(* shown, the report says so, if no git command fails and the session is     *)
(* attended.                                                                 *)
THEOREM OwnIsNotDisowned == ASSUME Attended, ~GitFails PROVE Spec => OwnWorkNotDisowned
<1>1. OwnInv /\ [Next]_vars => OwnInv'
  BY ShapeNext, SessionNext, ForeignNext, ScopeAssumption DEF OwnInv
<1>2. ListedInv /\ OwnInv /\ [Next]_vars => ListedInv' BY ListedNext, ScopeAssumption DEF OwnInv
<1>3. Init => ListedInv BY DEF Init, ListedInv, NoGate
<1>4. OwnInv /\ ListedInv /\ [Next]_vars =>
        [gate.pc = "panel" /\ gate'.pc = "reported" =>
          \A f \in Facts(gate.d) :
              gate.d.shown[f] \in Own /\ tree[f] = gate.d.shown[f] /\ f \in Dirty =>
                  f \in gate'.attributable]_vars
  BY NotDisowned
<1> QED BY <1>1, <1>2, <1>3, <1>4, OwnInit, ScopeAssumption, PTL DEF Spec, OwnWorkNotDisowned

-----------------------------------------------------------------------------
(* The audit log.                                                            *)


Steps == {"off", "pruning", "ready", "linked", "over"}
Events == Loggers \X Nat
Refs == Nat \X Events
LineSet == [event : Events, prev : Events \cup {NoEvent}, ref : Refs \cup {NoEvent}]
FileSet == [lines : Seq(LineSet), cut : BOOLEAN]
LoggerSet ==
    [pc : Steps, since : Nat, day : Nat, last : Events \cup {NoEvent}, sent : Nat, trace : Refs \cup {NoEvent}]

AuditTypeOK ==
    /\ today \in Nat \ {0}
    /\ logger \in [Loggers -> LoggerSet]
    /\ \A path \in DOMAIN logs : path \in Nat \X Loggers /\ logs[path] \in FileSet

Runs(g) == logger[g].pc \notin {"off", "over"}

\* A gate that runs began today or yesterday, and so did its file.
GatesAreShort ==
    \A g \in Loggers :
        /\ logger[g].since <= today /\ logger[g].day <= today
        /\ Runs(g) => today <= logger[g].since + 1
        /\ Runs(g) /\ logger[g].day # 0 => logger[g].since <= logger[g].day

\* A gate that has not begun has written nothing, and each writes one file.
OneFileEach ==
    /\ \A g \in Loggers : logger[g].pc = "off" => logger[g].day = 0 /\ logger[g].last = NoEvent /\ logger[g].trace = NoEvent
    /\ \A g \in Loggers : logger[g].pc = "linked" => logger[g].day # 0
    /\ \A path \in DOMAIN logs : logger[path[2]].day = path[1] /\ path[1] # 0

LastEvent(lines) == IF lines = <<>> THEN NoEvent ELSE lines[Len(lines)].event

\* What a gate remembers is the last line of its file.
Remembers(g, last, path) ==
    IF path \in DOMAIN logs THEN ~logs[path].cut => last = LastEvent(logs[path].lines) ELSE last = NoEvent
MemoryIsTrue ==
    \A g \in Loggers : Runs(g) => Remembers(g, logger[g].last, FilePath(g))

Chained(lines) == \A i \in DOMAIN lines : ChainHolds(lines, i)

\* A trace of a day that may be referred to, unless it is too old.
TraceKept(ref, day) == ref # NoEvent => ref[1] = day /\ (TooOld(day) \/ (ref \in DOMAIN traces /\ traces[ref] = 1))

LogsAreWhole ==
    \A path \in DOMAIN logs :
        /\ ~logs[path].cut => Chained(logs[path].lines)
        /\ \A i \in DOMAIN logs[path].lines : TraceKept(logs[path].lines[i].ref, path[1])
TracesAreKept ==
    \A g \in Loggers : Runs(g) /\ logger[g].trace # NoEvent => logger[g].day # 0 /\ TraceKept(logger[g].trace, logger[g].day)

AuditInv ==
    AuditTypeOK /\ GatesAreShort /\ OneFileEach /\ MemoryIsTrue /\ LogsAreWhole /\ TracesAreKept

(***************************************************************************)
(* Files.                                                                  *)
(***************************************************************************)

LEMMA InvHonest == AuditInv => HonestReadsWhole
  <1>. SUFFICES ASSUME AuditInv, NEW path \in DOMAIN logs, ~logs[path].cut, path[1] + 1 + Retention > today
                PROVE  Verifies(path)
    BY DEF HonestReadsWhole
  <1>1. ~TooOld(path[1])
    BY AuditAssumption DEF AuditInv, AuditTypeOK, TooOld
  <1>. QED
    BY <1>1 DEF AuditInv, LogsAreWhole, Verifies, Chained, ReferenceHolds, TraceKept

\* A running gate writes a file of a day that is not too old.
LEMMA WritesToday ==
  ASSUME AuditInv, NEW g \in Loggers, Runs(g)
  PROVE  /\ PartitionDate(g) \in Nat \ {0} /\ PartitionDate(g) <= today /\ logger[g].since <= PartitionDate(g)
         /\ ~TooOld(PartitionDate(g))
  BY AuditAssumption DEF AuditInv, AuditTypeOK, LoggerSet, GatesAreShort, PartitionDate, TooOld

\* A gate that has chosen no day has no file.
LEMMA NoDayNoFile ==
  ASSUME AuditInv, NEW g \in Loggers, NEW path \in DOMAIN logs, path[2] = g
  PROVE  path = FilePath(g) /\ logger[g].day # 0
  BY DEF AuditInv, AuditTypeOK, OneFileEach, FilePath, Basename, PartitionDate

\* What is kept stays kept as days pass and old traces go.
LEMMA KeptStays ==
  ASSUME NEW ref, NEW day \in Nat, TraceKept(ref, day), today \in Nat, today' \in Nat, today <= today',
         \A t \in DOMAIN traces : traces[t] = 1 /\ ~TooOld(t[1]) => t \in DOMAIN traces' /\ traces'[t] = 1
  PROVE  TraceKept(ref, day)'
  BY AuditAssumption DEF TraceKept, TooOld

\* A step that leaves the logs alone.
LEMMA SameLogs ==
  ASSUME AuditInv, logs' = logs, today' \in Nat, today <= today',
         \A t \in DOMAIN traces : traces[t] = 1 /\ ~TooOld(t[1]) => t \in DOMAIN traces' /\ traces'[t] = 1
  PROVE  LogsAreWhole'
  <1>. SUFFICES ASSUME NEW path \in DOMAIN logs
                PROVE  /\ ~logs[path].cut => Chained(logs[path].lines)
                       /\ \A i \in DOMAIN logs[path].lines : TraceKept(logs[path].lines[i].ref, path[1])'
    BY DEF LogsAreWhole, Chained, ChainHolds
  <1>1. ~logs[path].cut => Chained(logs[path].lines)
    BY DEF AuditInv, LogsAreWhole
  <1>2. \A i \in DOMAIN logs[path].lines : TraceKept(logs[path].lines[i].ref, path[1])
    BY DEF AuditInv, LogsAreWhole
  <1>3. path[1] \in Nat /\ today \in Nat
    BY DEF AuditInv, AuditTypeOK
  <1>4. \A i \in DOMAIN logs[path].lines : TraceKept(logs[path].lines[i].ref, path[1])'
    BY <1>2, <1>3, KeptStays
  <1>. QED
    BY <1>1, <1>4

\* A step of one gate that leaves its files, its trace and the clock alone.
LEMMA GateMoves ==
  ASSUME AuditInv, NEW g \in Loggers, NEW pc \in Steps, pc # "off", pc = "linked" => logger[g].day # 0,
         Runs(g) \/ pc = "over", logger' = [logger EXCEPT ![g].pc = pc], UNCHANGED <<today, logs, traces>>
  PROVE  AuditInv'
  <1>1. \A h \in Loggers : h # g => logger'[h] = logger[h]
    BY DEF AuditInv, AuditTypeOK
  <1>2. logger'[g] = [logger[g] EXCEPT !.pc = pc]
    BY DEF AuditInv, AuditTypeOK
  <1>3. /\ logger'[g].pc = pc /\ logger'[g].since = logger[g].since /\ logger'[g].day = logger[g].day
        /\ logger'[g].last = logger[g].last /\ logger'[g].trace = logger[g].trace
    BY <1>2 DEF AuditInv, AuditTypeOK, LoggerSet
  <1>4. \A h \in Loggers : Runs(h)' => Runs(h)
    BY <1>1, <1>3 DEF Runs
  <1>5. AuditTypeOK'
    BY <1>2 DEF AuditInv, AuditTypeOK, LoggerSet
  <1>6. GatesAreShort'
    BY <1>1, <1>3, <1>4 DEF AuditInv, GatesAreShort
  <1>7. OneFileEach'
    BY <1>1, <1>3 DEF AuditInv, AuditTypeOK, OneFileEach
  <1>8. MemoryIsTrue'
    BY <1>1, <1>3, <1>4 DEF AuditInv, MemoryIsTrue, Remembers, FilePath, Basename, PartitionDate
  <1>9. LogsAreWhole'
    BY SameLogs DEF AuditInv, AuditTypeOK
  <1>10. TracesAreKept'
    BY <1>1, <1>3, <1>4 DEF AuditInv, TracesAreKept, TraceKept, TooOld
  <1>. QED
    BY <1>5, <1>6, <1>7, <1>8, <1>9, <1>10 DEF AuditInv

LEMMA StartInv ==
  ASSUME AuditInv, NEW g \in Loggers, StartLogger(g)
  PROVE  AuditInv'
  <1>1. /\ logger[g].pc = "off" /\ logger' = [logger EXCEPT ![g].pc = "pruning", ![g].since = today]
        /\ today' = today /\ logs' = logs /\ traces' = traces
    BY DEF StartLogger
  <1>2. \A h \in Loggers : h # g => logger'[h] = logger[h]
    BY <1>1 DEF AuditInv, AuditTypeOK
  <1>3. logger'[g] = [logger[g] EXCEPT !.pc = "pruning", !.since = today]
    BY <1>1 DEF AuditInv, AuditTypeOK
  <1>4. /\ logger'[g].pc = "pruning" /\ logger'[g].since = today /\ logger'[g].day = logger[g].day
        /\ logger'[g].last = logger[g].last /\ logger'[g].trace = logger[g].trace
    BY <1>3 DEF AuditInv, AuditTypeOK, LoggerSet
  <1>5. logger[g].day = 0 /\ logger[g].last = NoEvent /\ logger[g].trace = NoEvent
    BY <1>1 DEF AuditInv, OneFileEach
  <1>6. AuditTypeOK'
    BY <1>1, <1>3 DEF AuditInv, AuditTypeOK, LoggerSet, Steps
  <1>7. GatesAreShort'
    BY <1>1, <1>2, <1>4, <1>5 DEF AuditInv, AuditTypeOK, GatesAreShort, Runs
  <1>8. OneFileEach'
    BY <1>1, <1>2, <1>4 DEF AuditInv, AuditTypeOK, OneFileEach
  <1>9. Remembers(g, logger[g].last, FilePath(g))'
    <2>1. FilePath(g) \notin DOMAIN logs
      BY <1>5, NoDayNoFile DEF FilePath, Basename
    <2>2. FilePath(g)' = FilePath(g)
      BY <1>1, <1>4 DEF FilePath, Basename, PartitionDate
    <2>. QED
      BY <1>1, <1>4, <1>5, <2>1, <2>2 DEF Remembers
  <1>10. MemoryIsTrue'
    BY <1>1, <1>2, <1>9 DEF AuditInv, MemoryIsTrue, Remembers, FilePath, Basename, PartitionDate, Runs
  <1>11. LogsAreWhole'
    BY <1>1, SameLogs DEF AuditInv, AuditTypeOK
  <1>12. TracesAreKept'
    BY <1>1, <1>2, <1>4, <1>5 DEF AuditInv, TracesAreKept, TraceKept, TooOld, Runs
  <1>. QED
    BY <1>6, <1>7, <1>8, <1>10, <1>11, <1>12 DEF AuditInv

\* What a gate remembers of its file is not disturbed by what goes with the old days.
LEMMA PruneInv ==
  ASSUME AuditInv, NEW g \in Loggers, PruneOne(g)
  PROVE  AuditInv'
  <1>1. today' = today /\ logger' = logger
    BY DEF PruneOne
  <1>2. \A t \in DOMAIN traces : ~TooOld(t[1]) => t \in DOMAIN traces' /\ traces'[t] = traces[t]
    BY DEF PruneOne
  <1>3. \A path \in DOMAIN logs' : path \in DOMAIN logs /\ logs'[path] = logs[path]
    BY DEF PruneOne
  <1>4. \A path \in DOMAIN logs : ~TooOld(path[1]) => path \in DOMAIN logs'
    BY DEF PruneOne
  <1>5. AuditTypeOK' /\ GatesAreShort' /\ OneFileEach'
    BY <1>1, <1>3 DEF AuditInv, AuditTypeOK, GatesAreShort, OneFileEach, Runs
  <1>6. MemoryIsTrue'
    <2>. SUFFICES ASSUME NEW h \in Loggers, Runs(h)
                  PROVE  Remembers(h, logger[h].last, FilePath(h))'
      BY <1>1 DEF MemoryIsTrue, Runs
    <2>1. ~TooOld(FilePath(h)[1])
      BY WritesToday DEF FilePath
    <2>2. Remembers(h, logger[h].last, FilePath(h))
      BY DEF AuditInv, MemoryIsTrue
    <2>3. FilePath(h) \in DOMAIN logs' <=> FilePath(h) \in DOMAIN logs
      BY <1>3, <1>4, <2>1
    <2>4. FilePath(h)' = FilePath(h)
      BY <1>1 DEF FilePath, Basename, PartitionDate
    <2>. QED
      BY <1>1, <1>3, <2>2, <2>3, <2>4 DEF Remembers
  <1>7. LogsAreWhole'
    <2>. SUFFICES ASSUME NEW path \in DOMAIN logs'
                  PROVE  /\ (~logs[path].cut => Chained(logs[path].lines))'
                         /\ (\A i \in DOMAIN logs[path].lines : TraceKept(logs[path].lines[i].ref, path[1]))'
      BY DEF LogsAreWhole, Chained, ChainHolds
    <2>1. path \in DOMAIN logs /\ logs'[path] = logs[path]
      BY <1>3
    <2>2. ~logs[path].cut => Chained(logs[path].lines)
      BY <2>1 DEF AuditInv, LogsAreWhole
    <2>3. \A i \in DOMAIN logs[path].lines : TraceKept(logs[path].lines[i].ref, path[1])
      BY <2>1 DEF AuditInv, LogsAreWhole
    <2>4. path[1] \in Nat /\ today \in Nat
      BY <2>1 DEF AuditInv, AuditTypeOK
    <2>5. (\A i \in DOMAIN logs[path].lines : TraceKept(logs[path].lines[i].ref, path[1]))'
      BY <1>1, <1>2, <2>1, <2>3, <2>4, KeptStays
    <2>. QED
      BY <2>1, <2>2, <2>5 DEF Chained, ChainHolds
  <1>8. TracesAreKept'
    <2>1. \A h \in Loggers : logger[h].day \in Nat
      BY DEF AuditInv, AuditTypeOK, LoggerSet
    <2>2. today \in Nat
      BY DEF AuditInv, AuditTypeOK
    <2>. QED
      BY <1>1, <1>2, <2>1, <2>2, KeptStays DEF AuditInv, TracesAreKept, Runs
  <1>. QED
    BY <1>5, <1>6, <1>7, <1>8 DEF AuditInv

LEMMA MidnightInv ==
  ASSUME AuditInv, Midnight
  PROVE  AuditInv'
  <1>1. /\ today' = today + 1 /\ logger' = logger /\ logs' = logs /\ traces' = traces
        /\ \A g \in Loggers : Runs(g) => logger[g].since = today
    BY DEF Midnight, Runs
  <1>2. today \in Nat \ {0} /\ today' \in Nat \ {0} /\ today <= today'
    BY <1>1 DEF AuditInv, AuditTypeOK
  <1>3. AuditTypeOK' /\ OneFileEach'
    BY <1>1, <1>2 DEF AuditInv, AuditTypeOK, OneFileEach
  <1>4. \A g \in Loggers : logger[g].day \in Nat /\ logger[g].since \in Nat
    BY DEF AuditInv, AuditTypeOK, LoggerSet
  <1>5. GatesAreShort'
    BY <1>1, <1>2, <1>4 DEF AuditInv, GatesAreShort, Runs
  <1>6. MemoryIsTrue'
    <2>. SUFFICES ASSUME NEW h \in Loggers, Runs(h)
                  PROVE  Remembers(h, logger[h].last, FilePath(h))'
      BY <1>1 DEF MemoryIsTrue, Runs
    <2>1. Remembers(h, logger[h].last, FilePath(h))
      BY DEF AuditInv, MemoryIsTrue
    <2>2. CASE logger[h].day # 0
      BY <1>1, <2>1, <2>2 DEF Remembers, FilePath, Basename, PartitionDate
    <2>3. CASE logger[h].day = 0
      <3>1. FilePath(h) \notin DOMAIN logs /\ FilePath(h)' \notin DOMAIN logs
        BY <2>3, NoDayNoFile DEF FilePath, Basename
      <3>. QED
        BY <1>1, <2>1, <3>1 DEF Remembers
    <2>. QED
      BY <2>2, <2>3
  <1>7. LogsAreWhole'
    BY <1>1, <1>2, SameLogs
  <1>8. TracesAreKept'
    BY <1>1, <1>2, <1>4, KeptStays DEF AuditInv, TracesAreKept, Runs
  <1>. QED
    BY <1>3, <1>5, <1>6, <1>7, <1>8 DEF AuditInv

(***************************************************************************)
(* Appends and traces.                                                     *)
(***************************************************************************)

\* A gate that has chosen its day, and what it remembers next.
LEMMA ChosenDay ==
  ASSUME AuditInv, NEW g \in Loggers, Runs(g), NEW new \in LoggerSet, new.pc \in {"ready", "linked"},
         new.since = logger[g].since, new.day = PartitionDate(g), logger' = [logger EXCEPT ![g] = new], today' = today
  PROVE  /\ logger' \in [Loggers -> LoggerSet] /\ logger'[g] = new
         /\ \A h \in Loggers : h # g => logger'[h] = logger[h]
         /\ GatesAreShort'
         /\ \A h \in Loggers : FilePath(h)' = FilePath(h)
         /\ \A h \in Loggers : Runs(h)' = Runs(h)
         /\ \A h \in Loggers : logger'[h].pc = "off" => logger[h].pc = "off" /\ h # g
         /\ \A h \in Loggers : logger'[h].pc = "linked" => logger'[h].day # 0
  <1>1. /\ logger' \in [Loggers -> LoggerSet] /\ logger'[g] = new
        /\ \A h \in Loggers : h # g => logger'[h] = logger[h]
    BY DEF AuditInv, AuditTypeOK
  <1>2. PartitionDate(g) \in Nat \ {0} /\ PartitionDate(g) <= today /\ logger[g].since <= PartitionDate(g)
    BY WritesToday
  <1>3. \A h \in Loggers : Runs(h)' = Runs(h)
    BY <1>1 DEF Runs
  <1>4. GatesAreShort'
    BY <1>1, <1>2, <1>3 DEF AuditInv, GatesAreShort
  <1>5. \A h \in Loggers : FilePath(h)' = FilePath(h)
    BY <1>1, <1>2 DEF FilePath, Basename, PartitionDate
  <1>6. \A h \in Loggers : logger'[h].pc = "linked" => logger'[h].day # 0
    BY <1>1, <1>2 DEF AuditInv, OneFileEach
  <1>. QED
    BY <1>1, <1>3, <1>4, <1>5, <1>6

\* A file of another gate is another file.
LEMMA OthersFiles ==
  ASSUME NEW g \in Loggers, NEW h \in Loggers, h # g
  PROVE  FilePath(h) # FilePath(g)
  BY DEF FilePath, Basename

\* A gate writes its file.
LEMMA WriteInv ==
  ASSUME AuditInv, NEW g \in Loggers, Runs(g), NEW file \in FileSet, NEW new \in LoggerSet,
         logs' = PutLog(FilePath(g), file), logger' = [logger EXCEPT ![g] = new], today' = today, traces' = traces,
         new.pc = "ready", new.since = logger[g].since, new.day = PartitionDate(g), new.trace = NoEvent,
         ~file.cut => Chained(file.lines) /\ new.last = LastEvent(file.lines),
         \A i \in DOMAIN file.lines : TraceKept(file.lines[i].ref, PartitionDate(g))
  PROVE  AuditInv'
  <1>1. /\ logger' \in [Loggers -> LoggerSet] /\ logger'[g] = new
        /\ \A h \in Loggers : h # g => logger'[h] = logger[h]
        /\ GatesAreShort'
        /\ \A h \in Loggers : FilePath(h)' = FilePath(h)
        /\ \A h \in Loggers : Runs(h)' = Runs(h)
        /\ \A h \in Loggers : logger'[h].pc = "off" => logger[h].pc = "off" /\ h # g
        /\ \A h \in Loggers : logger'[h].pc = "linked" => logger'[h].day # 0
    BY ChosenDay
  <1>2. /\ DOMAIN logs' = DOMAIN logs \cup {FilePath(g)}
        /\ logs'[FilePath(g)] = file
        /\ \A p \in DOMAIN logs \ {FilePath(g)} : logs'[p] = logs[p]
    BY DEF PutLog
  <1>3. PartitionDate(g) \in Nat \ {0} /\ FilePath(g) = <<PartitionDate(g), g>>
    BY WritesToday DEF FilePath, Basename
  <1>4. AuditTypeOK'
    BY <1>1, <1>2, <1>3 DEF AuditInv, AuditTypeOK
  <1>5. OneFileEach'
    <2>1. \A path \in DOMAIN logs' : logger'[path[2]].day = path[1] /\ path[1] # 0
      <3>. SUFFICES ASSUME NEW path \in DOMAIN logs'
                    PROVE  logger'[path[2]].day = path[1] /\ path[1] # 0
        OBVIOUS
      <3>1. CASE path = FilePath(g)
        BY <1>1, <1>3, <3>1
      <3>2. CASE path # FilePath(g)
        <4>1. path \in DOMAIN logs /\ path[2] \in Loggers /\ path[2] # g
          BY <1>2, <3>2, NoDayNoFile DEF AuditInv, AuditTypeOK
        <4>. QED
          BY <1>1, <4>1 DEF AuditInv, OneFileEach
      <3>. QED
        BY <3>1, <3>2
    <2>2. \A h \in Loggers : logger'[h].pc = "off" =>
                logger'[h].day = 0 /\ logger'[h].last = NoEvent /\ logger'[h].trace = NoEvent
      BY <1>1 DEF AuditInv, OneFileEach
    <2>. QED
      BY <1>1, <2>1, <2>2 DEF OneFileEach
  <1>6. MemoryIsTrue'
    <2>. SUFFICES ASSUME NEW h \in Loggers, Runs(h)
                  PROVE  Remembers(h, logger[h].last, FilePath(h))'
      BY <1>1 DEF MemoryIsTrue
    <2>1. CASE h = g
      BY <1>1, <1>2, <2>1 DEF Remembers
    <2>2. CASE h # g
      <3>1. Remembers(h, logger[h].last, FilePath(h))
        BY DEF AuditInv, MemoryIsTrue
      <3>2. FilePath(h) # FilePath(g)
        BY <2>2, OthersFiles
      <3>. QED
        BY <1>1, <1>2, <2>2, <3>1, <3>2 DEF Remembers
    <2>. QED
      BY <2>1, <2>2
  <1>7. LogsAreWhole'
    <2>. SUFFICES ASSUME NEW path \in DOMAIN logs'
                  PROVE  /\ (~logs[path].cut => Chained(logs[path].lines))'
                         /\ (\A i \in DOMAIN logs[path].lines : TraceKept(logs[path].lines[i].ref, path[1]))'
      BY DEF LogsAreWhole, Chained, ChainHolds
    <2>1. CASE path = FilePath(g)
      BY <1>2, <1>3, <2>1 DEF TraceKept, TooOld, Chained, ChainHolds
    <2>2. CASE path # FilePath(g)
      <3>1. path \in DOMAIN logs /\ logs'[path] = logs[path]
        BY <1>2, <2>2
      <3>. QED
        BY <3>1 DEF AuditInv, LogsAreWhole, Chained, ChainHolds, TraceKept, TooOld
    <2>. QED
      BY <2>1, <2>2
  <1>8. TracesAreKept'
    BY <1>1 DEF AuditInv, TracesAreKept, TraceKept, TooOld
  <1>. QED
    BY <1>1, <1>4, <1>5, <1>6, <1>7, <1>8 DEF AuditInv

\* A gate that leaves the logs as they are, and remembers what it did.
LEMMA SameFilesInv ==
  ASSUME AuditInv, NEW g \in Loggers, Runs(g), NEW new \in LoggerSet, logs' = logs,
         logger' = [logger EXCEPT ![g] = new], today' = today,
         \A t \in DOMAIN traces : traces[t] = 1 /\ ~TooOld(t[1]) => t \in DOMAIN traces' /\ traces'[t] = 1,
         new.pc \in {"ready", "linked"}, new.since = logger[g].since, new.day = PartitionDate(g),
         new.last = logger[g].last, TraceKept(new.trace, new.day)'
  PROVE  AuditInv'
  <1>1. /\ logger' \in [Loggers -> LoggerSet] /\ logger'[g] = new
        /\ \A h \in Loggers : h # g => logger'[h] = logger[h]
        /\ GatesAreShort'
        /\ \A h \in Loggers : FilePath(h)' = FilePath(h)
        /\ \A h \in Loggers : Runs(h)' = Runs(h)
        /\ \A h \in Loggers : logger'[h].pc = "off" => logger[h].pc = "off" /\ h # g
        /\ \A h \in Loggers : logger'[h].pc = "linked" => logger'[h].day # 0
    BY ChosenDay
  <1>2. PartitionDate(g) \in Nat \ {0}
    BY WritesToday
  <1>3. AuditTypeOK'
    BY <1>1 DEF AuditInv, AuditTypeOK
  <1>4. OneFileEach'
    <2>1. \A path \in DOMAIN logs : logger'[path[2]].day = path[1] /\ path[1] # 0
      <3>. SUFFICES ASSUME NEW path \in DOMAIN logs
                    PROVE  logger'[path[2]].day = path[1] /\ path[1] # 0
        OBVIOUS
      <3>1. path[2] \in Loggers /\ logger[path[2]].day = path[1] /\ path[1] # 0
        BY DEF AuditInv, AuditTypeOK, OneFileEach
      <3>2. path[2] = g => PartitionDate(g) = path[1]
        BY <3>1 DEF PartitionDate
      <3>. QED
        BY <1>1, <3>1, <3>2
    <2>2. \A h \in Loggers : logger'[h].pc = "off" =>
                logger'[h].day = 0 /\ logger'[h].last = NoEvent /\ logger'[h].trace = NoEvent
      BY <1>1 DEF AuditInv, OneFileEach
    <2>. QED
      BY <1>1, <2>1, <2>2 DEF OneFileEach
  <1>5. MemoryIsTrue'
    <2>1. \A h \in Loggers : logger'[h].last = logger[h].last
      BY <1>1
    <2>. QED
      BY <1>1, <2>1 DEF AuditInv, MemoryIsTrue, Remembers
  <1>6. LogsAreWhole'
    BY SameLogs DEF AuditInv, AuditTypeOK
  <1>7. TracesAreKept'
    <2>1. \A h \in Loggers : logger[h].day \in Nat
      BY DEF AuditInv, AuditTypeOK, LoggerSet
    <2>2. today \in Nat
      BY DEF AuditInv, AuditTypeOK
    <2>3. \A h \in Loggers : h # g /\ Runs(h) /\ logger[h].trace # NoEvent =>
            logger[h].day # 0 /\ TraceKept(logger[h].trace, logger[h].day)'
      BY <1>1, <2>1, <2>2, KeptStays DEF AuditInv, TracesAreKept
    <2>. QED
      BY <1>1, <1>2, <2>3 DEF TracesAreKept
  <1>. QED
    BY <1>1, <1>3, <1>4, <1>5, <1>6, <1>7 DEF AuditInv

\* What is in the file already is whole, and the gate knows where it ends.
LEMMA ExistingIsWhole ==
  ASSUME AuditInv, NEW g \in Loggers, Runs(g)
  PROVE  LET file == Existing(FilePath(g)) IN
         /\ file \in FileSet
         /\ ~file.cut => Chained(file.lines) /\ logger[g].last = LastEvent(file.lines)
         /\ \A i \in DOMAIN file.lines : TraceKept(file.lines[i].ref, PartitionDate(g))
  <1>1. Remembers(g, logger[g].last, FilePath(g))
    BY DEF AuditInv, MemoryIsTrue
  <1>2. CASE FilePath(g) \in DOMAIN logs
    BY <1>1, <1>2 DEF Existing, Remembers, AuditInv, AuditTypeOK, LogsAreWhole, FilePath
  <1>3. CASE FilePath(g) \notin DOMAIN logs
    <2>1. Existing(FilePath(g)) = [lines |-> <<>>, cut |-> FALSE] /\ logger[g].last = NoEvent
      BY <1>1, <1>3 DEF Existing, Remembers
    <2>2. Existing(FilePath(g)) \in FileSet
      BY <2>1 DEF FileSet
    <2>. QED
      BY <2>1, <2>2 DEF Chained, LastEvent
  <1>. QED
    BY <1>2, <1>3

\* What a gate knows after an append.
Written(l, day, last) == [l EXCEPT !.day = day, !.last = last, !.sent = @ + 1, !.trace = NoEvent]

LEMMA LoggerTyped ==
  ASSUME NEW l \in LoggerSet, NEW day \in Nat, NEW last \in Events \cup {NoEvent}
  PROVE  /\ Written(l, day, last) \in LoggerSet
         /\ Written(l, day, last).pc = l.pc /\ Written(l, day, last).since = l.since
         /\ Written(l, day, last).day = day
         /\ Written(l, day, last).last = last /\ Written(l, day, last).trace = NoEvent
  <1>. DEFINE sent == l.sent + 1
              new == [l EXCEPT !.day = day, !.last = last, !.sent = sent, !.trace = NoEvent]
  <1>1. sent \in Nat
    BY DEF LoggerSet
  <1>2. Written(l, day, last) = new
    BY DEF Written
  <1>. HIDE DEF sent
  <1>3. new \in LoggerSet
    BY <1>1 DEF LoggerSet
  <1>4. new.pc = l.pc /\ new.since = l.since
    BY DEF LoggerSet
  <1>5. new.day = day
    BY DEF LoggerSet
  <1>6. new.last = last /\ new.trace = NoEvent
    BY DEF LoggerSet
  <1>. QED
    BY <1>2, <1>3, <1>4, <1>5, <1>6

LEMMA LastStays ==
  ASSUME NEW l \in LoggerSet, NEW day \in Nat
  PROVE  Written(l, day, l.last) = [l EXCEPT !.day = day, !.sent = @ + 1, !.trace = NoEvent]
  <1>. DEFINE m == [l EXCEPT !.day = day]
  <1>1. m \in LoggerSet /\ m.last = l.last
    BY DEF LoggerSet
  <1>. HIDE DEF m
  <1>2. [m EXCEPT !.last = l.last] = m
    BY <1>1 DEF LoggerSet
  <1>3. Written(l, day, l.last) = [[m EXCEPT !.last = l.last] EXCEPT !.sent = l.sent + 1, !.trace = NoEvent]
    BY DEF Written, m, LoggerSet
  <1>4. [l EXCEPT !.day = day, !.sent = @ + 1, !.trace = NoEvent] = [m EXCEPT !.sent = l.sent + 1, !.trace = NoEvent]
    BY DEF m, LoggerSet
  <1>. QED
    BY <1>2, <1>3, <1>4

LEMMA AppendInv ==
  ASSUME AuditInv, NEW g \in Loggers, AppendEvent(g)
  PROVE  AuditInv'
  <1>. DEFINE old == Existing(FilePath(g))
              line == [event |-> Event(g), prev |-> logger[g].last, ref |-> logger[g].trace]
              file == [old EXCEPT !.lines = Append(@, line)]
              new == Written(logger[g], PartitionDate(g), Event(g))
  <1>1. /\ logger[g].pc = "ready" /\ logs' = PutLog(FilePath(g), file) /\ today' = today /\ traces' = traces
        /\ logger' = [logger EXCEPT ![g].day = PartitionDate(g), ![g].last = Event(g), ![g].sent = @ + 1,
                                    ![g].trace = NoEvent]
    BY DEF AppendEvent, Appends
  <1>2. Runs(g) /\ logger[g] \in LoggerSet
    BY <1>1 DEF Runs, AuditInv, AuditTypeOK
  <1>3. /\ old \in FileSet
        /\ ~old.cut => Chained(old.lines) /\ logger[g].last = LastEvent(old.lines)
        /\ \A i \in DOMAIN old.lines : TraceKept(old.lines[i].ref, PartitionDate(g))
    BY <1>2, ExistingIsWhole
  <1>4. PartitionDate(g) \in Nat \ {0}
    BY <1>2, WritesToday
  <1>5. Event(g) \in Events
    BY <1>2 DEF Event, Events, LoggerSet
  <1>6. line \in LineSet
    BY <1>2, <1>5 DEF LineSet, LoggerSet
  <1>7. /\ new \in LoggerSet /\ new.pc = logger[g].pc /\ new.since = logger[g].since /\ new.day = PartitionDate(g)
        /\ new.last = Event(g) /\ new.trace = NoEvent
    BY <1>2, <1>4, <1>5, LoggerTyped
  <1>8. logger' = [logger EXCEPT ![g] = new]
    BY <1>1 DEF AuditInv, AuditTypeOK, Written
  <1>9. /\ file.lines = Append(old.lines, line) /\ file.cut = old.cut /\ file \in FileSet
        /\ old.lines \in Seq(LineSet)
    BY <1>3, <1>6 DEF FileSet
  <1>10. TraceKept(logger[g].trace, PartitionDate(g))
    BY <1>2 DEF AuditInv, TracesAreKept, PartitionDate, TraceKept
  <1>. HIDE DEF old, line, file, new
  <1>11. \A i \in DOMAIN file.lines : TraceKept(file.lines[i].ref, PartitionDate(g))
    <2>1. line.ref = logger[g].trace
      BY DEF line
    <2>2. \A i \in DOMAIN file.lines : (i \in DOMAIN old.lines /\ file.lines[i] = old.lines[i]) \/ file.lines[i] = line
      BY <1>6, <1>9
    <2>. QED
      BY <1>3, <1>10, <2>1, <2>2
  <1>12. ~file.cut => Chained(file.lines) /\ Event(g) = LastEvent(file.lines)
    <2>. SUFFICES ASSUME ~old.cut
                  PROVE  Chained(file.lines) /\ Event(g) = LastEvent(file.lines)
      BY <1>9
    <2>1. line.event = Event(g) /\ line.prev = LastEvent(old.lines)
      BY <1>3 DEF line
    <2>2. LastEvent(file.lines) = line.event
      BY <1>6, <1>9 DEF LastEvent
    <2>3. Chained(file.lines)
      <3>. SUFFICES ASSUME NEW i \in DOMAIN file.lines
                    PROVE  ChainHolds(file.lines, i)
        BY DEF Chained
      <3>1. CASE i \in DOMAIN old.lines
        <4>1. ChainHolds(old.lines, i)
          BY <1>3, <3>1 DEF Chained
        <4>. QED
          BY <1>6, <1>9, <3>1, <4>1 DEF ChainHolds
      <3>2. CASE i \notin DOMAIN old.lines
        <4>1. i = Len(old.lines) + 1 /\ file.lines[i] = line /\ Len(old.lines) \in Nat
          BY <1>6, <1>9, <3>2
        <4>2. i # 1 => file.lines[i - 1] = old.lines[Len(old.lines)] /\ old.lines # <<>>
          BY <1>6, <1>9, <4>1
        <4>3. i = 1 => old.lines = <<>>
          BY <1>9, <4>1
        <4>. QED
          BY <2>1, <4>1, <4>2, <4>3 DEF ChainHolds, LastEvent
      <3>. QED
        BY <3>1, <3>2
    <2>. QED
      BY <2>1, <2>2, <2>3
  <1>. QED
    BY <1>1, <1>2, <1>7, <1>8, <1>9, <1>11, <1>12, WriteInv

LEMMA AppendFailsInv ==
  ASSUME AuditInv, NEW g \in Loggers, AppendFails(g)
  PROVE  AuditInv'
  <1>. DEFINE old == Existing(FilePath(g))
              file == [old EXCEPT !.cut = TRUE]
              new == Written(logger[g], PartitionDate(g), logger[g].last)
  <1>1. /\ logger[g].pc = "ready" /\ today' = today /\ traces' = traces
        /\ logger' = [logger EXCEPT ![g].day = PartitionDate(g), ![g].sent = @ + 1, ![g].trace = NoEvent]
        /\ logs' = logs \/ logs' = PutLog(FilePath(g), file)
    BY DEF AppendFails, Appends
  <1>2. Runs(g) /\ logger[g] \in LoggerSet
    BY <1>1 DEF Runs, AuditInv, AuditTypeOK
  <1>3. /\ old \in FileSet
        /\ \A i \in DOMAIN old.lines : TraceKept(old.lines[i].ref, PartitionDate(g))
    BY <1>2, ExistingIsWhole
  <1>4. PartitionDate(g) \in Nat \ {0}
    BY <1>2, WritesToday
  <1>5. /\ new \in LoggerSet /\ new.pc = logger[g].pc /\ new.since = logger[g].since /\ new.day = PartitionDate(g)
        /\ new.last = logger[g].last /\ new.trace = NoEvent
    <2>1. logger[g].last \in Events \cup {NoEvent}
      BY <1>2 DEF LoggerSet
    <2>. QED
      BY <1>2, <1>4, <2>1, LoggerTyped
  <1>6. logger' = [logger EXCEPT ![g] = new]
    <2>1. new = [logger[g] EXCEPT !.day = PartitionDate(g), !.sent = @ + 1, !.trace = NoEvent]
      BY <1>2, <1>4, LastStays
    <2>. QED
      BY <1>1, <2>1 DEF AuditInv, AuditTypeOK
  <1>7. file.lines = old.lines /\ file.cut /\ file \in FileSet
    BY <1>3 DEF FileSet
  <1>. HIDE DEF old, file, new
  <1>8. CASE logs' = PutLog(FilePath(g), file)
    BY <1>1, <1>2, <1>3, <1>5, <1>6, <1>7, <1>8, WriteInv
  <1>9. CASE logs' = logs
    BY <1>1, <1>2, <1>5, <1>6, <1>9, SameFilesInv DEF TraceKept
  <1>. QED
    BY <1>1, <1>8, <1>9

LEMMA LinkInv ==
  ASSUME AuditInv, NEW g \in Loggers, LinkTrace(g)
  PROVE  AuditInv'
  <1>1. /\ logger[g].pc = "ready" /\ logger[g].trace = NoEvent /\ TracePath(g) \notin DOMAIN traces
        /\ logger' = [logger EXCEPT ![g].pc = "linked", ![g].day = PartitionDate(g)]
        /\ today' = today /\ logs' = logs
        /\ traces' = [p \in DOMAIN traces \cup {TracePath(g)} |-> IF p = TracePath(g) THEN 2 ELSE traces[p]]
    BY DEF LinkTrace, Appends
  <1>2. Runs(g) /\ logger[g] \in LoggerSet
    BY <1>1 DEF Runs, AuditInv, AuditTypeOK
  <1>3. PartitionDate(g) \in Nat \ {0}
    BY <1>2, WritesToday
  <1>4. PICK new : new = [logger[g] EXCEPT !.pc = "linked", !.day = PartitionDate(g)]
    OBVIOUS
  <1>5. logger' = [logger EXCEPT ![g] = new]
    BY <1>1, <1>4 DEF AuditInv, AuditTypeOK
  <1>6. /\ new \in LoggerSet /\ new.pc = "linked" /\ new.since = logger[g].since /\ new.day = PartitionDate(g)
        /\ new.last = logger[g].last /\ new.trace = NoEvent
    BY <1>1, <1>2, <1>3, <1>4 DEF LoggerSet, Steps
  <1>7. \A t \in DOMAIN traces : traces[t] = 1 /\ ~TooOld(t[1]) => t \in DOMAIN traces' /\ traces'[t] = 1
    BY <1>1
  <1>8. TraceKept(new.trace, new.day)'
    BY <1>6 DEF TraceKept
  <1>. QED
    BY <1>1, <1>2, <1>5, <1>6, <1>7, <1>8, SameFilesInv

LEMMA WrittenInv ==
  ASSUME AuditInv, NEW g \in Loggers, TraceWritten(g)
  PROVE  AuditInv'
  <1>1. PICK trace : trace = IF TracePath(g) \in DOMAIN traces THEN TracePath(g) ELSE logger[g].trace
    OBVIOUS
  <1>2. /\ logger[g].pc = "linked"
        /\ logger' = [logger EXCEPT ![g].pc = "ready", ![g].trace = trace]
        /\ today' = today /\ logs' = logs
        /\ traces' = [p \in DOMAIN traces |-> IF p = TracePath(g) THEN 1 ELSE traces[p]]
    BY <1>1 DEF TraceWritten
  <1>3. Runs(g) /\ logger[g] \in LoggerSet /\ logger[g].day # 0
    BY <1>2 DEF Runs, AuditInv, AuditTypeOK, OneFileEach
  <1>4. logger[g].day = PartitionDate(g) /\ PartitionDate(g) \in Nat \ {0} /\ TracePath(g) = <<PartitionDate(g), Event(g)>>
    BY <1>3, WritesToday DEF PartitionDate, TracePath
  <1>5. trace \in Refs \cup {NoEvent}
    BY <1>1, <1>3, <1>4 DEF Refs, Events, Event, LoggerSet
  <1>6. \A t \in DOMAIN traces : traces[t] = 1 /\ ~TooOld(t[1]) => t \in DOMAIN traces' /\ traces'[t] = 1
    BY <1>2
  <1>7. PICK new : new = [logger[g] EXCEPT !.pc = "ready", !.trace = trace]
    OBVIOUS
  <1>8. logger' = [logger EXCEPT ![g] = new]
    BY <1>2, <1>7 DEF AuditInv, AuditTypeOK
  <1>9. /\ new \in LoggerSet /\ new.pc = "ready" /\ new.since = logger[g].since /\ new.day = PartitionDate(g)
        /\ new.last = logger[g].last /\ new.trace = trace
    BY <1>3, <1>4, <1>5, <1>7 DEF LoggerSet, Steps
  <1>10. TraceKept(new.trace, new.day)'
    <2>1. today \in Nat /\ new.day \in Nat
      BY <1>4, <1>9 DEF AuditInv, AuditTypeOK
    <2>2. CASE trace = TracePath(g) /\ TracePath(g) \in DOMAIN traces
      <3>1. trace[1] = new.day /\ trace \in DOMAIN traces' /\ traces'[trace] = 1
        BY <1>2, <1>4, <1>9, <2>2
      <3>. QED
        BY <1>9, <3>1 DEF TraceKept
    <2>3. CASE trace = logger[g].trace
      <3>1. TraceKept(trace, new.day)
        BY <1>3, <1>4, <1>9, <2>3 DEF AuditInv, TracesAreKept, TraceKept
      <3>. QED
        BY <1>2, <1>6, <1>9, <2>1, <3>1, KeptStays
    <2>. QED
      BY <1>1, <2>2, <2>3
  <1>. QED
    BY <1>2, <1>3, <1>6, <1>8, <1>9, <1>10, SameFilesInv

(***************************************************************************)
(* The theorem.                                                            *)
(***************************************************************************)

LEMMA AuditInitInv == AuditInit => AuditInv
  <1>. SUFFICES ASSUME AuditInit
                PROVE  AuditInv
    OBVIOUS
  <1>1. /\ today = 1 /\ DOMAIN logs = {} /\ DOMAIN traces = {}
        /\ \A g \in Loggers : logger[g] = [pc |-> "off", since |-> 0, day |-> 0, last |-> NoEvent, sent |-> 0, trace |-> NoEvent]
    BY DEF AuditInit
  <1>2. AuditTypeOK
    BY <1>1 DEF AuditInit, AuditTypeOK, LoggerSet, Steps
  <1>. QED
    BY <1>1, <1>2 DEF AuditInv, GatesAreShort, OneFileEach, MemoryIsTrue, LogsAreWhole, TracesAreKept, Runs

LEMMA AuditStepInv == AuditInv /\ [AuditNext]_auditVars => AuditInv'
  <1>. SUFFICES ASSUME AuditInv, [AuditNext]_auditVars
                PROVE  AuditInv'
    OBVIOUS
  <1>1. CASE UNCHANGED auditVars
    <2>1. today' = today /\ logger' = logger /\ logs' = logs /\ traces' = traces
      BY <1>1 DEF auditVars
    <2>2. AuditTypeOK' /\ GatesAreShort' /\ OneFileEach'
      BY <2>1 DEF AuditInv, AuditTypeOK, GatesAreShort, OneFileEach, Runs
    <2>3. MemoryIsTrue'
      BY <2>1 DEF AuditInv, MemoryIsTrue, Remembers, FilePath, Basename, PartitionDate, Runs
    <2>4. LogsAreWhole' /\ TracesAreKept'
      BY <2>1 DEF AuditInv, LogsAreWhole, TracesAreKept, TraceKept, TooOld, Runs, Chained, ChainHolds
    <2>. QED
      BY <2>2, <2>3, <2>4 DEF AuditInv
  <1>2. ASSUME NEW g \in Loggers, Pruned(g)
        PROVE  AuditInv'
    BY <1>2, GateMoves DEF Pruned, Runs, Steps
  <1>3. ASSUME NEW g \in Loggers, EndLogger(g)
        PROVE  AuditInv'
    BY <1>3, GateMoves DEF EndLogger, Runs, Steps
  <1>. QED
    BY <1>1, <1>2, <1>3, StartInv, PruneInv, AppendInv, AppendFailsInv, LinkInv, WrittenInv, MidnightInv DEF AuditNext

\* The files and loggers keep their types: every line has its event, its predecessor and at
\* most one trace (audit/logger.ts).
THEOREM AuditTypes == AuditSpec => []AuditTypeOK
  <1>1. AuditInv => AuditTypeOK
    BY DEF AuditInv
  <1>. QED
    BY AuditInitInv, AuditStepInv, <1>1, PTL DEF AuditSpec

\* An honest log verifies (audit/logger.ts:append, audit/verifier.ts:verifyAuditBytes): for any
\* number of gates that write at the same time, and whatever fails, is pruned or dies in
\* between, as long as no gate lasts longer than a day.
THEOREM LogsVerify == AuditSpec => []HonestReadsWhole
  BY AuditInitInv, AuditStepInv, InvHonest, PTL DEF AuditSpec
=============================================================================

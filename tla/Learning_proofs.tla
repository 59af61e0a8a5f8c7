--------------------------- MODULE Learning_proofs ----------------------------
(***************************************************************************)
(* What holds of the booking of answers, for any scene: findings, answers, *)
(* stores, people and clocks.  An event of the reputation is where the     *)
(* last rating put it (RatedInv) and a round counts once in the ledger     *)
(* (VotesInv) wherever the gate is killed; that what is booked was said of *)
(* the very report (HeardInv) needs the two windows to be closed.  And of  *)
(* the memory, for any texts and proposals: what a note says was put       *)
(* forward by several (BrainOk), and where several agree there comes to be *)
(* a note (Kept).                                                          *)
(***************************************************************************)
EXTENDS Learning, Brain, FiniteSetTheorems, SequenceTheorems, WellFoundedInduction, TLAPS

Books == {"ledger", "rep", "lessons"}
Stages == {"candidate", "active", "sticky"}
Ids == UNION {UNION {DOMAIN r : r \in c.reports} : c \in Configs}
Words == UNION {c.words : c \in Configs}
Findings == UNION {UNION {{r[id] : id \in DOMAIN r} : r \in c.reports} : c \in Configs}
Lines == [id : Ids, word : Words, round : Nat, about : Findings]

\* The files and the gate have their types, and a cycle has no more rounds than there
\* were reviews.
TypeInv ==
    /\ config \in Configs
    /\ st \in [session : Nat, cycle : Nat, iter : Nat]
    /\ round \in Nat /\ round <= config.rounds /\ clock \in Nat
    /\ st.iter <= round
    /\ pending = <<>> \/ pending \in config.reports
    /\ dec \in [1 .. config.rounds -> Seq(Lines)]
    /\ gate.pc \in {"agent", "rearmed", "judge", "reported", "pair", "passed"} \cup Books
    /\ DOMAIN gate = {"pc", "todo", "orphans", "note"}
    /\ gate.pc \in {"reported", "pair"} => round < config.rounds
    /\ gate.pc \in Books => st.iter >= 1
    /\ gate.pc = "ledger" => gate.todo \subseteq Rejections
    /\ gate.pc = "lessons" => gate.todo \subseteq Mended
    /\ DOMAIN ledger = {"seq", "entry"} /\ ledger.seq \in Nat
    /\ ledger.entry \in [Sigs -> Entries \cup {None}]
    /\ \A s \in Known(ledger) : ledger.entry[s].id <= ledger.seq
    /\ gate.pc = "pair" => /\ gate.todo \subseteq Known(ledger)
                           /\ gate.note # None => gate.note.about \in Known(ledger) /\ gate.note.id \in Nat
    /\ \A n \in brain \cup gate.orphans : n.id \in Nat
    /\ \E m \in Nat : \A n \in brain : n.id <= m

\* When no stop is cut short between its report and its state: the lines of this round
\* are about the pending report, and those of later rounds have not been written.
HeardInv ==
    /\ gate.pc \in {"rearmed", "passed"} => st.iter = 0
    /\ gate.pc \notin {"rearmed", "passed"} => \A i \in DOMAIN dec : i > st.iter => dec[i] = <<>>
    /\ gate.pc \in {"agent", "judge"} \cup Books /\ st.iter >= 1 =>
          \A k \in DOMAIN dec[st.iter] :
              LET l == dec[st.iter][k]
              IN  l.round = round /\ l.id \in DOMAIN pending /\ l.about = pending[l.id]

\* What the reputation holds was rated, and so.
RatedInv ==
    \A o \in {"correct", "wrong"} : \A x \in rep[o] : x.eid \in DOMAIN rated /\ rated[x.eid] = o

\* A run comes before another, or is it.
Before(r, q) ==
    \/ r[1] < q[1]
    \/ r[1] = q[1] /\ r[2] < q[2]
    \/ r[1] = q[1] /\ r[2] = q[2] /\ r[3] <= q[3]

Of(set, p) == {x \in set : x.provider = p}
Learnt(id) == {l \in learnt : l.fp = id}

\* As many of the one as of the other.
Balanced(rs, ls) == IsFiniteSet(rs) /\ IsFiniteSet(ls) /\ Cardinality(rs) = Cardinality(ls)

\* This run's reject is there if and only if this round's lesson is.
Agree(rs, ls) == st.iter >= 1 => ((\E r \in rs : r.run = Run) <=> (\E l \in ls : l.round = round))

\* For every entry and provider, the rejects and the rounds in which the provider was
\* wrong correspond: runs never come back, nor do ids.
VotesInv ==
    /\ learnt \subseteq [fp : Nat, provider : Providers, round : Nat]
    /\ \A l \in learnt : l.fp <= ledger.seq /\ l.round <= round
    /\ \A s, t \in Known(ledger) : ledger.entry[s].id = ledger.entry[t].id => s = t
    /\ \A s \in Known(ledger) : \A r \in ledger.entry[s].rejects : Before(r.run, Run)
    /\ \A s \in Known(ledger), p \in Providers :
          /\ Balanced(Of(ledger.entry[s].rejects, p), Of(Learnt(ledger.entry[s].id), p))
          /\ Agree(Of(ledger.entry[s].rejects, p), Of(Learnt(ledger.entry[s].id), p))

LEMMA MaxOf ==
    ASSUME NEW S, NEW m \in S, \A x \in S : x \in Nat /\ x <= m
    PROVE  Max(S) = m
<1>1. \A y \in S : m >= y /\ m \in Nat OBVIOUS
<1>2. Max(S) \in S /\ \A y \in S : Max(S) >= y BY <1>1 DEF Max
<1>3. Max(S) \in Nat /\ Max(S) <= m /\ Max(S) >= m /\ m \in Nat BY <1>1, <1>2
<1> QED BY <1>3

\* A bounded set of numbers has a greatest one.
LEMMA MaxExists ==
    ASSUME NEW S, 0 \in S, \A x \in S : x \in Nat, NEW m \in Nat, \A x \in S : x <= m
    PROVE  Max(S) \in Nat /\ \A x \in S : x <= Max(S)
<1> DEFINE All == 0 .. m
           Above == {X \in SUBSET All : \E k \in All : X = 0 .. k /\ \A x \in S : x <= k}
<1>1. IsFiniteSet(All) BY FS_Interval
<1>2. Above \subseteq FiniteSubsetsOf(All) BY <1>1, FS_Subset DEF FiniteSubsetsOf
<1>3. All \in Above
  <2>1. m \in All OBVIOUS
  <2> QED BY <2>1
<1>4. PICK X \in Above : \A Y \in Above : <<Y, X>> \notin StrictSubsetOrdering(All)
  <2> HIDE DEF Above, All
  <2>1. IsWellFoundedOn(StrictSubsetOrdering(All), FiniteSubsetsOf(All))
    BY FS_StrictSubsetOrderingWellFounded
  <2> QED BY <1>2, <1>3, <2>1, WFMin
<1>5. PICK k \in All : X = 0 .. k /\ \A x \in S : x <= k OBVIOUS
<1>6. k \in S
  <2>1. SUFFICES ASSUME k \notin S PROVE FALSE OBVIOUS
  <2>2. \A x \in S : x <= k - 1 BY <1>5, <2>1
  <2>3. k - 1 \in All /\ 0 .. (k - 1) \subseteq X /\ k \in X /\ k \notin 0 .. (k - 1) BY <1>5, <2>2
  <2>4. 0 .. (k - 1) \in Above
    <3>1. 0 .. (k - 1) \in SUBSET All BY <2>3
    <3> QED BY <2>2, <2>3, <3>1
  <2>5. <<0 .. (k - 1), X>> \in StrictSubsetOrdering(All)
    BY <2>3, <2>4 DEF StrictSubsetOrdering
  <2> QED BY <1>4, <2>4, <2>5
<1>7. Max(S) = k BY <1>5, <1>6, MaxOf
<1> QED BY <1>5, <1>7

LEMMA StageTyped ==
    ASSUME NEW e PROVE Recompute(e) \in Stages
<1> HIDE DEF Within
<1> QED BY DEF Recompute, Stages

LEMMA EntryTyped ==
    ASSUME NEW e \in Entries
    PROVE  /\ \A x \in Stages : /\ [e EXCEPT !.stage = x] \in Entries
                                /\ [e EXCEPT !.stage = x].id = e.id /\ [e EXCEPT !.stage = x].rejects = e.rejects
           /\ \A x \in SUBSET Rejects : /\ [e EXCEPT !.rejects = x] \in Entries
                                        /\ [e EXCEPT !.rejects = x].id = e.id /\ [e EXCEPT !.rejects = x].rejects = x
           /\ \A x \in Nat : /\ [e EXCEPT !.seen = x] \in Entries
                             /\ [e EXCEPT !.seen = x].id = e.id /\ [e EXCEPT !.seen = x].rejects = e.rejects
           /\ \A x \in Nat : /\ [e EXCEPT !.link = x] \in Entries
                             /\ [e EXCEPT !.link = x].id = e.id /\ [e EXCEPT !.link = x].rejects = e.rejects
           /\ /\ [e EXCEPT !.clash = TRUE] \in Entries
              /\ [e EXCEPT !.clash = TRUE].id = e.id /\ [e EXCEPT !.clash = TRUE].rejects = e.rejects
           /\ \A x \in BOOLEAN, y \in Stages :
                 /\ [e EXCEPT !.pinned = x, !.stage = y] \in Entries
                 /\ [e EXCEPT !.pinned = x, !.stage = y].id = e.id
                 /\ [e EXCEPT !.pinned = x, !.stage = y].rejects = e.rejects
<1>1. \A x \in Stages : /\ [e EXCEPT !.stage = x] \in Entries
                        /\ [e EXCEPT !.stage = x].id = e.id /\ [e EXCEPT !.stage = x].rejects = e.rejects
  BY DEF Entries, Stages
<1>2. \A x \in SUBSET Rejects : /\ [e EXCEPT !.rejects = x] \in Entries
                                /\ [e EXCEPT !.rejects = x].id = e.id /\ [e EXCEPT !.rejects = x].rejects = x
  BY DEF Entries
<1>3. \A x \in Nat : /\ [e EXCEPT !.seen = x] \in Entries
                     /\ [e EXCEPT !.seen = x].id = e.id /\ [e EXCEPT !.seen = x].rejects = e.rejects
  BY DEF Entries
<1>4. \A x \in Nat : /\ [e EXCEPT !.link = x] \in Entries
                     /\ [e EXCEPT !.link = x].id = e.id /\ [e EXCEPT !.link = x].rejects = e.rejects
  BY DEF Entries
<1>5. /\ [e EXCEPT !.clash = TRUE] \in Entries
      /\ [e EXCEPT !.clash = TRUE].id = e.id /\ [e EXCEPT !.clash = TRUE].rejects = e.rejects
  BY DEF Entries
<1>6. \A x \in BOOLEAN, y \in Stages :
         /\ [e EXCEPT !.pinned = x, !.stage = y] \in Entries
         /\ [e EXCEPT !.pinned = x, !.stage = y].id = e.id
         /\ [e EXCEPT !.pinned = x, !.stage = y].rejects = e.rejects
  BY DEF Entries, Stages
<1> QED BY <1>1, <1>2, <1>3, <1>4, <1>5, <1>6

Held(s) == IF s \in Known(ledger) THEN ledger.entry[s] ELSE Blank(NextId(ledger))
Dup(s, p) == \E r \in Held(s).rejects : r.run = Run /\ r.provider = p
ThisReject(p) == [run |-> Run, provider |-> p, at |-> clock]

LEMMA HeldTyped ==
    ASSUME TypeInv, LearningAssumption, NEW s \in Sigs
    PROVE  /\ Held(s) \in Entries
           /\ s \in Known(ledger) => Held(s).id <= ledger.seq
           /\ s \notin Known(ledger) => Held(s).id = ledger.seq + 1 /\ Held(s).rejects = {}
<1>1. CASE s \in Known(ledger) BY <1>1 DEF Held, Known, TypeInv
<1>2. CASE s \notin Known(ledger)
  <2> DEFINE ids == {ledger.seq} \cup {ledger.entry[t].id : t \in Known(ledger)}
  <2>1. ledger.seq \in ids /\ \A x \in ids : x \in Nat /\ x <= ledger.seq
    <3>1. \A t \in Known(ledger) : ledger.entry[t] \in Entries BY DEF TypeInv, Known
    <3>2. \A e \in Entries : e.id \in Nat BY DEF Entries
    <3> QED BY <3>1, <3>2 DEF TypeInv
  <2>2. NextId(ledger) = ledger.seq + 1
    <3> HIDE DEF ids
    <3>1. Max(ids) = ledger.seq BY <2>1, MaxOf
    <3> QED BY <3>1 DEF NextId, ids
  <2>3. Held(s) = Blank(ledger.seq + 1) BY <1>2, <2>2 DEF Held
  <2>4. ledger.seq + 1 \in Nat /\ clock \in Nat BY DEF TypeInv
  <2> QED BY <1>2, <2>3, <2>4 DEF Blank, Entries
<1> QED BY <1>1, <1>2

\* One more reject, unless this run and provider have one.
LEMMA RecordRejectDoes ==
    ASSUME TypeInv, LearningAssumption, NEW s \in Sigs, NEW p \in Providers,
           NEW l, l = RecordReject(ledger, s, p)
    PROVE  /\ DOMAIN l = {"seq", "entry"} /\ l.seq \in Nat /\ l.seq >= ledger.seq /\ l.seq >= Held(s).id
           /\ l.entry \in [Sigs -> Entries \cup {None}]
           /\ \A t \in Sigs \ {s} : l.entry[t] = ledger.entry[t]
           /\ l.entry[s] \in Entries /\ l.entry[s].id = Held(s).id
           /\ Dup(s, p) => l.entry[s].rejects = Held(s).rejects
           /\ ~Dup(s, p) => l.entry[s].rejects = Held(s).rejects \cup {ThisReject(p)}
<1> DEFINE e == Held(s)
           rejects == e.rejects \cup {ThisReject(p)}
           more == [e EXCEPT !.rejects = rejects]
           stage == Higher(more.stage, Recompute(more))
           now == IF Dup(s, p) THEN e ELSE [more EXCEPT !.stage = stage]
           last == [now EXCEPT !.seen = clock]
<1>1. e \in Entries /\ e.id \in Nat BY HeldTyped DEF Entries
<1>2. rejects \in SUBSET Rejects
  <2>1. ThisReject(p) \in Rejects BY DEF ThisReject, Rejects, TypeInv, Run
  <2> QED BY <1>1, <2>1 DEF Entries
<1>3. more \in Entries /\ more.id = e.id /\ more.rejects = rejects
  <2> HIDE DEF e, rejects
  <2> QED BY <1>1, <1>2, EntryTyped
<1>4. stage \in Stages
  <2> HIDE DEF more
  <2> QED BY StageTyped DEF Higher, Stages
<1>5. now \in Entries /\ now.id = e.id /\ now.rejects = IF Dup(s, p) THEN e.rejects ELSE rejects
  <2> HIDE DEF e, rejects, more, stage
  <2> QED BY <1>1, <1>3, <1>4, EntryTyped
<1>6. last \in Entries /\ last.id = e.id /\ last.rejects = now.rejects
  <2> HIDE DEF e, now
  <2> QED BY <1>5, EntryTyped DEF TypeInv
<1>7. l = [seq |-> Max({ledger.seq, e.id}), entry |-> [ledger.entry EXCEPT ![s] = last]]
  BY DEF RecordReject, Held, Dup, ThisReject
<1> HIDE DEF e, rejects, more, stage, now, last
<1>8. \E m \in Nat : m = Max({ledger.seq, e.id}) /\ m >= ledger.seq /\ m >= e.id
  <2>1. ledger.seq \in Nat BY DEF TypeInv
  <2>2. CASE e.id <= ledger.seq
    <3>1. Max({ledger.seq, e.id}) = ledger.seq BY <1>1, <2>1, <2>2, MaxOf
    <3> QED BY <3>1, <2>1, <2>2, <1>1
  <2>3. CASE ~(e.id <= ledger.seq)
    <3>1. ledger.seq <= e.id BY <2>1, <2>3, <1>1
    <3>2. Max({ledger.seq, e.id}) = e.id BY <1>1, <2>1, <3>1, MaxOf
    <3> QED BY <3>1, <3>2, <2>1, <1>1
  <2> QED BY <2>2, <2>3
<1>9. /\ DOMAIN l = {"seq", "entry"} /\ l.seq \in Nat /\ l.seq >= ledger.seq /\ l.seq >= e.id
  BY <1>7, <1>8
<1>10. l.entry = [ledger.entry EXCEPT ![s] = last] BY <1>7
<1>11. /\ l.entry \in [Sigs -> Entries \cup {None}]
       /\ \A t \in Sigs \ {s} : l.entry[t] = ledger.entry[t]
       /\ l.entry[s] = last
  BY <1>6, <1>10 DEF TypeInv
<1> QED BY <1>5, <1>6, <1>9, <1>11 DEF e, rejects

\* What is left of an entry has its id and its rejects.
LEMMA DecayDoes ==
    ASSUME TypeInv, LearningAssumption, NEW l, l = DecayPass(ledger)
    PROVE  /\ DOMAIN l = {"seq", "entry"} /\ l.seq = ledger.seq
           /\ l.entry \in [Sigs -> Entries \cup {None}]
           /\ \A s \in Sigs : l.entry[s] # None =>
                 s \in Known(ledger) /\ l.entry[s].id = ledger.entry[s].id /\ l.entry[s].rejects = ledger.entry[s].rejects
<1> DEFINE entry == [s \in Sigs |->
        IF s \notin Known(ledger) \/ (Decayed(ledger.entry[s]).stage = "candidate" /\ clock - ledger.entry[s].seen > ReapSpan)
        THEN None ELSE Decayed(ledger.entry[s])]
<1>1. l = [ledger EXCEPT !.entry = entry] BY DEF DecayPass
<1>2. ASSUME NEW s \in Known(ledger)
      PROVE  /\ Decayed(ledger.entry[s]) \in Entries
             /\ Decayed(ledger.entry[s]).id = ledger.entry[s].id
             /\ Decayed(ledger.entry[s]).rejects = ledger.entry[s].rejects
  <2>1. ledger.entry[s] \in Entries BY DEF Known, TypeInv
  <2> QED BY <2>1, StageTyped, EntryTyped DEF Decayed
<1>3. \A s \in Sigs : entry[s] \in Entries \cup {None} BY <1>2
<1>4. \A s \in Sigs : entry[s] # None =>
         s \in Known(ledger) /\ entry[s].id = ledger.entry[s].id /\ entry[s].rejects = ledger.entry[s].rejects
  BY <1>2
<1>5. entry \in [Sigs -> Entries \cup {None}] BY <1>3
<1> HIDE DEF entry
<1>6. DOMAIN l = {"seq", "entry"} /\ l.seq = ledger.seq /\ l.entry = entry BY <1>1 DEF TypeInv
<1> QED BY <1>4, <1>5, <1>6

\* Every entry that is left has the id and the rejects it had.
SameVotes ==
    /\ DOMAIN ledger' = {"seq", "entry"} /\ ledger'.seq = ledger.seq
    /\ ledger'.entry \in [Sigs -> Entries \cup {None}]
    /\ \A s \in Sigs : ledger'.entry[s] # None =>
          /\ ledger.entry[s] # None
          /\ ledger'.entry[s].id = ledger.entry[s].id /\ ledger'.entry[s].rejects = ledger.entry[s].rejects

LEMMA TouchDoes ==
    ASSUME TypeInv, LearningAssumption, NEW s \in Known(ledger), NEW e \in Entries,
           e.id = ledger.entry[s].id, e.rejects = ledger.entry[s].rejects,
           ledger' = [ledger EXCEPT !.entry = [@ EXCEPT ![s] = e]]
    PROVE  SameVotes /\ Known(ledger)' = Known(ledger)
<1>1. s \in Sigs /\ ledger.entry[s] # None BY DEF Known
<1>2. /\ DOMAIN ledger' = {"seq", "entry"} /\ ledger'.seq = ledger.seq
      /\ ledger'.entry = [ledger.entry EXCEPT ![s] = e]
  BY DEF TypeInv
<1>3. ledger'.entry \in [Sigs -> Entries \cup {None}] BY <1>1, <1>2 DEF TypeInv
<1>4. \A t \in Sigs : ledger'.entry[t] = IF t = s THEN e ELSE ledger.entry[t] BY <1>1, <1>2 DEF TypeInv
<1>5. e # None BY DEF LearningAssumption
<1>6. SameVotes BY <1>1, <1>2, <1>3, <1>4 DEF SameVotes
<1>7. Known(ledger') = Known(ledger) BY <1>1, <1>4, <1>5 DEF Known
<1> QED BY <1>6, <1>7

\* What people and the pairing do to an entry.
LEMMA LabelsDo ==
    ASSUME TypeInv, LearningAssumption, NEW s \in Sigs,
           Pin(s) \/ Unpin(s) \/ Contradict(s) \/ Relink(s)
    PROVE  SameVotes /\ Known(ledger)' = Known(ledger)
<1>1. s \in Known(ledger)
  BY DEF Pin, Unpin, Contradict, Relink, TypeInv, At
<1> DEFINE e == ledger.entry[s]
<1>2. e \in Entries BY <1>1 DEF TypeInv, Known
<1>3. CASE Pin(s)
  <2>1. ledger' = [ledger EXCEPT !.entry = [@ EXCEPT ![s] = [e EXCEPT !.pinned = TRUE, !.stage = "sticky"]]]
    BY <1>3 DEF Pin
  <2>2. "sticky" \in Stages BY DEF Stages
  <2> QED BY <1>1, <1>2, <2>1, <2>2, EntryTyped, TouchDoes
<1>4. CASE Unpin(s)
  <2> DEFINE stage == Recompute([ledger.entry[s] EXCEPT !.pinned = FALSE])
  <2>1. ledger' = [ledger EXCEPT !.entry = [@ EXCEPT ![s] = [e EXCEPT !.pinned = FALSE, !.stage = stage]]]
    BY <1>4 DEF Unpin
  <2>2. stage \in Stages BY StageTyped
  <2> HIDE DEF stage
  <2> QED BY <1>1, <1>2, <2>1, <2>2, EntryTyped, TouchDoes
<1>5. CASE Contradict(s)
  <2>1. ledger' = [ledger EXCEPT !.entry = [@ EXCEPT ![s] = [e EXCEPT !.clash = TRUE]]]
    BY <1>5 DEF Contradict
  <2> QED BY <1>1, <1>2, <2>1, EntryTyped, TouchDoes
<1>6. CASE Relink(s)
  <2>1. PICK n \in gate.orphans : ledger' = [ledger EXCEPT !.entry = [@ EXCEPT ![s] = [e EXCEPT !.link = n.id]]]
    BY <1>6 DEF Relink, Orphans
  <2>2. n.id \in Nat BY DEF TypeInv
  <2> QED BY <1>1, <1>2, <2>1, <2>2, EntryTyped, TouchDoes
<1> QED BY <1>3, <1>4, <1>5, <1>6

\* What is rejected is a signature and a provider of a finding.
LEMMA RejectionsTyped ==
    ASSUME TypeInv, LearningAssumption
    PROVE  /\ Rejections \subseteq Members
           /\ \A t \in Members : t[1] \in Sigs /\ t[2] \in Providers
<1>1. \A t \in Members : t[1] \in Sigs /\ t[2] \in Providers
  <2>1. \A t \in Members : t[2] \in {m[2] : m \in Members} OBVIOUS
  <2>2. Members \subseteq Sigs \X Providers BY DEF LearningAssumption
  <2> HIDE DEF Members
  <2> QED BY <2>1, <2>2 DEF Providers
<1>2. ASSUME NEW t \in Rejections PROVE t \in Members
  <2>1. PICK l \in AtHand : t \in pending[l.id].members BY DEF Rejections
  <2>2. l.id \in DOMAIN pending BY DEF AtHand
  <2>3. pending \in config.reports BY <2>2 DEF TypeInv
  <2>4. pending \in UNION {c.reports : c \in Configs} BY <2>3 DEF TypeInv
  <2>5. t \in UNION {pending[id].members : id \in DOMAIN pending} BY <2>1, <2>2
  <2> QED BY <2>4, <2>5 DEF Members
<1> QED BY <1>1, <1>2

\* Where the booking goes next, and with what.
LEMMA BookDoes ==
    ASSUME NEW first \in 1 .. 4, NEW g, g = Book(first)
    PROVE  /\ DOMAIN g = {"pc", "todo", "orphans", "note"}
           /\ g.pc \in Books \cup {"judge"} /\ g.orphans = {} /\ g.note = None
           /\ g.pc = "ledger" => g.todo = Rejections
           /\ g.pc = "lessons" => g.todo = Mended
           /\ g.pc = "ledger" => first = 1
<1> HIDE DEF Rejections, Mended
<1> DEFINE left == {i \in first .. 3 : Parts[i] \in config.on}
<1>1. CASE left = {} BY <1>1 DEF Book, Idle, Books
<1>2. CASE left # {}
  <2>1. Min(left) \in left /\ \A i \in left : Min(left) <= i
    <3>1. \A i \in left : i \in {1, 2, 3} OBVIOUS
    <3>2. \E i \in left : \A j \in left : j >= i BY <1>2, <3>1
    <3> HIDE DEF left
    <3> QED BY <3>2, <3>1 DEF Min
  <2> DEFINE k == Min(left)
             todo == CASE k = 1 -> Rejections [] k = 2 -> {} [] k = 3 -> Mended
  <2>2. g = [[Idle EXCEPT !.pc = Parts[k]] EXCEPT !.todo = todo] BY <1>2 DEF Book
  <2>3. k \in {1, 2, 3} /\ first <= k BY <2>1
  <2> HIDE DEF k
  <2>4. /\ k = 1 => todo = Rejections /\ Parts[k] = "ledger" /\ first = 1
        /\ k = 2 => Parts[k] = "rep"
        /\ k = 3 => todo = Mended /\ Parts[k] = "lessons"
    BY <2>3 DEF Parts
  <2> HIDE DEF todo
  <2>5. /\ DOMAIN g = {"pc", "todo", "orphans", "note"} /\ g.pc = Parts[k] /\ g.todo = todo
        /\ g.orphans = {} /\ g.note = None
    BY <2>2 DEF Idle
  <2> QED BY <2>3, <2>4, <2>5 DEF Books
<1> QED BY <1>1, <1>2

LEMMA LineTyped ==
    ASSUME TypeInv, NEW id \in DOMAIN pending, NEW w \in config.words
    PROVE  /\ [id |-> id, word |-> w, round |-> round, about |-> pending[id]] \in Lines
           /\ config.words \subseteq Words
<1>1. pending \in config.reports /\ config \in Configs BY DEF TypeInv
<1>2. id \in Ids BY <1>1 DEF Ids
<1>3. pending[id] \in Findings BY <1>1 DEF Findings
<1>4. config.words \subseteq Words BY <1>1 DEF Words
<1>5. round \in Nat BY DEF TypeInv
<1> HIDE DEF Ids, Findings, Words
<1> QED BY <1>2, <1>3, <1>4, <1>5 DEF Lines

\* Every step, told by what happens to the ledger.
LEMMA LedgerSteps ==
    ASSUME TypeInv, LearningAssumption, [Next]_vars
    PROVE  \/ UNCHANGED ledger
           \/ LearnOne
           \/ SameVotes /\ UNCHANGED <<config, st, pending, dec, clock, history>> /\ gate.pc = "ledger" /\ Decay
           \/ /\ SameVotes /\ Known(ledger)' = Known(ledger)
              /\ UNCHANGED <<config, st, pending, dec, clock, history>>
<1>1. CASE Decay
  <2>1. ledger' = DecayPass(ledger) BY <1>1 DEF Decay
  <2>2. SameVotes BY <2>1, DecayDoes DEF SameVotes, Known
  <2> QED BY <1>1, <2>2 DEF Decay, At
<1>2. CASE LinkNote
  <2> DEFINE s == gate.note.about
             e == [ledger.entry[s] EXCEPT !.link = gate.note.id]
  <2>1. ledger' = [ledger EXCEPT !.entry = [@ EXCEPT ![s] = e]] BY <1>2 DEF LinkNote
  <2>2. s \in Known(ledger) /\ gate.note.id \in Nat BY <1>2 DEF LinkNote, TypeInv, At
  <2>3. ledger.entry[s] \in Entries BY <2>2 DEF Known, TypeInv
  <2>4. e \in Entries /\ e.id = ledger.entry[s].id /\ e.rejects = ledger.entry[s].rejects
    BY <2>2, <2>3, EntryTyped
  <2>5. SameVotes /\ Known(ledger)' = Known(ledger)
    <3> HIDE DEF s, e
    <3> QED BY <2>1, <2>2, <2>4, TouchDoes DEF s
  <2> QED BY <1>2, <2>5 DEF LinkNote, history
<1>3. ASSUME NEW s \in Sigs, Pin(s) \/ Unpin(s) \/ Contradict(s) \/ Relink(s)
      PROVE  SameVotes /\ Known(ledger)' = Known(ledger) /\ UNCHANGED <<config, st, pending, dec, clock, history>>
  BY <1>3, LabelsDo DEF Pin, Unpin, Contradict, Relink, ByHand, history
<1> QED BY <1>1, <1>2, <1>3
  DEF Next, vars, stores, history, Answer, Tick, NewSession, Stop, Rearm, ClearDecisions, RateAll, TeachOne,
      Forget, Fail, Block, WriteReport, PairBegin, Kill, AddNote, Revoke, ByHand, Record

\* The part of the type invariant that is about the ledger.
LedgerTyped ==
    /\ DOMAIN ledger = {"seq", "entry"} /\ ledger.seq \in Nat
    /\ ledger.entry \in [Sigs -> Entries \cup {None}]
    /\ \A s \in Known(ledger) : ledger.entry[s].id <= ledger.seq

LEMMA LedgerNext ==
    ASSUME TypeInv, LearningAssumption, [Next]_vars
    PROVE  LedgerTyped'
<1>1. CASE UNCHANGED ledger
  BY <1>1 DEF TypeInv, LedgerTyped, Known
<1>2. CASE SameVotes
  <2>1. \A s \in Known(ledger') : s \in Known(ledger) /\ ledger'.entry[s].id = ledger.entry[s].id
    BY <1>2 DEF SameVotes, Known
  <2>2. \A s \in Known(ledger') : ledger'.entry[s].id <= ledger'.seq
    BY <1>2, <2>1 DEF SameVotes, TypeInv
  <2> QED BY <1>2, <2>2 DEF SameVotes, TypeInv, LedgerTyped, Known
<1>3. CASE LearnOne
  <2>1. PICK s \in Sigs, p \in Providers : ledger' = RecordReject(ledger, s, p)
    <3>1. PICK t \in gate.todo : ledger' = RecordReject(ledger, t[1], t[2]) BY <1>3 DEF LearnOne
    <3>2. t \in Rejections BY <1>3 DEF TypeInv, LearnOne, At
    <3> QED BY <3>1, <3>2, RejectionsTyped
  <2>2. PICK l : l = ledger' OBVIOUS
  <2>3. /\ DOMAIN l = {"seq", "entry"} /\ l.seq \in Nat /\ l.seq >= ledger.seq /\ l.seq >= Held(s).id
        /\ l.entry \in [Sigs -> Entries \cup {None}]
        /\ \A x \in Sigs \ {s} : l.entry[x] = ledger.entry[x]
        /\ l.entry[s].id = Held(s).id
    <3>1. l = RecordReject(ledger, s, p) BY <2>1, <2>2
    <3> QED BY <3>1, RecordRejectDoes
  <2>4. ASSUME NEW x \in Known(l) PROVE l.entry[x].id <= l.seq
    <3>1. x \in Sigs BY DEF Known
    <3>2. CASE x = s
      <4>1. Held(s).id \in Nat BY HeldTyped DEF Entries
      <4> QED BY <3>2, <4>1, <2>3
    <3>3. CASE x # s
      <4>1. l.entry[x] = ledger.entry[x] BY <3>1, <3>3, <2>3
      <4>2. x \in Known(ledger) BY <3>1, <4>1 DEF Known
      <4>3. ledger.entry[x].id <= ledger.seq /\ ledger.entry[x].id \in Nat /\ ledger.seq \in Nat
        BY <4>2 DEF TypeInv, Known, Entries
      <4> QED BY <4>1, <4>3, <2>3
    <3> QED BY <3>2, <3>3
  <2> QED BY <2>2, <2>3, <2>4 DEF LedgerTyped, Known
<1> QED BY <1>1, <1>2, <1>3, LedgerSteps

\* The part that is about where the gate is.
GateTyped ==
    /\ gate.pc \in {"agent", "rearmed", "judge", "reported", "pair", "passed"} \cup Books
    /\ DOMAIN gate = {"pc", "todo", "orphans", "note"}
    /\ gate.pc \in {"reported", "pair"} => round < config.rounds
    /\ gate.pc \in Books => st.iter >= 1
    /\ gate.pc = "ledger" => gate.todo \subseteq Rejections
    /\ gate.pc = "lessons" => gate.todo \subseteq Mended
    /\ gate.pc = "pair" => /\ gate.todo \subseteq Known(ledger)
                           /\ gate.note # None => gate.note.about \in Known(ledger) /\ gate.note.id \in Nat
    /\ \A n \in brain \cup gate.orphans : n.id \in Nat
    /\ \E m \in Nat : \A n \in brain : n.id <= m

\* The answers are read again as they are when no file they come from changes.
LEMMA SameAnswers ==
    ASSUME UNCHANGED <<st, pending, dec>>
    PROVE  Rejections' = Rejections /\ Mended' = Mended /\ Events' = Events
<1>1. AtHand' = AtHand BY DEF AtHand, Answers
<1>2. Run' = Run BY DEF Run
<1> QED BY <1>1, <1>2 DEF Rejections, Mended, Events

LEMMA GateNext ==
    ASSUME TypeInv, LearningAssumption, [Next]_vars
    PROVE  GateTyped'
<1> USE DEF At, Goto, Idle, ByHand, stores, history, vars
<1>1. GateTyped BY DEF GateTyped, TypeInv
<1> HIDE DEF At, Goto, Idle, ByHand, stores, history, vars
<1>2. ASSUME UNCHANGED <<config, round, st, pending, dec, gate, ledger, brain>> PROVE GateTyped'
  BY <1>1, <1>2, SameAnswers DEF GateTyped, Known
\* The gate has left the booking and the pairing.
<1>3. ASSUME gate'.pc \in {"agent", "rearmed", "judge", "passed"}, UNCHANGED brain, gate'.orphans = {},
             DOMAIN gate' = {"pc", "todo", "orphans", "note"}
      PROVE  GateTyped'
  BY <1>1, <1>3 DEF GateTyped, Books
<1>4. ASSUME NEW first \in 1 .. 4, gate' = Book(first), st.iter >= 1, UNCHANGED <<st, pending, dec, brain>>
      PROVE  GateTyped'
  <2>1. /\ DOMAIN gate' = {"pc", "todo", "orphans", "note"}
        /\ gate'.pc \in Books \cup {"judge"} /\ gate'.orphans = {} /\ gate'.note = None
        /\ gate'.pc = "ledger" => gate'.todo = Rejections
        /\ gate'.pc = "lessons" => gate'.todo = Mended
    BY <1>4, BookDoes
  <2>2. Rejections' = Rejections /\ Mended' = Mended BY <1>4, SameAnswers
  <2> HIDE DEF Rejections, Mended
  <2>3. gate'.pc \notin {"reported", "pair"} BY <2>1 DEF Books
  <2> QED BY <1>1, <1>4, <2>1, <2>2, <2>3 DEF GateTyped
\* Some of the work is done, the ledger knows what it knew.
<1>5. ASSUME gate'.pc = gate.pc, DOMAIN gate' = DOMAIN gate, gate'.todo \subseteq gate.todo,
             gate'.orphans = gate.orphans, gate'.note = gate.note \/ gate'.note = None,
             gate.pc = "pair" => Known(ledger)' = Known(ledger),
             UNCHANGED <<config, round, st, pending, dec, brain>>
      PROVE  GateTyped'
  <2>1. Rejections' = Rejections /\ Mended' = Mended BY <1>5, SameAnswers
  <2> HIDE DEF Rejections, Mended
  <2> QED BY <1>1, <1>5, <2>1 DEF GateTyped
<1>6. ASSUME UNCHANGED gate, gate.pc = "agent", \E m \in Nat : \A n \in brain' : n.id <= m,
             \A n \in brain' : n.id \in Nat
      PROVE  GateTyped'
  BY <1>1, <1>6 DEF GateTyped, Books
<1>7. CASE Answer \/ NewSession \/ Tick
  BY <1>7, <1>1, <1>6 DEF Answer, NewSession, Tick, GateTyped, stores
<1>8. CASE Stop
  <2>1. CASE st.iter = 0 BY <2>1, <1>8, <1>3 DEF Stop, Idle, stores
  <2>2. CASE st.iter # 0
    <3>1. st.iter >= 1 BY <2>2 DEF TypeInv
    <3> QED BY <2>2, <3>1, <1>8, <1>4 DEF Stop, stores
  <2> QED BY <2>1, <2>2
<1>9. CASE Rearm \/ ClearDecisions \/ Forget \/ Block \/ Kill
  BY <1>9, <1>3 DEF Rearm, ClearDecisions, Forget, Block, Kill, Goto, Idle, stores, At
<1>10. CASE LearnOne
  BY <1>10, <1>5 DEF LearnOne, At, TypeInv
<1>11. CASE TeachOne
  BY <1>11, <1>5 DEF TeachOne, At, TypeInv, history
<1>12. CASE Decay
  <2>1. st.iter >= 1 BY <1>12 DEF TypeInv, Decay, At, Books
  <2> QED BY <1>12, <2>1, <1>4 DEF Decay
<1>13. CASE RateAll
  <2>1. st.iter >= 1 BY <1>13 DEF TypeInv, RateAll, At, Books
  <2> QED BY <1>13, <2>1, <1>4 DEF RateAll
<1>14. CASE Fail
  <2>1. PICK i \in DOMAIN Parts : At(Parts[i]) /\ gate' = Book(i + 1) BY <1>14 DEF Fail
  <2>2. i \in {1, 2, 3} BY DEF Parts
  <2>3. gate.pc \in Books BY <2>1, <2>2 DEF At, Parts, Books
  <2>4. st.iter >= 1 BY <2>3 DEF TypeInv
  <2>5. i + 1 \in 1 .. 4 BY <2>2
  <2> QED BY <1>14, <2>1, <2>4, <2>5, <1>4 DEF Fail, stores
<1>15. CASE WriteReport
  <2>1. /\ gate'.pc = "reported" /\ DOMAIN gate' = {"pc", "todo", "orphans", "note"} /\ gate'.orphans = {}
    BY <1>15 DEF WriteReport, Goto, Idle
  <2>2. round' < config'.rounds /\ UNCHANGED brain BY <1>15 DEF WriteReport, history, stores
  <2> QED BY <1>1, <2>1, <2>2 DEF GateTyped, Books
<1>16. CASE PairBegin
  <2>1. /\ gate'.pc = "pair" /\ DOMAIN gate' = {"pc", "todo", "orphans", "note"} /\ gate'.orphans = brain
        /\ gate'.todo \subseteq Known(ledger) /\ gate'.note = None
    BY <1>16 DEF PairBegin, Idle
  <2>2. round' < config'.rounds /\ UNCHANGED <<brain, ledger>>
    BY <1>16 DEF PairBegin, history, stores, TypeInv, At
  <2> QED BY <1>1, <2>1, <2>2 DEF GateTyped, Books, Known
<1>17. CASE \E passed \in BOOLEAN : Record(passed)
  BY <1>17, <1>3 DEF Record, Goto, Idle, stores
<1>18. CASE LinkNote
  <2>1. Known(ledger)' = Known(ledger)
    <3>1. LinkNote => ~LearnOne /\ ~Decay BY DEF LinkNote, LearnOne, Decay, At
    <3>2. UNCHANGED ledger => Known(ledger)' = Known(ledger) BY DEF Known
    <3> QED BY <1>18, <3>1, <3>2, LedgerSteps
  <2> QED BY <1>18, <1>5, <2>1 DEF LinkNote, At, TypeInv, history
<1>19. ASSUME NEW s \in Sigs, Pin(s) \/ Unpin(s) PROVE GateTyped'
  <2>1. Known(ledger)' = Known(ledger) BY <1>19, LabelsDo
  <2> QED BY <1>19, <1>5, <2>1 DEF Pin, Unpin, ByHand, history
<1>20. ASSUME NEW s \in Sigs, Contradict(s) \/ Relink(s) PROVE GateTyped'
  <2>1. Known(ledger)' = Known(ledger) BY <1>20, LabelsDo
  <2> QED BY <1>20, <1>5, <2>1 DEF Contradict, Relink, history, TypeInv
<1>21. ASSUME NEW n \in brain, Revoke(n) PROVE GateTyped'
  <2>1. brain' \subseteq brain /\ UNCHANGED <<config, round, st, pending, dec, gate, ledger>>
    BY <1>21 DEF Revoke, ByHand, history
  <2>2. Rejections' = Rejections /\ Mended' = Mended BY <2>1, SameAnswers
  <2>3. Known(ledger)' = Known(ledger) BY <2>1 DEF Known
  <2> HIDE DEF Rejections, Mended
  <2> QED BY <1>1, <2>1, <2>2, <2>3 DEF GateTyped
<1>22. ASSUME NEW s \in Sigs, AddNote(s) PROVE GateTyped'
  <2> DEFINE ids == {0} \cup {m.id : m \in brain}
             n == [id |-> Max(ids) + 1, fp |-> ledger.entry[s].id, about |-> s]
  <2>1. Max(ids) \in Nat /\ \A x \in ids : x <= Max(ids)
    <3>1. PICK m \in Nat : \A x \in brain : x.id <= m BY DEF TypeInv
    <3>2. 0 \in ids /\ \A x \in ids : x \in Nat /\ x <= m BY <3>1 DEF TypeInv
    <3> HIDE DEF ids
    <3> QED BY <3>2, MaxExists
  <2>2. /\ brain' = brain \cup {n} /\ gate' = [gate EXCEPT !.note = n] /\ s \in Known(ledger) /\ gate.pc = "pair"
        /\ UNCHANGED <<config, round, st, pending, dec, ledger>>
    BY <1>22 DEF AddNote, history, At, TypeInv
  <2>3. n.id \in Nat /\ n.about = s /\ \A m \in brain : m.id <= n.id
    <3>1. \A m \in brain : m.id \in Nat /\ m.id \in ids BY DEF TypeInv
    <3>2. n.id = Max(ids) + 1 /\ n.about = s OBVIOUS
    <3> HIDE DEF ids, n
    <3> QED BY <2>1, <3>1, <3>2
  <2> HIDE DEF ids, n
  <2>4. /\ DOMAIN gate' = DOMAIN gate /\ gate'.pc = "pair" /\ gate'.note = n
        /\ gate'.todo = gate.todo /\ gate'.orphans = gate.orphans
    BY <2>2 DEF TypeInv
  <2>5. Known(ledger)' = Known(ledger) BY <2>2 DEF Known
  <2>6. \A m \in brain' : m.id <= n.id /\ m.id \in Nat BY <2>2, <2>3 DEF TypeInv
  <2> QED BY <1>1, <2>2, <2>3, <2>4, <2>5, <2>6 DEF GateTyped, Books
<1>23. CASE UNCHANGED vars BY <1>2, <1>23 DEF vars, history
<1> QED BY <1>7, <1>8, <1>9, <1>10, <1>11, <1>12, <1>13, <1>14, <1>15, <1>16, <1>17, <1>18, <1>19, <1>20,
           <1>21, <1>22, <1>23 DEF Next

\* The state after a pass and after a round.
LEMMA CycleTyped ==
    ASSUME TypeInv
    PROVE  /\ NextCycle \in [session : Nat, cycle : Nat, iter : Nat]
           /\ NextCycle.iter = 0 /\ NextCycle.session = st.session /\ NextCycle.cycle = st.cycle + 1
           /\ [st EXCEPT !.iter = @ + 1] \in [session : Nat, cycle : Nat, iter : Nat]
           /\ [st EXCEPT !.iter = @ + 1].iter = st.iter + 1
           /\ [st EXCEPT !.iter = @ + 1].session = st.session
           /\ [st EXCEPT !.iter = @ + 1].cycle = st.cycle
<1>1. DOMAIN st = {"session", "cycle", "iter"} /\ st.cycle \in Nat /\ st.iter \in Nat /\ st.session \in Nat
      /\ st \in [session : Nat, cycle : Nat, iter : Nat]
  BY DEF TypeInv
<1>2. st.cycle + 1 \in Nat /\ st.iter + 1 \in Nat /\ 0 \in Nat BY <1>1
<1>3. NextCycle \in [session : Nat, cycle : Nat, iter : Nat] BY <1>1, <1>2 DEF NextCycle
<1>4. NextCycle.iter = 0 /\ NextCycle.session = st.session /\ NextCycle.cycle = st.cycle + 1
  BY <1>1, <1>2 DEF NextCycle
<1>5. [st EXCEPT !.iter = @ + 1] \in [session : Nat, cycle : Nat, iter : Nat] BY <1>1, <1>2
<1>6. /\ [st EXCEPT !.iter = @ + 1].iter = st.iter + 1
      /\ [st EXCEPT !.iter = @ + 1].session = st.session
      /\ [st EXCEPT !.iter = @ + 1].cycle = st.cycle
  BY <1>1, <1>2
<1> QED BY <1>3, <1>4, <1>5, <1>6

LEMMA TypeNext ==
    ASSUME TypeInv, LearningAssumption, [Next]_vars
    PROVE  TypeInv'
<1>1. LedgerTyped' BY LedgerNext
<1>2. GateTyped' BY GateNext
<1>3. config' = config
  BY DEF Next, vars, stores, history, Answer, Tick, NewSession, Stop, Rearm, ClearDecisions, RateAll, TeachOne,
      Forget, Fail, Block, WriteReport, PairBegin, Kill, AddNote, Revoke, ByHand, Record, LearnOne, Decay, LinkNote,
      Pin, Unpin, Contradict, Relink
<1>4. clock' \in Nat
  <2>1. CASE Tick BY <2>1 DEF Tick, TypeInv
  <2>2. CASE clock' = clock BY <2>2 DEF TypeInv
  <2> QED BY <2>1, <2>2
    DEF Next, vars, stores, history, Answer, NewSession, Stop, Rearm, ClearDecisions, RateAll, TeachOne,
      Forget, Fail, Block, WriteReport, PairBegin, Kill, AddNote, Revoke, ByHand, Record, LearnOne, Decay, LinkNote,
      Pin, Unpin, Contradict, Relink
<1>5. pending' = <<>> \/ pending' \in config.reports
  BY DEF Next, vars, stores, history, Answer, Tick, NewSession, Stop, Rearm, ClearDecisions, RateAll, TeachOne,
      Forget, Fail, Block, WriteReport, PairBegin, Kill, AddNote, Revoke, ByHand, Record, LearnOne, Decay, LinkNote,
      Pin, Unpin, Contradict, Relink, TypeInv
<1>6. /\ st' \in [session : Nat, cycle : Nat, iter : Nat]
      /\ round' \in Nat /\ round' <= config.rounds /\ st'.iter <= round'
  <2>1. CASE \E passed \in BOOLEAN : Record(passed)
    <3>1. round < config.rounds /\ round \in Nat /\ config.rounds \in Nat
      BY <2>1 DEF Record, TypeInv, LearningAssumption
    <3>2. round' = round + 1 BY <2>1 DEF Record
    <3>3. st' = NextCycle \/ st' = [st EXCEPT !.iter = @ + 1] BY <2>1 DEF Record
    <3>4. st'.session = st.session /\ st'.cycle \in Nat /\ st'.iter \in Nat /\ st'.iter <= st.iter + 1
          /\ st' \in [session : Nat, cycle : Nat, iter : Nat]
      <4>1. NextCycle \in [session : Nat, cycle : Nat, iter : Nat] /\ NextCycle.iter = 0
            /\ NextCycle.session = st.session
        BY CycleTyped
      <4>2. [st EXCEPT !.iter = @ + 1] \in [session : Nat, cycle : Nat, iter : Nat]
            /\ [st EXCEPT !.iter = @ + 1].iter = st.iter + 1 /\ [st EXCEPT !.iter = @ + 1].session = st.session
        BY CycleTyped
      <4>3. \A x \in [session : Nat, cycle : Nat, iter : Nat] : x.cycle \in Nat /\ x.iter \in Nat OBVIOUS
      <4>4. st.iter \in Nat BY DEF TypeInv
      <4> QED BY <3>3, <4>1, <4>2, <4>3, <4>4
    <3>5. st.iter \in Nat /\ st.iter <= round BY DEF TypeInv
    <3> QED BY <3>1, <3>2, <3>4, <3>5
  <2>2. CASE Rearm
    <3>1. st' = NextCycle /\ round' = round BY <2>2 DEF Rearm, history
    <3>2. NextCycle \in [session : Nat, cycle : Nat, iter : Nat] /\ NextCycle.iter = 0 BY CycleTyped
    <3>3. round \in Nat /\ round <= config.rounds /\ 0 <= round BY DEF TypeInv
    <3> QED BY <3>1, <3>2, <3>3
  <2>3. CASE NewSession
    <3>1. st' = [session |-> st.session + 1, cycle |-> 0, iter |-> 0] /\ round' = round BY <2>3 DEF NewSession, history
    <3> QED BY <3>1 DEF TypeInv
  <2>4. CASE st' = st /\ round' = round BY <2>4 DEF TypeInv
  <2> QED BY <2>1, <2>2, <2>3, <2>4
    DEF Next, vars, stores, history, Answer, Tick, Stop, ClearDecisions, RateAll, TeachOne,
      Forget, Fail, Block, WriteReport, PairBegin, Kill, AddNote, Revoke, ByHand, LearnOne, Decay, LinkNote,
      Pin, Unpin, Contradict, Relink
<1>7. dec' \in [1 .. config.rounds -> Seq(Lines)]
  <2>1. CASE Answer
    <3>1. PICK id \in DOMAIN pending, w \in config.words :
            dec' = [dec EXCEPT ![st.iter] = Append(@, [id |-> id, word |-> w, round |-> round, about |-> pending[id]])]
      BY <2>1 DEF Answer
    <3> DEFINE line == [id |-> id, word |-> w, round |-> round, about |-> pending[id]]
    <3>2. line \in Lines BY LineTyped
    <3>3. st.iter \in 1 .. config.rounds
      BY <2>1 DEF Answer, TypeInv, LearningAssumption
    <3>4. dec' = [dec EXCEPT ![st.iter] = Append(dec[st.iter], line)] BY <3>1
    <3> HIDE DEF line
    <3>5. dec[st.iter] \in Seq(Lines) BY <3>3 DEF TypeInv
    <3>6. Append(dec[st.iter], line) \in Seq(Lines) BY <3>2, <3>5
    <3> QED BY <3>3, <3>4, <3>6 DEF TypeInv
  <2>2. CASE dec' = [i \in DOMAIN dec |-> <<>>]
    <3>1. <<>> \in Seq(Lines) OBVIOUS
    <3> QED BY <2>2, <3>1 DEF TypeInv
  <2>3. CASE dec' = dec BY <2>3 DEF TypeInv
  <2> QED BY <2>1, <2>2, <2>3
    DEF Next, vars, stores, history, NewSession, Rearm, Tick, Stop, ClearDecisions, RateAll, TeachOne,
      Forget, Fail, Block, WriteReport, PairBegin, Kill, AddNote, Revoke, ByHand, LearnOne, Decay, LinkNote,
      Pin, Unpin, Contradict, Relink, Record
<1>8. config' \in Configs /\ config'.rounds = config.rounds /\ config'.reports = config.reports
  BY <1>3 DEF TypeInv
<1> QED BY <1>1, <1>2, <1>4, <1>5, <1>6, <1>7, <1>8, <1>3 DEF TypeInv, LedgerTyped, GateTyped

\* One answer to a finding.
LEMMA OneAnswer ==
    ASSUME NEW lines, DOMAIN lines \subseteq Nat, NEW l \in Answers(lines), NEW m \in Answers(lines), l.id = m.id
    PROVE  l = m
<1>1. PICK i \in DOMAIN lines : /\ l = lines[i] /\ lines[i].word # "invalid"
                                /\ \A j \in DOMAIN lines : lines[j].id = lines[i].id /\ j > i => lines[j].word = "invalid"
  BY DEF Answers
<1>2. PICK j \in DOMAIN lines : /\ m = lines[j] /\ lines[j].word # "invalid"
                                /\ \A k \in DOMAIN lines : lines[k].id = lines[j].id /\ k > j => lines[k].word = "invalid"
  BY DEF Answers
<1>3. ~(j > i) /\ ~(i > j) BY <1>1, <1>2
<1>4. i = j BY <1>3
<1> QED BY <1>1, <1>2, <1>4

LEMMA LinesOfRound ==
    ASSUME TypeInv, LearningAssumption, st.iter >= 1
    PROVE  st.iter \in DOMAIN dec /\ dec[st.iter] \in Seq(Lines) /\ DOMAIN dec[st.iter] \subseteq Nat
<1>1. st.iter \in 1 .. config.rounds BY DEF TypeInv, LearningAssumption
<1>2. st.iter \in DOMAIN dec /\ dec[st.iter] \in Seq(Lines) BY <1>1 DEF TypeInv
<1> QED BY <1>2

\* An event has one outcome.
LEMMA OneOutcome ==
    ASSUME TypeInv, LearningAssumption, st.iter >= 1
    PROVE  /\ \A x \in Events : x.outcome \in {"correct", "wrong"}
           /\ \A x, y \in Events : x.eid = y.eid => x.outcome = y.outcome
<1> DEFINE told == {a \in AtHand : Outcome(a.word) # "none" /\ ~pending[a.id].lore}
<1>1. \A w : Outcome(w) \in {"correct", "wrong", "none"} BY DEF Outcome
<1>2. \A x \in Events : \E l \in told : \E key : x = [eid |-> <<Run, l.id, key>>, outcome |-> Outcome(l.word)]
  BY DEF Events
<1>3. \A x \in Events : x.outcome \in {"correct", "wrong"} BY <1>1, <1>2
<1>4. ASSUME NEW x \in Events, NEW y \in Events, x.eid = y.eid
      PROVE  x.outcome = y.outcome
  <2>1. PICK l \in told : \E key : x = [eid |-> <<Run, l.id, key>>, outcome |-> Outcome(l.word)] BY <1>2
  <2>2. PICK m \in told : \E key : y = [eid |-> <<Run, m.id, key>>, outcome |-> Outcome(m.word)] BY <1>2
  <2>3. x.eid[2] = l.id /\ y.eid[2] = m.id /\ x.outcome = Outcome(l.word) /\ y.outcome = Outcome(m.word)
    BY <2>1, <2>2
  <2>4. l.id = m.id BY <2>3, <1>4
  <2>5. l \in Answers(dec[st.iter]) /\ m \in Answers(dec[st.iter]) BY DEF AtHand
  <2>6. l = m BY <2>4, <2>5, LinesOfRound, OneAnswer
  <2> QED BY <2>3, <2>6
<1> QED BY <1>3, <1>4

LEMMA RatedNext ==
    ASSUME TypeInv, RatedInv, LearningAssumption, [Next]_vars
    PROVE  RatedInv'
<1>1. CASE UNCHANGED <<rep, rated>> BY <1>1 DEF RatedInv
<1>2. CASE RateAll
  <2>1. st.iter >= 1 BY <1>2 DEF RateAll, At, TypeInv, Books
  <2>2. CASE Events = {}
    <3>1. rep' = rep BY <1>2, <2>2 DEF RateAll
    <3>2. Eids(Events) = {} BY <2>2 DEF Eids
    <3>3. rated' = [e \in DOMAIN rated |-> rated[e]] BY <1>2, <3>2 DEF RateAll
    <3> QED BY <3>1, <3>3 DEF RatedInv
  <2>3. CASE Events # {}
    <3> DEFINE last(e) == (CHOOSE x \in Events : x.eid = e).outcome
               to(o) == {e.eid : e \in {x \in Events : x.outcome = o}}
               put(o, other) == {x \in rep[o] : x.eid \notin to(other)}
                                  \cup {[eid |-> e, at |-> clock] : e \in to(o) \ Eids(rep[o])}
    <3>1. rep' = [correct |-> Prune(put("correct", "wrong")), wrong |-> Prune(put("wrong", "correct"))]
      BY <1>2, <2>3 DEF RateAll, Rate
    <3>2. rated' = [e \in Eids(Events) \cup DOMAIN rated |-> IF e \in Eids(Events) THEN last(e) ELSE rated[e]]
      BY <1>2 DEF RateAll
    <3>3. ASSUME NEW x \in Events PROVE x.eid \in Eids(Events) /\ last(x.eid) = x.outcome
      <4>1. x.eid \in Eids(Events) BY DEF Eids
      <4>2. \E y \in Events : y.eid = x.eid OBVIOUS
      <4>3. (CHOOSE y \in Events : y.eid = x.eid) \in Events /\ (CHOOSE y \in Events : y.eid = x.eid).eid = x.eid
        BY <4>2
      <4> QED BY <4>1, <4>3, <2>1, OneOutcome
    <3>4. ASSUME NEW o \in {"correct", "wrong"}, NEW other \in {"correct", "wrong"}, o # other,
                 NEW x \in put(o, other)
          PROVE  x.eid \in DOMAIN rated' /\ rated'[x.eid] = o
      <4> HIDE DEF last
      <4>1. CASE x \in rep[o] /\ x.eid \notin to(other)
        <5>1. x.eid \in DOMAIN rated /\ rated[x.eid] = o BY <4>1 DEF RatedInv
        <5>2. CASE x.eid \in Eids(Events)
          <6>1. PICK y \in Events : y.eid = x.eid BY <5>2 DEF Eids
          <6>2. y.outcome # other BY <4>1, <6>1
          <6>3. y.outcome = o BY <6>2, <3>4, <2>1, OneOutcome
          <6> QED BY <6>1, <6>3, <3>2, <3>3
        <5>3. CASE x.eid \notin Eids(Events) BY <5>1, <5>3, <3>2
        <5> QED BY <5>2, <5>3
      <4>2. CASE x.eid \in to(o)
        <5>1. PICK y \in Events : y.eid = x.eid /\ y.outcome = o BY <4>2
        <5> QED BY <5>1, <3>2, <3>3
      <4> QED BY <4>1, <4>2
    <3>5. rep'["correct"] = Prune(put("correct", "wrong")) /\ rep'["wrong"] = Prune(put("wrong", "correct"))
      BY <3>1
    <3>6. \A b : Prune(b) \subseteq b BY DEF Prune
    <3> HIDE DEF put
    <3> QED BY <3>4, <3>5, <3>6 DEF RatedInv
  <2> QED BY <2>2, <2>3
<1> QED BY <1>1, <1>2
  DEF Next, vars, stores, history, Answer, Tick, NewSession, Stop, Rearm, ClearDecisions, LearnOne, Decay, TeachOne,
      Forget, Fail, Block, WriteReport, PairBegin, LinkNote, Kill, Pin, Unpin, Contradict, Relink, AddNote, Revoke,
      ByHand, Record

\* Later runs come after this one.
LEMMA RunsGoOn ==
    ASSUME TypeInv, LearningAssumption, [Next]_vars, NEW r, Before(r, Run),
           r[1] \in Nat, r[2] \in Nat, r[3] \in Nat
    PROVE  /\ Before(r, Run')
           /\ (\E passed \in BOOLEAN : Record(passed)) /\ st'.iter >= 1 => r # Run'
<1> DEFINE s == st.session
           c == st.cycle
           i == st.iter
<1>1. s \in Nat /\ c \in Nat /\ i \in Nat BY DEF TypeInv
<1>2. Run = <<s, c, i>> /\ Run' = <<st'.session, st'.cycle, st'.iter>> BY DEF Run
<1>3. Before(r, <<s, c, i>>) BY <1>2
<1> DEFINE After(x, y, z) ==
        \/ x = s /\ y = c /\ z = i
        \/ x = s /\ y = c /\ z = i + 1
        \/ x = s /\ y = c + 1 /\ z = 0
        \/ x = s + 1
<1>4. \A x, y, z \in Nat : After(x, y, z) => Before(r, <<x, y, z>>)
  BY <1>1, <1>3, SMT DEF Before
<1>5. r # <<s, c, i + 1>> BY <1>1, <1>3, SMT DEF Before
<1>5a. st' = st => ~(\E passed \in BOOLEAN : Record(passed))
  <2>1. ASSUME st' = st, \E passed \in BOOLEAN : Record(passed) PROVE FALSE
    <3>1. st' = NextCycle \/ st' = [st EXCEPT !.iter = @ + 1] BY <2>1 DEF Record
    <3>2. st'.cycle = c + 1 \/ st'.iter = i + 1 BY <3>1, CycleTyped
    <3> QED BY <3>2, <2>1, <1>1
  <2> QED BY <2>1
<1>6. CASE \E passed \in BOOLEAN : Record(passed)
  <2>1. st' = NextCycle \/ st' = [st EXCEPT !.iter = @ + 1] BY <1>6 DEF Record
  <2>2. CASE st' = NextCycle
    <3>1. st'.session = s /\ st'.cycle = c + 1 /\ st'.iter = 0 BY <2>2, CycleTyped
    <3> HIDE DEF s, c, i
    <3>2. Before(r, Run') BY <3>1, <1>1, <1>2, <1>4
    <3> QED BY <3>1, <3>2
  <2>3. CASE st' = [st EXCEPT !.iter = @ + 1]
    <3>1. st'.session = s /\ st'.cycle = c /\ st'.iter = i + 1 BY <2>3, CycleTyped
    <3> HIDE DEF s, c, i
    <3>2. Before(r, Run') BY <3>1, <1>1, <1>2, <1>4
    <3> QED BY <3>1, <3>2, <1>5, <1>2
  <2> QED BY <2>1, <2>2, <2>3
<1>7. CASE st' = st
  <2>1. Run' = <<s, c, i>> BY <1>7, <1>2
  <2>2. Before(r, Run') BY <2>1, <1>3
  <2>3. ~(\E passed \in BOOLEAN : Record(passed)) BY <1>7, <1>5a
  <2> QED BY <2>2, <2>3
<1>8. CASE Rearm
  <2>1. st' = NextCycle BY <1>8 DEF Rearm
  <2>2. st'.session = s /\ st'.cycle = c + 1 /\ st'.iter = 0 BY <2>1, CycleTyped
  <2> HIDE DEF s, c, i
  <2>3. Before(r, Run') BY <2>2, <1>1, <1>2, <1>4
  <2> QED BY <2>2, <2>3
<1>9. CASE NewSession
  <2>1. st' = [session |-> st.session + 1, cycle |-> 0, iter |-> 0] BY <1>9 DEF NewSession
  <2>2. st'.session = s + 1 /\ st'.cycle = 0 /\ st'.iter = 0 BY <2>1
  <2> HIDE DEF s, c, i
  <2>3. Before(r, Run') BY <2>2, <1>1, <1>2, <1>4
  <2> QED BY <2>2, <2>3
<1>10. (\E passed \in BOOLEAN : Record(passed)) \/ st' = st \/ Rearm \/ NewSession
  BY DEF Next, vars, stores, history, Answer, Tick, Stop, ClearDecisions, RateAll, TeachOne,
      Forget, Fail, Block, WriteReport, PairBegin, Kill, AddNote, Revoke, ByHand, LearnOne, Decay, LinkNote,
      Pin, Unpin, Contradict, Relink
<1> QED BY <1>6, <1>7, <1>8, <1>9, <1>10

\* Where no vote is cast, the votes stay balanced.
LEMMA VotesKept ==
    ASSUME TypeInv, VotesInv, LearningAssumption, [Next]_vars, ~LearnOne,
           UNCHANGED ledger \/ (SameVotes /\ UNCHANGED st /\ UNCHANGED round)
    PROVE  VotesInv'
<1>1. \A s \in Known(ledger)' : /\ s \in Known(ledger)
                                /\ ledger'.entry[s].id = ledger.entry[s].id
                                /\ ledger'.entry[s].rejects = ledger.entry[s].rejects
  BY DEF SameVotes, Known
<1>2. UNCHANGED learnt
  BY DEF Next, vars, stores, history, Answer, Tick, NewSession, Stop, Rearm, ClearDecisions, RateAll, Decay, TeachOne,
      Forget, Fail, Block, WriteReport, PairBegin, LinkNote, Kill, Pin, Unpin, Contradict, Relink, AddNote, Revoke,
      ByHand, Record
<1>3. \/ \E passed \in BOOLEAN : Record(passed) /\ round' = round + 1 /\ UNCHANGED ledger
      \/ round' = round /\ (st' = st \/ st'.iter = 0)
  <2>1. CASE Rearm \/ NewSession
    BY <2>1, CycleTyped DEF Rearm, NewSession, history
  <2>2. CASE \E passed \in BOOLEAN : Record(passed) BY <2>2 DEF Record, stores
  <2> QED BY <2>1, <2>2
    DEF Next, vars, stores, history, Answer, Tick, Stop, ClearDecisions, RateAll, Decay, TeachOne,
      Forget, Fail, Block, WriteReport, PairBegin, LinkNote, Kill, Pin, Unpin, Contradict, Relink, AddNote, Revoke,
      ByHand
<1>4. ledger'.seq = ledger.seq BY DEF SameVotes
<1>5. round' >= round /\ round' \in Nat /\ round \in Nat BY <1>3 DEF TypeInv
<1>6. learnt' \subseteq [fp : Nat, provider : Providers, round : Nat] BY <1>2 DEF VotesInv
<1>7. \A l \in learnt' : l.fp <= ledger'.seq /\ l.round <= round'
  <2>1. \A l \in learnt : l.round \in Nat /\ l.round <= round /\ l.fp <= ledger.seq BY DEF VotesInv
  <2> QED BY <2>1, <1>2, <1>4, <1>5
<1>8. \A s, t \in Known(ledger)' : ledger'.entry[s].id = ledger'.entry[t].id => s = t
  BY <1>1 DEF VotesInv
<1>9. ASSUME NEW s \in Known(ledger), NEW r \in ledger.entry[s].rejects
      PROVE  /\ Before(r.run, Run') 
             /\ (\E passed \in BOOLEAN : Record(passed)) /\ st'.iter >= 1 => r.run # Run'
  <2>1. ledger.entry[s] \in Entries BY DEF TypeInv, Known
  <2>2. r \in Rejects BY <2>1 DEF Entries
  <2>3. r.run \in Nat \X Nat \X Nat BY <2>2 DEF Rejects
  <2>4. r.run[1] \in Nat /\ r.run[2] \in Nat /\ r.run[3] \in Nat BY <2>3
  <2>5. Before(r.run, Run) BY DEF VotesInv
  <2> QED BY <2>4, <2>5, RunsGoOn
<1>10. \A s \in Known(ledger)' : \A r \in ledger'.entry[s].rejects : Before(r.run, Run')
  BY <1>1, <1>9
<1>12. ASSUME NEW s \in Known(ledger), NEW p \in Providers
       PROVE  st'.iter >= 1 =>
                 ((\E r \in Of(ledger.entry[s].rejects, p) : r.run = Run')
                     <=> (\E l \in Of(Learnt(ledger.entry[s].id), p) : l.round = round'))
  <2>1. CASE \E passed \in BOOLEAN : Record(passed) /\ round' = round + 1
    <3>1. st'.iter >= 1 => \A r \in ledger.entry[s].rejects : r.run # Run' BY <1>9, <2>1
    <3>2. \A l \in learnt : l.round # round'
      <4>1. \A l \in learnt : l.round \in Nat /\ l.round <= round BY DEF VotesInv
      <4> QED BY <4>1, <2>1, <1>5
    <3> QED BY <3>1, <3>2 DEF Of, Learnt
  <2>2. CASE round' = round /\ st' = st
    <3>1. Run' = Run BY <2>2 DEF Run
    <3>2. Agree(Of(ledger.entry[s].rejects, p), Of(Learnt(ledger.entry[s].id), p)) BY DEF VotesInv
    <3> QED BY <2>2, <3>1, <3>2 DEF Agree
  <2>3. CASE st'.iter = 0 BY <2>3
  <2> QED BY <1>3, <2>1, <2>2, <2>3
<1>14. ASSUME NEW s \in Known(ledger)', NEW p \in Providers
       PROVE  /\ Balanced(Of(ledger'.entry[s].rejects, p), Of({l \in learnt' : l.fp = ledger'.entry[s].id}, p))
              /\ st'.iter >= 1 =>
                    ((\E r \in Of(ledger'.entry[s].rejects, p) : r.run = Run')
                       <=> (\E l \in Of({l \in learnt' : l.fp = ledger'.entry[s].id}, p) : l.round = round'))
  <2>1. s \in Known(ledger) BY <1>1
  <2>2. Balanced(Of(ledger.entry[s].rejects, p), Of(Learnt(ledger.entry[s].id), p)) BY <2>1 DEF VotesInv
  <2>3. {l \in learnt' : l.fp = ledger'.entry[s].id} = Learnt(ledger.entry[s].id) BY <1>1, <1>2, <2>1 DEF Learnt
  <2> QED BY <1>1, <1>12, <2>1, <2>2, <2>3
<1>15. \A s \in Known(ledger)', p \in Providers :
          /\ Balanced(Of(ledger.entry[s].rejects, p), Of(Learnt(ledger.entry[s].id), p))'
          /\ Agree(Of(ledger.entry[s].rejects, p), Of(Learnt(ledger.entry[s].id), p))'
  BY <1>14 DEF Balanced, Agree, Of, Learnt
<1> QED BY <1>6, <1>7, <1>8, <1>10, <1>15 DEF VotesInv

\* One vote more on both sides, or on neither.
LEMMA VoteCast ==
    ASSUME TypeInv, VotesInv, LearningAssumption, LearnOne
    PROVE  VotesInv'
<1>1. PICK s \in Sigs, p \in Providers :
        /\ ledger' = RecordReject(ledger, s, p)
        /\ learnt' = learnt \cup {[fp |-> ledger'.entry[s].id, provider |-> p, round |-> round]}
  <2>1. PICK t \in gate.todo :
          /\ ledger' = RecordReject(ledger, t[1], t[2])
          /\ learnt' = learnt \cup {[fp |-> ledger'.entry[t[1]].id, provider |-> t[2], round |-> round]}
    BY DEF LearnOne
  <2>2. t \in Rejections BY DEF TypeInv, LearnOne, At
  <2> QED BY <2>1, <2>2, RejectionsTyped
<1>2. UNCHANGED <<st, round>> /\ st.iter >= 1 /\ Run' = Run
  BY DEF LearnOne, At, TypeInv, Books, Run
<1> DEFINE e == Held(s)
           id == e.id
           mine == ThisReject(p)
           told == [fp |-> id, provider |-> p, round |-> round]
<1>3. PICK l : l = ledger' OBVIOUS
<1>4. /\ l.seq \in Nat /\ l.seq >= ledger.seq /\ l.seq >= id
      /\ l.entry \in [Sigs -> Entries \cup {None}]
      /\ \A x \in Sigs \ {s} : l.entry[x] = ledger.entry[x]
      /\ l.entry[s] \in Entries /\ l.entry[s].id = id
      /\ Dup(s, p) => l.entry[s].rejects = e.rejects
      /\ ~Dup(s, p) => l.entry[s].rejects = e.rejects \cup {mine}
  <2>1. l = RecordReject(ledger, s, p) BY <1>1, <1>3
  <2> QED BY <2>1, RecordRejectDoes
<1>5. /\ e \in Entries /\ id \in Nat /\ ledger.seq \in Nat /\ round \in Nat
      /\ s \in Known(ledger) => e = ledger.entry[s] /\ id <= ledger.seq
      /\ s \notin Known(ledger) => id = ledger.seq + 1 /\ e.rejects = {}
  <2>1. e \in Entries BY HeldTyped
  <2>2. id \in Nat BY <2>1 DEF Entries
  <2>3. s \in Known(ledger) => e = ledger.entry[s] BY DEF Held
  <2> QED BY <2>1, <2>2, <2>3, HeldTyped DEF TypeInv
<1>6. learnt' = learnt \cup {told} BY <1>1, <1>3, <1>4
<1>7. told \in [fp : Nat, provider : Providers, round : Nat] /\ told.fp = id /\ told.provider = p /\ told.round = round
  BY <1>5
<1>8. mine.provider = p /\ mine.run = Run BY DEF ThisReject
<1> HIDE DEF e, id, mine, told
<1>9. \A m \in learnt : m.fp \in Nat /\ m.fp <= ledger.seq /\ m.round \in Nat /\ m.round <= round
  BY DEF VotesInv
<1>10. \A x \in Known(l) : x = s \/ (x \in Known(ledger) /\ l.entry[x] = ledger.entry[x] /\ ledger.entry[x].id # id)
  <2>1. ASSUME NEW x \in Known(l), x # s
        PROVE  x \in Known(ledger) /\ l.entry[x] = ledger.entry[x] /\ ledger.entry[x].id # id
    <3>1. x \in Known(ledger) /\ l.entry[x] = ledger.entry[x] BY <2>1, <1>4 DEF Known
    <3>2. ledger.entry[x].id <= ledger.seq /\ ledger.entry[x].id \in Nat BY <3>1 DEF TypeInv, Known, Entries
    <3>3. CASE s \in Known(ledger)
      <4>1. ledger.entry[s].id = id BY <3>3, <1>5 DEF id
      <4> QED BY <4>1, <3>1, <3>3, <2>1 DEF VotesInv
    <3>4. CASE s \notin Known(ledger) BY <3>1, <3>2, <3>4, <1>5
    <3> QED BY <3>1, <3>3, <3>4
  <2> QED BY <2>1
<1>11. learnt' \subseteq [fp : Nat, provider : Providers, round : Nat]
  BY <1>6, <1>7 DEF VotesInv
<1>12. \A m \in learnt' : m.fp <= l.seq /\ m.round <= round
  <2>1. told.fp <= l.seq /\ told.round <= round BY <1>4, <1>5, <1>7
  <2>2. \A m \in learnt : m.fp <= l.seq /\ m.round <= round BY <1>4, <1>5, <1>9
  <2> QED BY <2>1, <2>2, <1>6
<1>13. \A x, y \in Known(l) : l.entry[x].id = l.entry[y].id => x = y
  BY <1>4, <1>10 DEF VotesInv
<1>14. \A x \in Known(l) : \A r \in l.entry[x].rejects : Before(r.run, Run)
  <2>1. \A r \in e.rejects : Before(r.run, Run) BY <1>5 DEF VotesInv
  <2>2. Before(Run, Run) BY DEF Before, Run, TypeInv
  <2>3. \A r \in l.entry[s].rejects : Before(r.run, Run) BY <2>1, <2>2, <1>4, <1>8
  <2>4. \A x \in Known(ledger) : \A r \in ledger.entry[x].rejects : Before(r.run, Run) BY DEF VotesInv
  <2> QED BY <2>3, <2>4, <1>10
<1> DEFINE Told(n) == {m \in learnt' : m.fp = n}
<1>15. \A n : n # id => Told(n) = Learnt(n) BY <1>6, <1>7 DEF Learnt
<1>16. Told(id) = Learnt(id) \cup {told} BY <1>6, <1>7 DEF Learnt
<1>17. ASSUME NEW q \in Providers
       PROVE  Balanced(Of(e.rejects, q), Of(Learnt(id), q)) /\ Agree(Of(e.rejects, q), Of(Learnt(id), q))
  <2>1. CASE s \in Known(ledger) BY <2>1, <1>5 DEF VotesInv, id
  <2>2. CASE s \notin Known(ledger)
    <3>1. Of(e.rejects, q) = {} BY <2>2, <1>5 DEF Of
    <3>2. Of(Learnt(id), q) = {} BY <2>2, <1>5, <1>9 DEF Of, Learnt
    <3> QED BY <3>1, <3>2, FS_EmptySet DEF Balanced, Agree
  <2> QED BY <2>1, <2>2
<1> HIDE DEF Told
<1>18. ASSUME NEW x \in Known(l), NEW q \in Providers
       PROVE  /\ Balanced(Of(l.entry[x].rejects, q), Of(Told(l.entry[x].id), q))
              /\ Agree(Of(l.entry[x].rejects, q), Of(Told(l.entry[x].id), q))
  <2>1. CASE x # s
    <3>1. x \in Known(ledger) /\ l.entry[x] = ledger.entry[x] /\ Told(ledger.entry[x].id) = Learnt(ledger.entry[x].id)
      BY <2>1, <1>10, <1>15
    <3> QED BY <3>1 DEF VotesInv
  <2>2. CASE x = s /\ q # p
    <3>1. Of(l.entry[s].rejects, q) = Of(e.rejects, q) BY <2>2, <1>4, <1>8 DEF Of
    <3>2. Of(Told(id), q) = Of(Learnt(id), q) BY <2>2, <1>16, <1>7 DEF Of
    <3> QED BY <2>2, <3>1, <3>2, <1>4, <1>17
  <2>3. CASE x = s /\ q = p /\ Dup(s, p)
    <3>1. \E r \in Of(e.rejects, p) : r.run = Run BY <2>3 DEF Dup, Of, e
    <3>2. PICK m \in Of(Learnt(id), p) : m.round = round BY <3>1, <1>17, <1>2 DEF Agree
    <3>3. m \in learnt /\ m.fp = id /\ m.provider = p BY DEF Of, Learnt
    <3>4. m \in [fp : Nat, provider : Providers, round : Nat] BY <3>3 DEF VotesInv
    <3>5. m = told BY <3>2, <3>3, <3>4, <1>7
    <3>6. Told(id) = Learnt(id) BY <1>16, <3>3, <3>5 DEF Learnt
    <3> QED BY <2>3, <3>6, <1>4, <1>17
  <2>4. CASE x = s /\ q = p /\ ~Dup(s, p)
    <3> DEFINE rs == Of(e.rejects, p)
               ls == Of(Learnt(id), p)
    <3>1. ~\E r \in rs : r.run = Run BY <2>4 DEF Dup, Of, e
    <3>2. ~\E m \in ls : m.round = round BY <3>1, <1>17, <1>2 DEF Agree
    <3>3. Balanced(rs, ls) BY <1>17
    <3>4. Of(l.entry[s].rejects, p) = rs \cup {mine} BY <2>4, <1>4, <1>8 DEF Of
    <3>5. Of(Told(id), p) = ls \cup {told} BY <1>16, <1>7 DEF Of
    <3>6. mine \notin rs /\ told \notin ls BY <3>1, <3>2, <1>7, <1>8
    <3> HIDE DEF rs, ls
    <3>7. /\ IsFiniteSet(rs \cup {mine}) /\ Cardinality(rs \cup {mine}) = Cardinality(rs) + 1
          /\ IsFiniteSet(ls \cup {told}) /\ Cardinality(ls \cup {told}) = Cardinality(ls) + 1
      BY <3>3, <3>6, FS_AddElement DEF Balanced
    <3>8. Balanced(rs \cup {mine}, ls \cup {told}) BY <3>3, <3>7 DEF Balanced
    <3>9. Agree(rs \cup {mine}, ls \cup {told}) BY <1>7, <1>8 DEF Agree
    <3> QED BY <2>4, <3>4, <3>5, <3>8, <3>9, <1>4
  <2> QED BY <2>1, <2>2, <2>3, <2>4
<1>19. \A x \in Known(l), q \in Providers :
          /\ Balanced(Of(l.entry[x].rejects, q), Of({m \in learnt' : m.fp = l.entry[x].id}, q))
          /\ Agree(Of(l.entry[x].rejects, q), Of({m \in learnt' : m.fp = l.entry[x].id}, q))
  BY <1>18 DEF Told
<1>20. \A x \in Known(ledger)', q \in Providers :
          /\ Balanced(Of(ledger.entry[x].rejects, q), Of(Learnt(ledger.entry[x].id), q))'
          /\ Agree(Of(ledger.entry[x].rejects, q), Of(Learnt(ledger.entry[x].id), q))'
  BY <1>19, <1>2, <1>3 DEF Balanced, Agree, Of, Learnt, Known
<1>21. \A x \in Known(ledger)' : x \in Known(l) BY <1>3 DEF Known
<1> QED BY <1>2, <1>3, <1>11, <1>12, <1>13, <1>14, <1>20, <1>21 DEF VotesInv

LEMMA VotesNext ==
    ASSUME TypeInv, VotesInv, LearningAssumption, [Next]_vars
    PROVE  VotesInv'
<1>1. CASE LearnOne BY <1>1, VoteCast
<1>2. CASE ~LearnOne
  <2>1. UNCHANGED ledger \/ (SameVotes /\ UNCHANGED st /\ UNCHANGED round)
    <3>1. UNCHANGED ledger \/ (SameVotes /\ UNCHANGED <<config, st, pending, dec, clock, history>>)
      BY <1>2, LedgerSteps
    <3> QED BY <3>1 DEF history
  <2> QED BY <1>2, <2>1, VotesKept
<1> QED BY <1>1, <1>2

LEMMA HeardNext ==
    ASSUME Windows = {}, TypeInv, HeardInv, LearningAssumption, [Next]_vars
    PROVE  HeardInv'
<1> DEFINE About(lines) == \A k \in DOMAIN lines : /\ lines[k].round = round /\ lines[k].id \in DOMAIN pending
                                                   /\ lines[k].about = pending[lines[k].id]
<1>1. /\ gate.pc \in {"rearmed", "passed"} => st.iter = 0
      /\ gate.pc \notin {"rearmed", "passed"} => \A i \in DOMAIN dec : i > st.iter => dec[i] = <<>>
      /\ gate.pc \in {"agent", "judge"} \cup Books /\ st.iter >= 1 => About(dec[st.iter])
  BY DEF HeardInv
\* The gate moves on and no file does.
<1>2. ASSUME UNCHANGED <<st, pending, dec, round>>, gate'.pc \notin {"rearmed", "passed"},
             gate.pc \notin {"rearmed", "passed"},
             gate'.pc \in {"agent", "judge"} \cup Books => gate.pc \in {"agent", "judge"} \cup Books
      PROVE  HeardInv'
  BY <1>1, <1>2 DEF HeardInv
<1>3. ASSUME UNCHANGED <<gate, st, pending, dec, round>> PROVE HeardInv'
  BY <1>1, <1>3 DEF HeardInv
\* No answer is left.
<1>4. ASSUME dec' = [i \in DOMAIN dec |-> <<>>], st'.iter = 0, gate'.pc \notin {"rearmed", "passed"}
      PROVE  HeardInv'
  <2>1. ~(st'.iter >= 1) BY <1>4
  <2>2. \A i \in DOMAIN dec' : dec'[i] = <<>> BY <1>4
  <2> QED BY <1>4, <2>1, <2>2 DEF HeardInv
<1>5. CASE Answer
  <2>1. PICK id \in DOMAIN pending, w \in config.words :
          dec' = [dec EXCEPT ![st.iter] = Append(@, [id |-> id, word |-> w, round |-> round, about |-> pending[id]])]
    BY <1>5 DEF Answer
  <2> DEFINE line == [id |-> id, word |-> w, round |-> round, about |-> pending[id]]
             lines == dec[st.iter]
  <2>2. st.iter >= 1 /\ gate.pc = "agent" /\ UNCHANGED <<gate, st, pending, round>> BY <1>5 DEF Answer, history
  <2>3. st.iter \in DOMAIN dec /\ lines \in Seq(Lines) BY <2>2, LinesOfRound
  <2>4. line.id = id /\ line.round = round /\ line.about = pending[id] OBVIOUS
  <2>5. /\ DOMAIN dec' = DOMAIN dec /\ dec'[st.iter] = Append(lines, line)
        /\ \A i \in DOMAIN dec : i # st.iter => dec'[i] = dec[i]
    BY <2>1, <2>3
  <2>6. About(lines) BY <1>1, <2>2
  <2> HIDE DEF line, lines, About
  <2>7. About(Append(lines, line))
    <3>1. line \in Lines BY LineTyped DEF line
    <3>2. DOMAIN Append(lines, line) = 1 .. Len(lines) + 1 /\ DOMAIN lines = 1 .. Len(lines) BY <2>3, <3>1
    <3>3. \A k \in 1 .. Len(lines) : Append(lines, line)[k] = lines[k] BY <2>3, <3>1
    <3>4. Append(lines, line)[Len(lines) + 1] = line BY <2>3, <3>1
    <3>5. ASSUME NEW k \in DOMAIN Append(lines, line)
          PROVE  Append(lines, line)[k] = line \/ (k \in DOMAIN lines /\ Append(lines, line)[k] = lines[k])
      <4>1. Len(lines) \in Nat BY <2>3
      <4>2. k \in 1 .. Len(lines) \/ k = Len(lines) + 1 BY <3>2, <4>1
      <4> QED BY <3>2, <3>3, <3>4, <4>2
    <3> QED BY <3>5, <2>4, <2>6 DEF About
  <2>8. About(dec'[st.iter]) BY <2>5, <2>7
  <2>9. \A i \in DOMAIN dec' : i > st.iter => dec'[i] = <<>>
    <3>1. \A i \in DOMAIN dec : i > st.iter => dec[i] = <<>> BY <1>1, <2>2
    <3>2. \A i : i > st.iter => i # st.iter BY DEF TypeInv
    <3> QED BY <3>1, <3>2, <2>5
  <2> QED BY <2>2, <2>8, <2>9 DEF HeardInv, About
<1>6. CASE NewSession
  <2>1. st'.iter = 0 /\ gate'.pc = "agent" /\ dec' = [i \in DOMAIN dec |-> <<>>] BY <1>6 DEF NewSession
  <2> QED BY <2>1, <1>4
<1>7. CASE Stop
  <2>1. gate'.pc \in Books \cup {"judge"}
    <3>1. CASE st.iter = 0 BY <1>7, <3>1 DEF Stop, Idle
    <3>2. CASE st.iter # 0
      <4>1. gate' = Book(1) BY <1>7, <3>2 DEF Stop
      <4> QED BY <4>1, BookDoes
    <3> QED BY <3>1, <3>2
  <2> QED BY <1>7, <2>1, <1>2 DEF Stop, At, Books, history
<1>8. CASE Rearm
  <2>1. st'.iter = 0 /\ gate'.pc = "rearmed" BY <1>8, CycleTyped DEF Rearm, Goto, Idle
  <2> QED BY <2>1 DEF HeardInv, Books
<1>9. CASE ClearDecisions
  <2>1. st'.iter = 0 /\ gate'.pc \in {"judge", "agent"} /\ dec' = [i \in DOMAIN dec |-> <<>>]
    BY <1>9, <1>1 DEF ClearDecisions, Goto, Idle
  <2> QED BY <2>1, <1>4
<1>10. CASE Forget \/ Block
  BY <1>10, <1>2 DEF Forget, Block, Goto, Idle, At, Books, stores, history
<1>11. CASE Decay \/ RateAll \/ Fail
  <2>1. UNCHANGED <<st, pending, dec, round>> BY <1>11 DEF Decay, RateAll, Fail, history
  <2>2. \E first \in 1 .. 4 : gate' = Book(first)
    <3>1. CASE Fail BY <3>1 DEF Fail, Parts
    <3> QED BY <1>11, <3>1 DEF Decay, RateAll
  <2>3. gate.pc \in Books BY <1>11 DEF Decay, RateAll, Fail, At, Parts, Books
  <2>4. gate'.pc \in Books \cup {"judge"} BY <2>2, BookDoes
  <2> QED BY <2>1, <2>3, <2>4, <1>2 DEF Books
<1>12. CASE LearnOne \/ TeachOne
  <2>1. gate'.pc = gate.pc /\ gate.pc \in Books /\ UNCHANGED <<st, pending, dec, round>>
    BY <1>12 DEF LearnOne, TeachOne, At, Books, TypeInv, history
  <2> QED BY <2>1, <1>2 DEF Books
<1>13. CASE WriteReport
  <2>1. gate.pc = "judge" /\ gate'.pc = "reported" /\ UNCHANGED <<st, dec>>
    BY <1>13 DEF WriteReport, Goto, Idle, At
  <2> QED BY <2>1, <1>1 DEF HeardInv, Books
<1>14. ASSUME gate.pc \in {"reported", "pair"}, gate'.pc = "pair", UNCHANGED <<st, pending, dec, round>> PROVE HeardInv'
  BY <1>14, <1>2 DEF Books
<1>15. CASE PairBegin BY <1>15, <1>14 DEF PairBegin, At, Idle, history
<1>16. CASE LinkNote BY <1>16, <1>14 DEF LinkNote, At, TypeInv, history
<1>17. ASSUME NEW s \in Sigs, Contradict(s) \/ Relink(s) \/ AddNote(s) PROVE HeardInv'
  <2>1. gate.pc = "pair" /\ gate'.pc = "pair" /\ UNCHANGED <<st, pending, dec, round>>
    <3>1. CASE Contradict(s) BY <3>1 DEF Contradict, At, TypeInv, history
    <3>2. CASE Relink(s) BY <3>2 DEF Relink, At, TypeInv, history
    <3>3. CASE AddNote(s)
      <4>1. PICK n : gate' = [gate EXCEPT !.note = n] BY <3>3 DEF AddNote
      <4>2. gate'.pc = gate.pc BY <4>1 DEF TypeInv
      <4> QED BY <4>2, <3>3 DEF AddNote, At, history
    <3> QED BY <1>17, <3>1, <3>2, <3>3
  <2> QED BY <2>1, <1>14
<1>18. ASSUME NEW s \in Sigs, Pin(s) \/ Unpin(s) PROVE HeardInv'
  BY <1>18, <1>3 DEF Pin, Unpin, ByHand, history
<1>19. ASSUME NEW n \in brain, Revoke(n) PROVE HeardInv'
  BY <1>19, <1>3 DEF Revoke, ByHand, history
<1>20. ASSUME NEW passed \in BOOLEAN, Record(passed) PROVE HeardInv'
  <2>1. gate.pc \in {"reported", "pair"} /\ dec' = dec /\ round' = round + 1 BY <1>20 DEF Record
  <2>2. CASE passed
    <3>1. st'.iter = 0 /\ gate'.pc = "passed" BY <1>20, <2>2, CycleTyped DEF Record, Goto, Idle
    <3> QED BY <3>1 DEF HeardInv, Books
  <2>3. CASE ~passed
    <3>1. st'.iter = st.iter + 1 /\ gate'.pc = "agent" BY <1>20, <2>3, CycleTyped DEF Record, Goto, Idle
    <3>2. \A i \in DOMAIN dec : i > st.iter => dec[i] = <<>> BY <1>1, <2>1
    <3>3. DOMAIN dec \subseteq Nat /\ st.iter \in Nat BY DEF TypeInv
    <3>4. \A i \in DOMAIN dec' : i >= st'.iter => dec'[i] = <<>> BY <2>1, <3>1, <3>2, <3>3
    <3>5. st'.iter \in DOMAIN dec'
      <4>1. round < config.rounds /\ st.iter <= round /\ config.rounds \in Nat /\ round \in Nat
        BY <2>1 DEF TypeInv, LearningAssumption
      <4>2. st.iter + 1 \in 1 .. config.rounds BY <4>1, <3>3
      <4> QED BY <4>2, <3>1, <2>1 DEF TypeInv
    <3>6. dec'[st'.iter] = <<>> BY <3>4, <3>5, <3>1, <3>3
    <3>7. \A i \in DOMAIN dec' : i > st'.iter => dec'[i] = <<>> BY <3>4, <3>1, <3>3
    <3>8. \A k \in DOMAIN dec'[st'.iter] : FALSE BY <3>6
    <3> QED BY <3>1, <3>7, <3>8 DEF HeardInv
  <2> QED BY <2>2, <2>3
<1>21. CASE Kill
  <2>1. gate'.pc = "agent" /\ gate.pc \notin {"reported", "pair", "rearmed", "passed"}
        /\ UNCHANGED <<st, pending, dec, round>>
    BY <1>21 DEF Kill, Idle, history
  <2>2. gate.pc \in {"agent", "judge"} \cup Books BY <2>1 DEF TypeInv
  <2> QED BY <2>1, <2>2, <1>2
<1>22. CASE Tick \/ UNCHANGED vars BY <1>22, <1>3 DEF Tick, vars, history
<1> QED BY <1>5, <1>6, <1>7, <1>8, <1>9, <1>10, <1>11, <1>12, <1>13, <1>15, <1>16, <1>17, <1>18, <1>19, <1>20,
           <1>21, <1>22 DEF Next

\* What the gate reads at a stop is what the agent says in the end about that report.
LEMMA AtHandStands ==
    ASSUME TypeInv, HeardInv, LearningAssumption, gate.pc \in Books, NEW a \in AtHand
    PROVE  /\ a \in {dec[st.iter][i] : i \in DOMAIN dec[st.iter]} /\ Stands(a)
           /\ a.about = pending[a.id]
<1> DEFINE lines == dec[st.iter]
<1>1. st.iter >= 1 BY DEF TypeInv
<1>2. PICK i \in DOMAIN lines : /\ a = lines[i] /\ lines[i].word # "invalid"
                                /\ \A j \in DOMAIN lines : lines[j].id = lines[i].id /\ j > i => lines[j].word = "invalid"
  BY DEF AtHand, Answers
<1>3. a.round = round /\ a.about = pending[a.id] BY <1>1, <1>2 DEF HeardInv
<1> QED BY <1>2, <1>3 DEF Stands

Standing == {l \in {dec[st.iter][i] : i \in DOMAIN dec[st.iter]} : Stands(l)}

LEMMA NewRejects ==
    ASSUME TypeInv, HeardInv, LearningAssumption, [Next]_vars,
           NEW s \in Known(ledger'), NEW r \in ledger'.entry[s].rejects,
           s \in Known(ledger) => r \notin ledger.entry[s].rejects
    PROVE  \E l \in Standing : l.word = "wrong" /\ ~l.about.lore /\ <<s, r.provider>> \in l.about.members
<1>1. ~UNCHANGED ledger BY DEF Known
<1>2. ~SameVotes BY DEF SameVotes, Known
<1>3. LearnOne BY <1>1, <1>2, LedgerSteps
<1>4. PICK t \in gate.todo : ledger' = RecordReject(ledger, t[1], t[2]) BY <1>3 DEF LearnOne
<1>5. t \in Rejections /\ gate.pc \in Books BY <1>3 DEF TypeInv, LearnOne, At, Books
<1>6. PICK a \in AtHand : a.word = "wrong" /\ ~pending[a.id].lore /\ t \in pending[a.id].members
  BY <1>5 DEF Rejections
<1>7. t[1] \in Sigs /\ t[2] \in Providers /\ t \in Sigs \X Providers
  <2>1. t \in Members BY <1>5, RejectionsTyped
  <2> QED BY <2>1, RejectionsTyped DEF LearningAssumption
<1>8. PICK x \in Sigs, p \in Providers : x = t[1] /\ p = t[2] BY <1>7
<1>9. PICK l : l = ledger' OBVIOUS
<1>10. /\ \A y \in Sigs \ {x} : l.entry[y] = ledger.entry[y]
       /\ Dup(x, p) => l.entry[x].rejects = Held(x).rejects
       /\ ~Dup(x, p) => l.entry[x].rejects = Held(x).rejects \cup {ThisReject(p)}
  <2>1. l = RecordReject(ledger, x, p) BY <1>4, <1>8, <1>9
  <2> QED BY <2>1, RecordRejectDoes
<1>11. s = x
  <2>1. ASSUME s # x PROVE FALSE
    <3>1. s \in Sigs BY DEF Known
    <3>2. ledger'.entry[s] = ledger.entry[s] BY <2>1, <3>1, <1>9, <1>10
    <3> QED BY <3>2, <3>1 DEF Known
  <2> QED BY <2>1
<1>12. r \notin Held(x).rejects
  <2>1. CASE x \in Known(ledger) BY <2>1, <1>11 DEF Held
  <2>2. CASE x \notin Known(ledger) BY <2>2, HeldTyped
  <2> QED BY <2>1, <2>2
<1>13. r = ThisReject(p) BY <1>9, <1>10, <1>11, <1>12
<1>14. r.provider = p BY <1>13 DEF ThisReject
<1>15. <<s, r.provider>> = t BY <1>7, <1>8, <1>11, <1>14
<1> QED BY <1>5, <1>6, <1>15, AtHandStands DEF Standing

LEMMA NewEvents ==
    ASSUME TypeInv, HeardInv, LearningAssumption, [Next]_vars,
           NEW o \in {"correct", "wrong"}, NEW x \in rep'[o], x \notin rep[o]
    PROVE  \E l \in Standing : /\ ~l.about.lore /\ x.eid[2] = l.id /\ x.eid[3] \in l.about.keys
                               /\ l.word \in IF o = "wrong" THEN {"wrong"} ELSE {"fixed", "elsewhere"}
<1>1. RateAll /\ gate.pc \in Books
  <2>1. RateAll
    BY DEF Next, vars, stores, history, Answer, Tick, NewSession, Stop, Rearm, ClearDecisions, LearnOne, Decay, TeachOne,
      Forget, Fail, Block, WriteReport, PairBegin, LinkNote, Kill, Pin, Unpin, Contradict, Relink, AddNote, Revoke,
      ByHand, Record
  <2> QED BY <2>1 DEF RateAll, At, Books
<1> DEFINE to(q) == {e.eid : e \in {y \in Events : y.outcome = q}}
           put(q, other) == {y \in rep[q] : y.eid \notin to(other)}
                              \cup {[eid |-> e, at |-> clock] : e \in to(q) \ Eids(rep[q])}
<1>2. rep' = [correct |-> Prune(put("correct", "wrong")), wrong |-> Prune(put("wrong", "correct"))]
  BY <1>1 DEF RateAll, Rate
<1>3. rep'["correct"] = Prune(put("correct", "wrong")) /\ rep'["wrong"] = Prune(put("wrong", "correct"))
  BY <1>2
<1>4. \A b : Prune(b) \subseteq b BY DEF Prune
<1>5. \E other : x \in put(o, other)
  <2> HIDE DEF put
  <2> QED BY <1>3, <1>4
<1>6. PICK e \in to(o) : x = [eid |-> e, at |-> clock] BY <1>5
<1>7. PICK y \in Events : y.outcome = o /\ y.eid = x.eid BY <1>6
<1>8. PICK a \in AtHand : /\ Outcome(a.word) # "none" /\ ~pending[a.id].lore
                          /\ \E key \in pending[a.id].keys :
                                y = [eid |-> <<Run, a.id, key>>, outcome |-> Outcome(a.word)]
  BY DEF Events
<1>9. /\ Outcome(a.word) = o /\ x.eid[2] = a.id /\ x.eid[3] \in pending[a.id].keys
  BY <1>7, <1>8
<1>10. a.word \in IF o = "wrong" THEN {"wrong"} ELSE {"fixed", "elsewhere"}
  BY <1>9 DEF Outcome
<1> QED BY <1>1, <1>8, <1>9, <1>10, AtHandStands DEF Standing

LEMMA NewLessons ==
    ASSUME TypeInv, HeardInv, LearningAssumption, [Next]_vars,
           NEW x \in lessons', x \notin lessons
    PROVE  \E l \in Standing : l.word = "fixed" /\ l.about.sig = x.sig
<1>1. TeachOne
  <2>1. ~Forget BY DEF Forget, Fresh
  <2> QED BY <2>1
    DEF Next, vars, stores, history, Answer, Tick, NewSession, Stop, Rearm, ClearDecisions, LearnOne, Decay, RateAll,
      Fail, Block, WriteReport, PairBegin, LinkNote, Kill, Pin, Unpin, Contradict, Relink, AddNote, Revoke,
      ByHand, Record
<1>2. PICK o \in gate.todo : lessons' = Occurred(lessons, o) BY <1>1 DEF TeachOne
<1>3. o \in Mended /\ gate.pc \in Books BY <1>1 DEF TypeInv, TeachOne, At, Books
<1>4. x.sig = o.sig BY <1>2 DEF Occurred
<1>5. PICK a \in AtHand : a.word = "fixed" /\ o.sig = pending[a.id].sig BY <1>3 DEF Mended
<1> QED BY <1>3, <1>4, <1>5, AtHandStands DEF Standing

(***************************************************************************)
(* The theorems.                                                           *)
(***************************************************************************)
LEMMA LearningInit == Init /\ LearningAssumption => TypeInv /\ HeardInv /\ RatedInv /\ VotesInv
<1> SUFFICES ASSUME Init, LearningAssumption PROVE TypeInv /\ HeardInv /\ RatedInv /\ VotesInv
  OBVIOUS
<1>1. config \in Configs /\ config.rounds \in Nat BY DEF Init, LearningAssumption
<1>2. /\ st \in [session : Nat, cycle : Nat, iter : Nat] /\ st.iter = 0 /\ round = 0 /\ clock = 0
      /\ pending = <<>> /\ brain = {} /\ learnt = {} /\ rated = <<>>
  BY DEF Init
<1>3. /\ gate.pc = "agent" /\ DOMAIN gate = {"pc", "todo", "orphans", "note"} /\ gate.orphans = {} /\ gate.note = None
  BY DEF Init, Idle
<1>4. dec \in [1 .. config.rounds -> Seq(Lines)] /\ \A i \in DOMAIN dec : dec[i] = <<>>
  <2>1. <<>> \in Seq(Lines) OBVIOUS
  <2> QED BY <2>1 DEF Init
<1>5. /\ DOMAIN ledger = {"seq", "entry"} /\ ledger.seq = 0 /\ ledger.entry \in [Sigs -> Entries \cup {None}]
      /\ Known(ledger) = {}
  BY DEF Init, Known
<1>6. rep["correct"] = {} /\ rep["wrong"] = {} BY DEF Init
<1>7. TypeInv
  <2>1. round \in Nat /\ round <= config.rounds /\ clock \in Nat /\ st.iter <= round BY <1>1, <1>2
  <2>2. /\ \A n \in brain \cup gate.orphans : n.id \in Nat
        /\ \E m \in Nat : \A n \in brain : n.id <= m
    <3>1. 0 \in Nat /\ \A n \in brain : n.id <= 0 BY <1>2
    <3> QED BY <3>1, <1>2, <1>3
  <2>3. /\ ledger.seq \in Nat /\ \A s \in Known(ledger) : ledger.entry[s].id <= ledger.seq BY <1>5
  <2>4. gate.pc \notin Books BY <1>3 DEF Books
  <2>5. gate.pc \notin {"reported", "pair", "ledger", "lessons"} BY <1>3
  <2> QED BY <1>1, <1>2, <1>3, <1>4, <1>5, <2>1, <2>2, <2>3, <2>4, <2>5 DEF TypeInv
<1>8. HeardInv BY <1>2, <1>3, <1>4 DEF HeardInv
<1>9. RatedInv BY <1>6 DEF RatedInv
<1>10. VotesInv BY <1>2, <1>5 DEF VotesInv
<1> QED BY <1>7, <1>8, <1>9, <1>10

\* The files keep their types in every scene, with every window open.
THEOREM LearningTypes == Spec => []TypeInv
<1>1. Init => TypeInv BY LearningInit, LearningAssumption
<1>2. TypeInv /\ [Next]_vars => TypeInv' BY TypeNext, LearningAssumption
<1> QED BY <1>1, <1>2, PTL DEF Spec

\* The side an event is on is the side the last rating put it, at whatever moment the
\* gate is killed.
THEOREM LastWordIsKept == Spec => []LastWordCounts
<1>1. Init => RatedInv BY LearningInit, LearningAssumption
<1>2. TypeInv /\ RatedInv /\ [Next]_vars => RatedInv' BY RatedNext, LearningAssumption
<1>3. RatedInv => LastWordCounts BY DEF RatedInv, LastWordCounts
<1> QED BY <1>1, <1>2, <1>3, LearningTypes, PTL DEF Spec

\* A round counts once against a provider, at whatever moment the gate is killed and
\* however often the round is read.
THEOREM VotesAreCountedOnce == Spec => []OneVotePerRound
<1>1. Init => VotesInv BY LearningInit, LearningAssumption
<1>2. TypeInv /\ VotesInv /\ [Next]_vars => VotesInv' BY VotesNext, LearningAssumption
<1>3. TypeInv /\ VotesInv => OneVotePerRound
  <2> SUFFICES ASSUME TypeInv, VotesInv, NEW s \in Known(ledger),
                      NEW p \in By(ledger.entry[s].rejects) \cup {l.provider : l \in {l \in learnt : l.fp = ledger.entry[s].id}}
               PROVE  Cardinality({r \in ledger.entry[s].rejects : r.provider = p})
                        = Cardinality({l \in learnt : l.fp = ledger.entry[s].id /\ l.provider = p})
    BY DEF OneVotePerRound
  <2>1. ledger.entry[s] \in Entries BY DEF TypeInv, Known
  <2>2. \A r \in ledger.entry[s].rejects : r.provider \in Providers BY <2>1 DEF Entries, Rejects
  <2>3. \A l \in learnt : l.provider \in Providers BY DEF VotesInv
  <2>4. p \in Providers BY <2>2, <2>3 DEF By
  <2>5. Cardinality(Of(ledger.entry[s].rejects, p)) = Cardinality(Of(Learnt(ledger.entry[s].id), p))
    BY <2>4 DEF VotesInv, Balanced
  <2>6. Of(Learnt(ledger.entry[s].id), p) = {l \in learnt : l.fp = ledger.entry[s].id /\ l.provider = p}
    BY DEF Of, Learnt
  <2> QED BY <2>5, <2>6 DEF Of
<1> QED BY <1>1, <1>2, <1>3, LearningTypes, PTL DEF Spec

\* Whatever is booked is what the agent said in the end about that very report, as
\* long as the gate is not killed between a report and its state, nor between the
\* state and the wiping of the answers.
THEOREM OnlyTheHeardIsBooked ==
    ASSUME Windows = {}
    PROVE  Spec => BookedIsHeard
<1>1. Init => HeardInv BY LearningInit, LearningAssumption
<1>2. TypeInv /\ HeardInv /\ [Next]_vars => HeardInv' BY HeardNext, LearningAssumption
<1>3. TypeInv /\ HeardInv /\ [Next]_vars => [st.iter >= 1 => BooksTheHeard]_vars
  <2> SUFFICES ASSUME TypeInv, HeardInv, [Next]_vars PROVE BooksTheHeard
    OBVIOUS
  <2> DEFINE old(s) == IF s \in Known(ledger) THEN ledger.entry[s].rejects ELSE {}
  <2>1. \A s \in Known(ledger') : \A r \in ledger'.entry[s].rejects \ old(s) :
           \E l \in Standing : l.word = "wrong" /\ ~l.about.lore /\ <<s, r.provider>> \in l.about.members
    BY NewRejects, LearningAssumption
  <2>2. \A o \in {"correct", "wrong"} : \A x \in rep'[o] \ rep[o] :
           \E l \in Standing : /\ ~l.about.lore /\ x.eid[2] = l.id /\ x.eid[3] \in l.about.keys
                               /\ l.word \in IF o = "wrong" THEN {"wrong"} ELSE {"fixed", "elsewhere"}
    BY NewEvents, LearningAssumption
  <2>3. \A x \in lessons' \ lessons : \E l \in Standing : l.word = "fixed" /\ l.about.sig = x.sig
    BY NewLessons, LearningAssumption
  <2> QED BY <2>1, <2>2, <2>3 DEF BooksTheHeard, Standing
<1> QED BY <1>1, <1>2, <1>3, LearningTypes, PTL DEF Spec, BookedIsHeard

\* Induction over the numbers, with a set for the predicate.
LEMMA Induct ==
  ASSUME NEW T, 0 \in T, \A n \in Nat : n \in T => n + 1 \in T, NEW m \in Nat
  PROVE  m \in T
  <1> DEFINE All == 0 .. m
             Without == {X \in SUBSET All : \E k \in All : X = 0 .. k /\ k \notin T}
  <1>1. SUFFICES ASSUME m \notin T PROVE FALSE
    OBVIOUS
  <1>2. IsFiniteSet(All)
    BY FS_Interval
  <1>3. Without \subseteq FiniteSubsetsOf(All)
    BY <1>2, FS_Subset DEF FiniteSubsetsOf
  <1>4. All \in Without
    <2>1. m \in All
      OBVIOUS
    <2> QED BY <1>1, <2>1
  <1>5. PICK X \in Without : \A Y \in Without : <<Y, X>> \notin StrictSubsetOrdering(All)
    <2> HIDE DEF Without, All
    <2>1. IsWellFoundedOn(StrictSubsetOrdering(All), FiniteSubsetsOf(All))
      BY FS_StrictSubsetOrderingWellFounded
    <2> QED BY <1>3, <1>4, <2>1, WFMin
  <1>6. PICK k \in All : X = 0 .. k /\ k \notin T
    OBVIOUS
  <1>7. k # 0 /\ k - 1 \in All /\ k - 1 \notin T
    <2>1. k # 0 /\ k - 1 \in Nat /\ (k - 1) + 1 = k
      BY <1>6
    <2> QED BY <1>6, <2>1
  <1>8. 0 .. (k - 1) \subseteq X /\ k \in X /\ k \notin 0 .. (k - 1) /\ 0 .. (k - 1) \subseteq All
    BY <1>6, <1>7
  <1>9. 0 .. (k - 1) \in Without
    <2>1. 0 .. (k - 1) \in SUBSET All
      BY <1>8
    <2> QED BY <1>7, <2>1
  <1>10. <<0 .. (k - 1), X>> \in StrictSubsetOrdering(All)
    BY <1>8, <1>9 DEF StrictSubsetOrdering
  <1> QED BY <1>5, <1>9, <1>10

LEMMA LeastExists ==
  ASSUME NEW S, S # {}, \A x \in S : x \in Nat
  PROVE  Min(S) \in S /\ \A x \in S : Min(S) <= x
  <1> DEFINE T == {n \in Nat : \A x \in S : n <= x}
  <1>1. PICK y \in S : TRUE
    OBVIOUS
  <1>2. y \in Nat /\ y + 1 \notin T
    BY <1>1
  <1>3. 0 \in T
    OBVIOUS
  <1>4. PICK n \in Nat : n \in T /\ n + 1 \notin T
    <2>1. SUFFICES ASSUME \A n \in Nat : n \in T => n + 1 \in T PROVE FALSE
      OBVIOUS
    <2> HIDE DEF T
    <2>2. y + 1 \in Nat
      BY <1>2
    <2> QED BY <1>2, <1>3, <2>1, <2>2, Induct
  <1>5. PICK x \in S : ~(n + 1 <= x)
    BY <1>4
  <1>6. x \in S /\ \A z \in S : x <= z
    BY <1>4, <1>5
  <1> QED BY <1>6 DEF Min

(***************************************************************************)
(* Sequences.                                                              *)
(***************************************************************************)

IsSeq(s) == s \in Seq(ToSet(s))

LEMMA SeqIs ==
  ASSUME NEW S, NEW s \in Seq(S)
  PROVE  /\ IsSeq(s) /\ Len(s) \in Nat /\ DOMAIN s = 1 .. Len(s)
         /\ \A i \in DOMAIN s : s[i] \in S
  BY DEF IsSeq, ToSet

LEMMA IsSeqIn ==
  ASSUME NEW s, IsSeq(s)
  PROVE  /\ Len(s) \in Nat /\ DOMAIN s = 1 .. Len(s) /\ s \in Seq(ToSet(s))
         /\ (s = <<>> <=> Len(s) = 0)
  BY DEF IsSeq

LEMMA MakesSeq ==
  ASSUME NEW m \in Nat, NEW s, DOMAIN s = 1 .. m, s = [i \in 1 .. m |-> s[i]]
  PROVE  IsSeq(s) /\ Len(s) = m
  <1>1. \A i \in 1 .. m : s[i] \in ToSet(s)
    BY DEF ToSet
  <1>2. [i \in 1 .. m |-> s[i]] \in Seq(ToSet(s))
    BY <1>1
  <1> QED BY <1>2 DEF IsSeq

LEMMA AppendIs ==
  ASSUME NEW s, IsSeq(s), NEW x
  PROVE  /\ IsSeq(Append(s, x)) /\ Len(Append(s, x)) = Len(s) + 1
         /\ DOMAIN Append(s, x) = DOMAIN s \cup {Len(s) + 1}
         /\ \A i \in DOMAIN s : Append(s, x)[i] = s[i]
         /\ Append(s, x)[Len(s) + 1] = x
  <1> DEFINE S == ToSet(s) \cup {x}
  <1>1. s \in Seq(S)
    BY DEF IsSeq
  <1>2. Append(s, x) \in Seq(S) /\ Len(s) \in Nat
    BY <1>1
  <1>3. IsSeq(Append(s, x))
    BY <1>2, SeqIs
  <1> HIDE DEF S
  <1> QED BY <1>1, <1>2, <1>3

LEMMA TailIs ==
  ASSUME NEW s, IsSeq(s), s # <<>>
  PROVE  /\ IsSeq(Tail(s)) /\ Len(Tail(s)) = Len(s) - 1 /\ Head(s) = s[1] /\ 1 \in DOMAIN s
         /\ DOMAIN Tail(s) = 1 .. Len(s) - 1
         /\ \A i \in DOMAIN Tail(s) : i + 1 \in DOMAIN s /\ Tail(s)[i] = s[i + 1]
         /\ \A i \in DOMAIN s : i # 1 => i - 1 \in DOMAIN Tail(s) /\ Tail(s)[i - 1] = s[i]
  <1>1. s \in Seq(ToSet(s)) /\ Len(s) \in Nat /\ Len(s) > 0
    BY DEF IsSeq
  <1>2. Tail(s) \in Seq(ToSet(s))
    BY <1>1
  <1>3. IsSeq(Tail(s))
    BY <1>2, SeqIs
  <1> QED BY <1>1, <1>2, <1>3

LEMMA SubSeqIs ==
  ASSUME NEW s, IsSeq(s), NEW a \in Nat \ {0}, NEW b \in 0 .. Len(s)
  PROVE  /\ IsSeq(SubSeq(s, a, b))
         /\ \A i \in DOMAIN SubSeq(s, a, b) : i + a - 1 \in DOMAIN s /\ SubSeq(s, a, b)[i] = s[i + a - 1]
         /\ DOMAIN SubSeq(s, a, b) = 1 .. (IF a <= b THEN b - a + 1 ELSE 0)
  <1>1. s \in Seq(ToSet(s)) /\ Len(s) \in Nat
    BY DEF IsSeq
  <1>2. SubSeq(s, a, b) \in Seq(ToSet(s))
    BY <1>1, SubSeqProperties
  <1>3. IsSeq(SubSeq(s, a, b))
    BY <1>2, SeqIs
  <1> QED BY <1>1, <1>2, <1>3, SubSeqProperties

LEMMA SubSeqIsLong ==
  ASSUME NEW s, IsSeq(s), NEW a \in Nat \ {0}, NEW b \in 0 .. Len(s)
  PROVE  Len(SubSeq(s, a, b)) = IF a <= b THEN b - a + 1 ELSE 0
  <1>1. s \in Seq(ToSet(s))
    BY DEF IsSeq
  <1> QED BY <1>1, SubSeqProperties

LEMMA ConcatIs ==
  ASSUME NEW s, NEW t, IsSeq(s), IsSeq(t)
  PROVE  /\ IsSeq(s \o t) /\ Len(s \o t) = Len(s) + Len(t)
         /\ \A i \in DOMAIN s : i \in DOMAIN (s \o t) /\ (s \o t)[i] = s[i]
         /\ \A i \in DOMAIN t : Len(s) + i \in DOMAIN (s \o t) /\ (s \o t)[Len(s) + i] = t[i]
         /\ \A n \in DOMAIN (s \o t) : \/ n \in DOMAIN s /\ (s \o t)[n] = s[n]
                                       \/ n - Len(s) \in DOMAIN t /\ (s \o t)[n] = t[n - Len(s)]
  <1> DEFINE S == ToSet(s) \cup ToSet(t)
  <1>1. s \in Seq(S) /\ t \in Seq(S)
    BY DEF IsSeq
  <1> HIDE DEF S
  <1>2. s \o t \in Seq(S) /\ Len(s) \in Nat /\ Len(t) \in Nat
    BY <1>1
  <1>3. IsSeq(s \o t)
    BY <1>2, SeqIs
  <1> QED BY <1>1, <1>2, <1>3

\* What `Picked` has picked up to each place.
PickedUp(s, I, m, g) ==
    g = [n \in 0 .. m |-> IF n = 0 THEN <<>> ELSE IF n \in I THEN Append(g[n - 1], s[n]) ELSE g[n - 1]]

LEMMA PickedUpExists ==
  ASSUME NEW s, NEW I, NEW m \in Nat
  PROVE  \E g : PickedUp(s, I, m, g)
  <1> DEFINE T == {n \in Nat : \E g : PickedUp(s, I, n, g)}
  <1>1. 0 \in T
    <2> DEFINE g == [k \in 0 .. 0 |-> <<>>]
    <2>1. g = [n \in 0 .. 0 |-> IF n = 0 THEN <<>> ELSE IF n \in I THEN Append(g[n - 1], s[n]) ELSE g[n - 1]]
      OBVIOUS
    <2> QED BY <2>1 DEF PickedUp
  <1>2. ASSUME NEW n \in Nat, n \in T PROVE n + 1 \in T
    <2>1. PICK g : PickedUp(s, I, n, g)
      BY <1>2
    <2> DEFINE next == IF n + 1 \in I THEN Append(g[n], s[n + 1]) ELSE g[n]
               h == [k \in 0 .. n + 1 |-> IF k = n + 1 THEN next ELSE g[k]]
    <2>2. ASSUME NEW k \in 0 .. n + 1
          PROVE  h[k] = IF k = 0 THEN <<>> ELSE IF k \in I THEN Append(h[k - 1], s[k]) ELSE h[k - 1]
      <3>1. CASE k = n + 1
        <4>1. h[k] = next /\ h[n] = g[n] /\ k # 0 /\ k - 1 = n
          BY <3>1
        <4> QED BY <3>1, <4>1
      <3>2. CASE k \in 0 .. n /\ k # 0
        <4>1. h[k] = g[k] /\ h[k - 1] = g[k - 1]
          BY <3>2
        <4>2. g[k] = IF k \in I THEN Append(g[k - 1], s[k]) ELSE g[k - 1]
          <5> HIDE DEF h, next
          <5> QED BY <2>1, <3>2 DEF PickedUp
        <4> HIDE DEF h, next
        <4> QED BY <3>2, <4>1, <4>2
      <3>3. CASE k = 0
        <4>1. h[k] = g[k] /\ k \in 0 .. n
          BY <3>3
        <4>2. g[0] = <<>>
          <5> HIDE DEF h, next
          <5> QED BY <2>1 DEF PickedUp
        <4> HIDE DEF h, next
        <4> QED BY <3>3, <4>1, <4>2
      <3> QED BY <3>1, <3>2, <3>3
    <2>3. h = [k \in 0 .. n + 1 |-> h[k]]
      OBVIOUS
    <2>4. h = [k \in 0 .. n + 1 |-> IF k = 0 THEN <<>> ELSE IF k \in I THEN Append(h[k - 1], s[k]) ELSE h[k - 1]]
      <3> HIDE DEF h
      <3> QED BY <2>2, <2>3
    <2> HIDE DEF h
    <2>5. PickedUp(s, I, n + 1, h)
      BY <2>4 DEF PickedUp
    <2> QED BY <2>5
  <1> HIDE DEF T
  <1>3. m \in T
    BY <1>1, <1>2, Induct
  <1> QED BY <1>3 DEF T

\* What is picked of a sequence is what stood in the places; it is as long as the
\* sequence only if all of them were picked.
LEMMA PickedIs ==
  ASSUME NEW s, IsSeq(s), NEW I
  PROVE  /\ IsSeq(Picked(s, I))
         /\ ToSet(Picked(s, I)) = {s[i] : i \in I \cap DOMAIN s}
         /\ Len(Picked(s, I)) \in 0 .. Len(s)
         /\ Len(Picked(s, I)) = Len(s) => DOMAIN s \subseteq I
  <1> DEFINE g == CHOOSE g : PickedUp(s, I, Len(s), g)
  <1>0. Len(s) \in Nat /\ DOMAIN s = 1 .. Len(s)
    BY IsSeqIn
  <1>1. PickedUp(s, I, Len(s), g)
    BY <1>0, PickedUpExists
  <1>2. Picked(s, I) = g[Len(s)]
    BY DEF Picked, PickedUp
  <1> HIDE DEF g
  <1> DEFINE Whole(n) == /\ IsSeq(g[n]) /\ ToSet(g[n]) = {s[i] : i \in I \cap 1 .. n}
                         /\ Len(g[n]) \in 0 .. n /\ (Len(g[n]) = n => 1 .. n \subseteq I)
             T == {n \in Nat : n <= Len(s) => Whole(n)}
  <1>3. 0 \in T
    <2>1. g[0] = <<>>
      BY <1>0, <1>1 DEF PickedUp
    <2>2. DOMAIN g[0] = {} /\ Len(g[0]) = 0 /\ g[0] \in Seq({})
      BY <2>1
    <2>3. ToSet(g[0]) = {}
      BY <2>2 DEF ToSet
    <2>4. IsSeq(g[0])
      BY <2>2, <2>3 DEF IsSeq
    <2>5. {s[i] : i \in I \cap 1 .. 0} = {} /\ 1 .. 0 \subseteq I
      OBVIOUS
    <2> QED BY <2>2, <2>3, <2>4, <2>5
  <1>4. ASSUME NEW n \in Nat, n \in T PROVE n + 1 \in T
    <2> SUFFICES ASSUME n + 1 <= Len(s) PROVE Whole(n + 1)
      OBVIOUS
    <2>1. Whole(n)
      BY <1>0, <1>4
    <2>2. g[n + 1] = IF n + 1 \in I THEN Append(g[n], s[n + 1]) ELSE g[n]
      <3>1. n + 1 \in 0 .. Len(s) /\ n + 1 # 0 /\ (n + 1) - 1 = n
        BY <1>0
      <3> QED BY <1>1, <3>1 DEF PickedUp
    <2>3. 1 .. n + 1 = 1 .. n \cup {n + 1}
      OBVIOUS
    <2>4. CASE n + 1 \in I
      <3>1. g[n + 1] = Append(g[n], s[n + 1])
        BY <2>2, <2>4
      <3>2. IsSeq(g[n + 1]) /\ Len(g[n + 1]) = Len(g[n]) + 1 /\ ToSet(g[n + 1]) = ToSet(g[n]) \cup {s[n + 1]}
        <4>1. Len(g[n]) \in Nat
          BY <2>1
        <4>2. ToSet(Append(g[n], s[n + 1])) = ToSet(g[n]) \cup {s[n + 1]}
          BY <2>1, AppendIs DEF ToSet
        <4> QED BY <2>1, <3>1, <4>2, AppendIs
      <3>3. ToSet(g[n + 1]) = {s[i] : i \in I \cap 1 .. n + 1}
        BY <2>1, <2>3, <2>4, <3>2
      <3>4. Len(g[n + 1]) \in 0 .. n + 1
        BY <2>1, <3>2
      <3>5. Len(g[n + 1]) = n + 1 => Len(g[n]) = n
        BY <2>1, <3>2
      <3> QED BY <2>1, <2>3, <2>4, <3>2, <3>3, <3>4, <3>5
    <2>5. CASE n + 1 \notin I
      <3>1. g[n + 1] = g[n]
        BY <2>2, <2>5
      <3>2. {s[i] : i \in I \cap 1 .. n + 1} = {s[i] : i \in I \cap 1 .. n}
        BY <2>3, <2>5
      <3>3. Len(g[n + 1]) \in 0 .. n + 1 /\ Len(g[n + 1]) # n + 1
        BY <2>1, <3>1
      <3> QED BY <2>1, <3>1, <3>2, <3>3
    <2> QED BY <2>4, <2>5
  <1>5. Len(s) \in T
    <2> HIDE DEF T
    <2> QED BY <1>0, <1>3, <1>4, Induct
  <1>6. Whole(Len(s))
    BY <1>0, <1>5
  <1> QED BY <1>0, <1>2, <1>6

(***************************************************************************)
(* Texts and groups.                                                       *)
(***************************************************************************)

LEMMA NearBothWays ==
  ASSUME NEW a, NEW b, Alike(a, b)
  PROVE  Alike(b, a) /\ a \in Texts /\ b \in Texts
  <1>1. <<a, b>> \in Near /\ <<a, b>>[1] = a /\ <<a, b>>[2] = b
    BY DEF Alike
  <1>2. <<b, a>> \in Near /\ <<b, a>>[1] = b
    BY <1>1, BrainAssumption
  <1> QED BY <1>1, <1>2 DEF Alike, Texts

LEMMA LinkedIsWide ==
  /\ \A a : Linked(a, a)
  /\ \A a, b, c : Linked(a, b) /\ Linked(b, c) => Linked(a, c)
  /\ \A a, b : Alike(a, b) => Linked(a, b)
  <1>1. ASSUME NEW a, NEW b, Alike(a, b) PROVE Linked(a, b)
    BY <1>1, NearBothWays DEF Linked, Closed
  <1> QED BY <1>1 DEF Linked

LEMMA LinkedBothWays ==
  ASSUME NEW a \in Texts, NEW b, Linked(a, b)
  PROVE  Linked(b, a)
  <1> SUFFICES ASSUME NEW S \in SUBSET Texts, Closed(S), b \in S, a \notin S PROVE FALSE
    BY DEF Linked
  <1> DEFINE R == Texts \ S
  <1>1. ASSUME NEW s \in R, NEW u \in Texts, Alike(s, u) PROVE u \in R
    <2>1. CASE u \in S
      <3>1. Alike(u, s)
        BY <1>1, NearBothWays
      <3> QED BY <1>1, <2>1, <3>1 DEF Closed
    <2> QED BY <2>1
  <1>2. Closed(R) /\ R \in SUBSET Texts /\ a \in R
    BY <1>1 DEF Closed
  <1>3. b \in R
    BY <1>2 DEF Linked
  <1> QED BY <1>3

\* A proposal as the code may have it: it was put forward, and can be compared.
Voiced(V, p) == \E v \in V : v.text = p.text /\ v.by = ProviderOf(p.by)
Fine(V, p) == Voiced(V, p) /\ Alike(p.text, p.text) /\ p.sure \in Nat

\* A group, and a set of them.
IsGroup(V, g) == IsSeq(g) /\ g # <<>> /\ \A i \in DOMAIN g : Fine(V, g[i])
AreGroups(V, gs) == IsSeq(gs) /\ \A n \in DOMAIN gs : IsGroup(V, gs[n])
Connected(gs) == \A n \in DOMAIN gs : \A i, j \in DOMAIN gs[n] : Linked(gs[n][i].text, gs[n][j].text)

\* What is near is in one group, and only what is near, if near texts are near all round.
NearTransitive == \A a, b, c : Alike(a, b) /\ Alike(b, c) => Alike(a, c)
Apart(gs) ==
    /\ \A n \in DOMAIN gs : \A i, j \in DOMAIN gs[n] : Alike(gs[n][i].text, gs[n][j].text)
    /\ \A m, n \in DOMAIN gs : \A i \in DOMAIN gs[m], j \in DOMAIN gs[n] :
          m # n => ~Alike(gs[m][i].text, gs[n][j].text)

Carries(gs, p) == \E n \in DOMAIN gs : \E i \in DOMAIN gs[n] : gs[n][i] = p

LEMMA GroupsOne ==
  ASSUME NEW V, NEW gs, AreGroups(V, gs), NEW p, Fine(V, p), Fits(gs, p) = {}
  PROVE  LET hs == Group(gs, p) IN
         /\ AreGroups(V, hs) /\ Carries(hs, p)
         /\ \A q : Carries(gs, q) => Carries(hs, q)
         /\ Connected(gs) => Connected(hs)
         /\ NearTransitive /\ Apart(gs) => Apart(hs)
  <1> DEFINE one == <<p>>
             hs == Append(gs, one)
             l == Len(gs) + 1
  <1>0. IsSeq(gs) /\ Group(gs, p) = hs
    BY DEF AreGroups, Group
  <1>1. /\ IsSeq(hs) /\ DOMAIN hs = DOMAIN gs \cup {l} /\ hs[l] = one
        /\ \A n \in DOMAIN gs : hs[n] = gs[n]
        /\ l \notin DOMAIN gs
    <2> HIDE DEF one
    <2> QED BY <1>0, AppendIs, IsSeqIn
  <1>2. DOMAIN one = {1} /\ one[1] = p /\ one # <<>> /\ IsSeq(one)
    <2>1. one \in Seq({p}) /\ Len(one) = 1 /\ one[1] = p
      OBVIOUS
    <2>2. DOMAIN one = 1 .. 1 /\ one # <<>>
      OBVIOUS
    <2> HIDE DEF one
    <2> QED BY <2>1, <2>2, SeqIs
  <1> HIDE DEF one, hs, l
  <1>3. IsGroup(V, one)
    BY <1>2 DEF IsGroup
  <1>4. AreGroups(V, hs)
    BY <1>1, <1>3 DEF AreGroups
  <1>5. Carries(hs, p) /\ \A q : Carries(gs, q) => Carries(hs, q)
    BY <1>1, <1>2 DEF Carries
  <1>6. Connected(gs) => Connected(hs)
    BY <1>1, <1>2, LinkedIsWide DEF Connected
  <1>7. ASSUME Apart(gs) PROVE Apart(hs)
    <2>1. Alike(p.text, p.text)
      BY DEF Fine
    <2>2. \A n \in DOMAIN gs : \A i \in DOMAIN gs[n] :
             ~Alike(gs[n][i].text, p.text) /\ ~Alike(p.text, gs[n][i].text)
      BY NearBothWays DEF Fits
    <2>3. \A n \in DOMAIN hs : \A i, j \in DOMAIN hs[n] : Alike(hs[n][i].text, hs[n][j].text)
      BY <1>1, <1>2, <1>7, <2>1 DEF Apart
    <2>4. ASSUME NEW m \in DOMAIN hs, NEW n \in DOMAIN hs, NEW i \in DOMAIN hs[m], NEW j \in DOMAIN hs[n], m # n
          PROVE  ~Alike(hs[m][i].text, hs[n][j].text)
      <3>1. CASE m = l
        BY <1>1, <1>2, <2>2, <2>4, <3>1
      <3>2. CASE n = l
        BY <1>1, <1>2, <2>2, <2>4, <3>2
      <3>3. CASE m # l /\ n # l
        BY <1>1, <1>7, <2>4, <3>3 DEF Apart
      <3> QED BY <3>1, <3>2, <3>3
    <2> QED BY <2>3, <2>4 DEF Apart
  <1> QED BY <1>0, <1>4, <1>5, <1>6, <1>7

FitsIn(g, p) == \E i \in DOMAIN g : Alike(g[i].text, p.text)

LEMMA GroupsJoin ==
  ASSUME NEW V, NEW gs, AreGroups(V, gs), NEW p, Fine(V, p), Fits(gs, p) # {}
  PROVE  LET hs == Group(gs, p) IN
         /\ AreGroups(V, hs) /\ Carries(hs, p)
         /\ \A q : Carries(gs, q) => Carries(hs, q)
         /\ Connected(gs) => Connected(hs)
         /\ NearTransitive /\ Apart(gs) => Apart(hs)
  <1> DEFINE f == Min(Fits(gs, p))
             big == Append(gs[f], p)
             hs == [gs EXCEPT ![f] = big]
             l == Len(gs[f]) + 1
  <1>0. Group(gs, p) = hs /\ IsSeq(gs)
    BY DEF Group, AreGroups
  <1>1. f \in Fits(gs, p)
    <2>1. \A x \in Fits(gs, p) : x \in Nat
      BY <1>0, IsSeqIn DEF Fits
    <2> QED BY <2>1, LeastExists
  <1>2. f \in DOMAIN gs /\ FitsIn(gs[f], p)
    BY <1>1 DEF Fits, FitsIn
  <1> HIDE DEF f
  <1>3. IsSeq(gs[f])
    BY <1>2 DEF AreGroups, IsGroup
  <1>4. /\ IsSeq(big) /\ DOMAIN big = DOMAIN gs[f] \cup {l} /\ big[l] = p
        /\ \A i \in DOMAIN gs[f] : big[i] = gs[f][i]
        /\ big # <<>>
    <2>1. Len(gs[f]) \in Nat
      BY <1>3, IsSeqIn
    <2>2. Len(big) = Len(gs[f]) + 1 /\ IsSeq(big)
      BY <1>3, AppendIs
    <2>3. big # <<>>
      <3> HIDE DEF big
      <3> QED BY <2>1, <2>2, IsSeqIn
    <2> QED BY <1>3, <2>3, AppendIs
  <1> HIDE DEF big, l
  <1>5. /\ DOMAIN hs = DOMAIN gs /\ hs[f] = big /\ \A n \in DOMAIN gs : n # f => hs[n] = gs[n]
        /\ IsSeq(hs)
    <2>1. DOMAIN hs = DOMAIN gs /\ hs[f] = big /\ \A n \in DOMAIN gs : n # f => hs[n] = gs[n]
      BY <1>2
    <2>2. DOMAIN gs = 1 .. Len(gs) /\ Len(gs) \in Nat
      BY <1>0, IsSeqIn
    <2>3. hs = [n \in 1 .. Len(gs) |-> hs[n]]
      BY <2>1, <2>2
    <2> HIDE DEF hs
    <2>4. IsSeq(hs)
      BY <2>1, <2>2, <2>3, MakesSeq
    <2> QED BY <2>1, <2>4
  <1> HIDE DEF hs
  <1>6. IsGroup(V, big)
    BY <1>2, <1>4 DEF AreGroups, IsGroup
  <1>7. AreGroups(V, hs)
    BY <1>5, <1>6 DEF AreGroups
  <1>8. Carries(hs, p)
    BY <1>2, <1>4, <1>5 DEF Carries
  <1>9. ASSUME NEW q, Carries(gs, q) PROVE Carries(hs, q)
    <2>1. PICK n \in DOMAIN gs : \E i \in DOMAIN gs[n] : gs[n][i] = q
      BY <1>9 DEF Carries
    <2>2. \E i \in DOMAIN hs[n] : hs[n][i] = q
      BY <1>4, <1>5, <2>1
    <2> QED BY <1>5, <2>1, <2>2 DEF Carries
  <1>10. PICK z \in DOMAIN gs[f] : Alike(gs[f][z].text, p.text)
    BY <1>2 DEF FitsIn
  <1>11. ASSUME Connected(gs) PROVE Connected(hs)
    <2>1. \A i, j \in DOMAIN big : Linked(big[i].text, big[j].text)
      <3>1. \A i, j \in DOMAIN gs[f] : Linked(gs[f][i].text, gs[f][j].text)
        BY <1>2, <1>11 DEF Connected
      <3>2. Linked(gs[f][z].text, p.text) /\ Linked(p.text, gs[f][z].text)
        BY <1>10, NearBothWays, LinkedIsWide
      <3>3. \A i \in DOMAIN gs[f] : Linked(gs[f][i].text, p.text) /\ Linked(p.text, gs[f][i].text)
        BY <1>10, <3>1, <3>2, LinkedIsWide
      <3>4. Linked(p.text, p.text)
        BY LinkedIsWide
      <3> QED BY <1>4, <3>1, <3>3, <3>4
    <2> QED BY <1>5, <1>11, <2>1 DEF Connected
  <1>12. ASSUME NearTransitive, Apart(gs) PROVE Apart(hs)
    <2>1. \A i \in DOMAIN gs[f] : Alike(gs[f][i].text, p.text) /\ Alike(p.text, gs[f][i].text)
      <3>1. \A i \in DOMAIN gs[f] : Alike(gs[f][i].text, gs[f][z].text)
        BY <1>2, <1>10, <1>12 DEF Apart
      <3>2. \A i \in DOMAIN gs[f] : Alike(gs[f][i].text, p.text)
        BY <1>10, <1>12, <3>1 DEF NearTransitive
      <3> QED BY <3>2, NearBothWays
    <2>2. \A i, j \in DOMAIN big : Alike(big[i].text, big[j].text)
      <3>1. Alike(p.text, p.text)
        BY DEF Fine
      <3> QED BY <1>2, <1>4, <1>12, <2>1, <3>1 DEF Apart
    <2>3. ASSUME NEW n \in DOMAIN gs, n # f, NEW i \in DOMAIN gs[n]
          PROVE  ~Alike(gs[n][i].text, p.text) /\ ~Alike(p.text, gs[n][i].text)
      <3>1. ~Alike(gs[n][i].text, gs[f][z].text)
        BY <1>2, <1>10, <1>12, <2>3 DEF Apart
      <3>2. ~Alike(gs[n][i].text, p.text)
        BY <1>10, <1>12, <2>1, <3>1 DEF NearTransitive
      <3> QED BY <3>2, NearBothWays
    <2>4. ASSUME NEW m \in DOMAIN hs, NEW n \in DOMAIN hs, NEW i \in DOMAIN hs[m], NEW j \in DOMAIN hs[n], m # n
          PROVE  ~Alike(hs[m][i].text, hs[n][j].text)
      <3>1. CASE m = f
        BY <1>2, <1>4, <1>5, <1>12, <2>3, <2>4, <3>1 DEF Apart
      <3>2. CASE n = f
        BY <1>2, <1>4, <1>5, <1>12, <2>3, <2>4, <3>2 DEF Apart
      <3>3. CASE m # f /\ n # f
        BY <1>5, <1>12, <2>4, <3>3 DEF Apart
      <3> QED BY <3>1, <3>2, <3>3
    <2>5. \A n \in DOMAIN hs : \A i, j \in DOMAIN hs[n] : Alike(hs[n][i].text, hs[n][j].text)
      BY <1>5, <1>12, <2>2 DEF Apart
    <2> QED BY <2>4, <2>5 DEF Apart
  <1> QED BY <1>0, <1>7, <1>8, <1>9, <1>11, <1>12

\* The groups after each proposal.
GroupedUp(s, m, g) == g = [n \in 0 .. m |-> IF n = 0 THEN <<>> ELSE Group(g[n - 1], s[n])]

LEMMA GroupedUpExists ==
  ASSUME NEW s, NEW m \in Nat
  PROVE  \E g : GroupedUp(s, m, g)
  <1> DEFINE T == {n \in Nat : \E g : GroupedUp(s, n, g)}
  <1>1. 0 \in T
    <2> DEFINE g == [k \in 0 .. 0 |-> <<>>]
    <2>1. g = [n \in 0 .. 0 |-> IF n = 0 THEN <<>> ELSE Group(g[n - 1], s[n])]
      OBVIOUS
    <2> QED BY <2>1 DEF GroupedUp
  <1>2. ASSUME NEW n \in Nat, n \in T PROVE n + 1 \in T
    <2>1. PICK g : GroupedUp(s, n, g)
      BY <1>2
    <2> DEFINE next == Group(g[n], s[n + 1])
               h == [k \in 0 .. n + 1 |-> IF k = n + 1 THEN next ELSE g[k]]
    <2>2. ASSUME NEW k \in 0 .. n + 1
          PROVE  h[k] = IF k = 0 THEN <<>> ELSE Group(h[k - 1], s[k])
      <3>1. CASE k = n + 1
        <4>1. h[k] = next /\ h[n] = g[n] /\ k # 0 /\ k - 1 = n
          BY <3>1
        <4> QED BY <3>1, <4>1
      <3>2. CASE k \in 0 .. n /\ k # 0
        <4>1. h[k] = g[k] /\ h[k - 1] = g[k - 1]
          BY <3>2
        <4>2. g[k] = Group(g[k - 1], s[k])
          <5> HIDE DEF h, next
          <5> QED BY <2>1, <3>2 DEF GroupedUp
        <4> HIDE DEF h, next
        <4> QED BY <3>2, <4>1, <4>2
      <3>3. CASE k = 0
        <4>1. h[k] = g[k] /\ k \in 0 .. n
          BY <3>3
        <4>2. g[0] = <<>>
          <5> HIDE DEF h, next
          <5> QED BY <2>1 DEF GroupedUp
        <4> HIDE DEF h, next
        <4> QED BY <3>3, <4>1, <4>2
      <3> QED BY <3>1, <3>2, <3>3
    <2>3. h = [k \in 0 .. n + 1 |-> h[k]]
      OBVIOUS
    <2>4. h = [k \in 0 .. n + 1 |-> IF k = 0 THEN <<>> ELSE Group(h[k - 1], s[k])]
      <3> HIDE DEF h
      <3> QED BY <2>2, <2>3
    <2> HIDE DEF h
    <2>5. GroupedUp(s, n + 1, h)
      BY <2>4 DEF GroupedUp
    <2> QED BY <2>5
  <1> HIDE DEF T
  <1>3. m \in T
    BY <1>1, <1>2, Induct
  <1> QED BY <1>3 DEF T

\* Every proposal is in a group, and a group has nothing else.
LEMMA GroupedIs ==
  ASSUME NEW V, NEW s, IsSeq(s), \A i \in DOMAIN s : Fine(V, s[i])
  PROVE  /\ AreGroups(V, Grouped(s)) /\ Connected(Grouped(s))
         /\ \A i \in DOMAIN s : Carries(Grouped(s), s[i])
         /\ NearTransitive => Apart(Grouped(s))
  <1> DEFINE g == CHOOSE g : GroupedUp(s, Len(s), g)
  <1>0. Len(s) \in Nat /\ DOMAIN s = 1 .. Len(s)
    BY IsSeqIn
  <1>1. GroupedUp(s, Len(s), g)
    BY <1>0, GroupedUpExists
  <1>2. Grouped(s) = g[Len(s)]
    BY DEF Grouped, GroupedUp
  <1> HIDE DEF g
  <1> DEFINE Whole(n) == /\ AreGroups(V, g[n]) /\ Connected(g[n])
                         /\ \A i \in 1 .. n : Carries(g[n], s[i])
                         /\ NearTransitive => Apart(g[n])
             T == {n \in Nat : n <= Len(s) => Whole(n)}
  <1>3. 0 \in T
    <2>1. g[0] = <<>>
      BY <1>0, <1>1 DEF GroupedUp
    <2>2. DOMAIN g[0] = {} /\ Len(g[0]) = 0 /\ g[0] \in Seq({})
      BY <2>1
    <2>3. IsSeq(g[0])
      BY <2>2, SeqIs
    <2>4. AreGroups(V, g[0]) /\ Connected(g[0]) /\ Apart(g[0])
      BY <2>2, <2>3 DEF AreGroups, Connected, Apart
    <2> QED BY <2>4
  <1>4. ASSUME NEW n \in Nat, n \in T PROVE n + 1 \in T
    <2> SUFFICES ASSUME n + 1 <= Len(s) PROVE Whole(n + 1)
      OBVIOUS
    <2>1. Whole(n) /\ n + 1 \in DOMAIN s /\ Fine(V, s[n + 1])
      BY <1>0, <1>4
    <2>2. g[n + 1] = Group(g[n], s[n + 1])
      <3>1. n + 1 \in 0 .. Len(s) /\ n + 1 # 0 /\ (n + 1) - 1 = n
        BY <1>0
      <3> QED BY <1>1, <3>1 DEF GroupedUp
    <2>3. /\ AreGroups(V, g[n + 1]) /\ Carries(g[n + 1], s[n + 1])
          /\ \A q : Carries(g[n], q) => Carries(g[n + 1], q)
          /\ Connected(g[n]) => Connected(g[n + 1])
          /\ NearTransitive /\ Apart(g[n]) => Apart(g[n + 1])
      <3>1. CASE Fits(g[n], s[n + 1]) = {}
        BY <2>1, <2>2, <3>1, GroupsOne
      <3>2. CASE Fits(g[n], s[n + 1]) # {}
        BY <2>1, <2>2, <3>2, GroupsJoin
      <3> QED BY <3>1, <3>2
    <2>4. \A i \in 1 .. n + 1 : i \in 1 .. n \/ i = n + 1
      OBVIOUS
    <2> QED BY <2>1, <2>3, <2>4
  <1>5. Len(s) \in T
    <2> HIDE DEF T
    <2> QED BY <1>0, <1>3, <1>4, Induct
  <1>6. Whole(Len(s))
    BY <1>0, <1>5
  <1> QED BY <1>0, <1>2, <1>6

\* The one that stands for a group is of the group.
LEMMA RepIs ==
  ASSUME NEW V, NEW g, IsGroup(V, g)
  PROVE  \E i \in DOMAIN g : Rep(g) = g[i]
  <1> DEFINE best == {i \in DOMAIN g : \A j \in DOMAIN g : g[j].sure <= g[i].sure}
  <1>0. Len(g) \in Nat /\ DOMAIN g = 1 .. Len(g) /\ Len(g) # 0 /\ \A i \in DOMAIN g : g[i].sure \in Nat
    BY IsSeqIn DEF IsGroup, Fine
  <1> DEFINE T == {n \in Nat : n + 1 <= Len(g) => \E i \in 1 .. n + 1 : \A j \in 1 .. n + 1 : g[j].sure <= g[i].sure}
  <1>1. 0 \in T
    <2>1. 1 \in DOMAIN g /\ 1 .. 0 + 1 = {1}
      BY <1>0
    <2>2. g[1].sure <= g[1].sure
      BY <1>0, <2>1
    <2> QED BY <2>1, <2>2
  <1>2. ASSUME NEW n \in Nat, n \in T PROVE n + 1 \in T
    <2> SUFFICES ASSUME n + 2 <= Len(g)
                 PROVE  \E i \in 1 .. n + 2 : \A j \in 1 .. n + 2 : g[j].sure <= g[i].sure
      OBVIOUS
    <2>1. PICK i \in 1 .. n + 1 : \A j \in 1 .. n + 1 : g[j].sure <= g[i].sure
      BY <1>0, <1>2
    <2>2. /\ i \in DOMAIN g /\ n + 2 \in DOMAIN g /\ i \in 1 .. n + 2 /\ n + 2 \in 1 .. n + 2
          /\ \A j \in 1 .. n + 2 : j \in DOMAIN g /\ (j \in 1 .. n + 1 \/ j = n + 2)
      BY <1>0
    <2>3. g[i].sure \in Nat /\ g[n + 2].sure \in Nat /\ \A j \in 1 .. n + 2 : g[j].sure \in Nat
      BY <1>0, <2>2
    <2>4. CASE g[n + 2].sure <= g[i].sure
      BY <2>1, <2>2, <2>4
    <2>5. CASE g[i].sure <= g[n + 2].sure
      <3>1. \A j \in 1 .. n + 2 : g[j].sure <= g[n + 2].sure
        <4> SUFFICES ASSUME NEW j \in 1 .. n + 2 PROVE g[j].sure <= g[n + 2].sure
          OBVIOUS
        <4>1. j = n + 2 \/ g[j].sure <= g[i].sure
          BY <2>1, <2>2
        <4>2. g[j].sure \in Nat
          BY <2>3
        <4>3. CASE g[j].sure <= g[i].sure
          BY <2>3, <2>5, <4>2, <4>3
        <4>4. CASE j = n + 2
          BY <2>3, <4>4
        <4> QED BY <4>1, <4>3, <4>4
      <3> QED BY <2>2, <3>1
    <2>6. g[n + 2].sure <= g[i].sure \/ g[i].sure <= g[n + 2].sure
      BY <2>3
    <2> QED BY <2>4, <2>5, <2>6
  <1>3. Len(g) - 1 \in T /\ (Len(g) - 1) + 1 = Len(g)
    <2>1. Len(g) - 1 \in Nat /\ (Len(g) - 1) + 1 = Len(g)
      BY <1>0
    <2> HIDE DEF T
    <2> QED BY <1>1, <1>2, <2>1, Induct
  <1>4. best # {} /\ \A x \in best : x \in Nat
    BY <1>0, <1>3
  <1>5. Min(best) \in best
    BY <1>4, LeastExists
  <1> QED BY <1>5 DEF Rep

(***************************************************************************)
(* Notes are shared.                                                       *)
(***************************************************************************)

HeardOn(V, text) == {v.by : v \in {w \in V : Linked(w.text, text)}}
SharedIn(V, note) == note.web \/ Cardinality(HeardOn(V, note.text)) >= IF note.diff THEN 3 ELSE 2
Spoken(V, c) == c.text \in Texts /\ \E v \in V : v.by = c.provider /\ Linked(v.text, c.text)

\* The job in a group that is agreed on, and in one that it leaves.
Agreed == {"look", "bump", "ask", "add"}
Steps == {"resting", "decay", "fetch", "embed", "weigh", "spend"} \cup Agreed
Settles(c) ==
    /\ c.groups # <<>>
    /\ QuorumOk(Head(c.groups), c.matched)
    /\ \A d \in c.matched : Alike(d.text, Rep(Head(c.groups)).text)

JobOk(V, c) ==
    /\ DOMAIN c = DOMAIN Resting /\ c.pc \in Steps
    /\ IsSeq(c.said) /\ \A i \in DOMAIN c.said : Fine(V, c.said[i])
    /\ AreGroups(V, c.groups) /\ Connected(c.groups)
    /\ \A d \in c.view \cup c.matched : Spoken(V, d)
    /\ c.pc \in Agreed => Settles(c)
    /\ c.pc = "spend" => c.groups # <<>>

PoolOk(V, pool) == IsSeq(pool) /\ \A i \in DOMAIN pool : Fine(V, pool[i])
CandsOk(V, s) == IsSeq(s) /\ \A i \in DOMAIN s : Spoken(V, s[i])
NoteFields == {"id", "text", "status", "refs", "reviewers", "last", "diff", "web"}
NotesOk(V, s) == IsSeq(s) /\ \A i \in DOMAIN s : DOMAIN s[i] = NoteFields /\ SharedIn(V, s[i])

BrainOk ==
    /\ memory \in Memories /\ IsFiniteSet(voices)
    /\ \A r \in DOMAIN pools : PoolOk(voices, pools[r])
    /\ DOMAIN job = Curators /\ \A k \in Curators : JobOk(voices, job[k])
    /\ CandsOk(voices, cands)
    /\ NotesOk(voices, notes)

\* The values of a function of finitely many things are finitely many.
LEMMA ValuesFinite ==
  ASSUME NEW S, IsFiniteSet(S), NEW f, DOMAIN f = S, f = [x \in S |-> f[x]]
  PROVE  IsFiniteSet({f[x] : x \in S})
  <1>1. f \in Surjection(S, {f[x] : x \in S})
    BY DEF Surjection
  <1> QED BY <1>1, FS_Surjection

LEMMA HeardFinite ==
  ASSUME NEW V, IsFiniteSet(V), NEW text
  PROVE  IsFiniteSet(HeardOn(V, text))
  <1> DEFINE S == {w \in V : Linked(w.text, text)}
             f == [v \in S |-> v.by]
  <1>1. IsFiniteSet(S)
    BY FS_Subset
  <1>2. IsFiniteSet({f[x] : x \in S})
    <2>1. DOMAIN f = S /\ f = [x \in S |-> f[x]]
      OBVIOUS
    <2> HIDE DEF S, f
    <2> QED BY <1>1, <2>1, ValuesFinite
  <1>3. HeardOn(V, text) = {f[x] : x \in S}
    BY DEF HeardOn
  <1> HIDE DEF S, f
  <1> QED BY <1>2, <1>3

\* What was heard stays heard.
LEMMA HeardStays ==
  ASSUME NEW V, NEW W, V \subseteq W
  PROVE  /\ \A p : Fine(V, p) => Fine(W, p)
         /\ \A gs : AreGroups(V, gs) => AreGroups(W, gs)
         /\ \A c : JobOk(V, c) => JobOk(W, c)
         /\ \A s : (PoolOk(V, s) => PoolOk(W, s)) /\ (CandsOk(V, s) => CandsOk(W, s))
         /\ IsFiniteSet(W) => \A s : NotesOk(V, s) => NotesOk(W, s)
  <1>1. \A p : Fine(V, p) => Fine(W, p)
    BY DEF Fine, Voiced
  <1>2. \A gs : AreGroups(V, gs) => AreGroups(W, gs)
    BY <1>1 DEF AreGroups, IsGroup
  <1>3. \A d : Spoken(V, d) => Spoken(W, d)
    BY DEF Spoken
  <1>4. \A c : JobOk(V, c) => JobOk(W, c)
    BY <1>1, <1>2, <1>3 DEF JobOk
  <1>5. \A s : (PoolOk(V, s) => PoolOk(W, s)) /\ (CandsOk(V, s) => CandsOk(W, s))
    BY <1>1, <1>3 DEF PoolOk, CandsOk
  <1>6. IsFiniteSet(W) => \A s : NotesOk(V, s) => NotesOk(W, s)
    <2> SUFFICES ASSUME IsFiniteSet(W), NEW n, SharedIn(V, n) PROVE SharedIn(W, n)
      BY DEF NotesOk
    <2>1. HeardOn(V, n.text) \subseteq HeardOn(W, n.text)
      BY DEF HeardOn
    <2>2. /\ IsFiniteSet(HeardOn(W, n.text)) /\ IsFiniteSet(HeardOn(V, n.text))
          /\ Cardinality(HeardOn(V, n.text)) <= Cardinality(HeardOn(W, n.text))
          /\ Cardinality(HeardOn(V, n.text)) \in Nat /\ Cardinality(HeardOn(W, n.text)) \in Nat
      BY <2>1, HeardFinite, FS_Subset, FS_CardinalityType
    <2> QED BY <2>2 DEF SharedIn
  <1> QED BY <1>1, <1>2, <1>4, <1>5, <1>6

\* A job goes on to the next group.
LEMMA NextGroupOk ==
  ASSUME NEW V, NEW c, JobOk(V, c), c.groups # <<>>
  PROVE  JobOk(V, NextGroup(c)) /\ NextGroup(c).pc = "weigh" /\ NextGroup(c).groups = Tail(c.groups)
  <1>1. /\ DOMAIN NextGroup(c) = DOMAIN c
        /\ NextGroup(c).pc = "weigh" /\ NextGroup(c).groups = Tail(c.groups) /\ NextGroup(c).matched = {}
        /\ NextGroup(c).said = c.said /\ NextGroup(c).view = c.view
    <2>1. DOMAIN c = {"pc", "run", "nth", "now", "said", "groups", "made", "view", "matched", "dup"}
      BY DEF JobOk, Resting
    <2> QED BY <2>1 DEF NextGroup
  <1>2. AreGroups(V, Tail(c.groups)) /\ Connected(Tail(c.groups))
    BY TailIs DEF JobOk, AreGroups, Connected
  <1> QED BY <1>1, <1>2 DEF JobOk, Steps, Agreed

\* The quorum is of providers who were heard on the text that stands for the group.
LEMMA QuorumIsHeard ==
  ASSUME NEW V, IsFiniteSet(V), NEW c, JobOk(V, c), c.pc \in Agreed
  PROVE  LET group == Head(c.groups) IN
         \/ Len(Observed(group)) < Len(group)
         \/ Cardinality(HeardOn(V, Rep(group).text)) >= IF FromDiff(group) THEN 3 ELSE 2
  <1> DEFINE group == Head(c.groups)
             text == Rep(group).text
             need == IF FromDiff(group) THEN 3 ELSE 2
             said == ProvidersIn(group) \cup {d.provider : d \in c.matched}
  <1>1. /\ IsGroup(V, group) /\ QuorumOk(group, c.matched)
        /\ \A i, j \in DOMAIN group : Linked(group[i].text, group[j].text)
        /\ \A d \in c.matched : Spoken(V, d) /\ Alike(d.text, text)
    <2>1. AreGroups(V, c.groups) /\ Connected(c.groups) /\ Settles(c)
      BY DEF JobOk
    <2>0. c.groups # <<>>
      BY <2>1 DEF Settles
    <2>2. IsSeq(c.groups)
      BY <2>1 DEF AreGroups
    <2>3. Head(c.groups) = c.groups[1] /\ 1 \in DOMAIN c.groups
      BY <2>0, <2>2, TailIs
    <2> QED BY <2>1, <2>3 DEF AreGroups, Connected, Settles, JobOk
  <1>2. need \in {2, 3} /\ IsSeq(group)
    BY <1>1 DEF IsGroup
  <1>3. Len(group) \in Nat /\ Len(Observed(group)) \in Nat
    <2>1. Len(Observed(group)) \in 0 .. Len(group)
      BY <1>2, PickedIs DEF Observed
    <2> QED BY <1>2, <2>1, IsSeqIn
  <1>4. CASE Len(group) - Len(Observed(group)) >= need - 1
    BY <1>2, <1>3, <1>4
  <1>5. CASE Cardinality(said) >= need
    <2>1. PICK r \in DOMAIN group : Rep(group) = group[r]
      BY <1>1, RepIs
    <2>2. said \subseteq HeardOn(V, text)
      <3>1. ASSUME NEW i \in DOMAIN group PROVE ProviderOf(group[i].by) \in HeardOn(V, text)
        <4>1. PICK v \in V : v.text = group[i].text /\ v.by = ProviderOf(group[i].by)
          BY <1>1 DEF IsGroup, Fine, Voiced
        <4>2. Linked(v.text, text)
          BY <1>1, <2>1, <4>1
        <4> QED BY <4>1, <4>2 DEF HeardOn
      <3>2. ASSUME NEW d \in c.matched PROVE d.provider \in HeardOn(V, text)
        <4>1. PICK v \in V : v.by = d.provider /\ Linked(v.text, d.text)
          BY <1>1 DEF Spoken
        <4>2. Linked(v.text, text)
          BY <1>1, <4>1, LinkedIsWide
        <4> QED BY <4>1, <4>2 DEF HeardOn
      <3> QED BY <3>1, <3>2 DEF ProvidersIn
    <2>3. IsFiniteSet(HeardOn(V, text))
      BY HeardFinite
    <2>4. /\ Cardinality(said) <= Cardinality(HeardOn(V, text))
          /\ Cardinality(said) \in Nat /\ Cardinality(HeardOn(V, text)) \in Nat
      BY <2>2, <2>3, FS_Subset, FS_CardinalityType
    <2> QED BY <1>2, <1>5, <2>4
  <1> QED BY <1>1, <1>4, <1>5 DEF QuorumOk

LEMMA BrainStart == BrainInit => BrainOk
  <1> SUFFICES ASSUME BrainInit PROVE BrainOk
    OBVIOUS
  <1>1. <<>> \in Seq({}) /\ DOMAIN <<>> = {}
    OBVIOUS
  <1>2. IsSeq(<<>>) /\ \A i \in DOMAIN <<>> : FALSE
    BY <1>1, SeqIs
  <1>3. \A V : JobOk(V, Resting)
    BY <1>1, <1>2 DEF JobOk, Resting, Steps, Agreed, AreGroups, Connected
  <1>4. IsFiniteSet({})
    BY FS_EmptySet
  <1> QED BY <1>1, <1>2, <1>3, <1>4 DEF BrainInit, BrainOk, CandsOk, NotesOk

\* A review is collected.
LEMMA AppendIterOk ==
  ASSUME NEW V, NEW pool, NEW said, PoolOk(V, pool), PoolOk(V, said)
  PROVE  PoolOk(V, AppendIter(pool, said)) /\ PoolOk(V, Cumulative(pool, said))
  <1>1. \A s, I : PoolOk(V, s) => PoolOk(V, Picked(s, I))
    <2> SUFFICES ASSUME NEW s, NEW I, PoolOk(V, s) PROVE PoolOk(V, Picked(s, I))
      OBVIOUS
    <2>1. IsSeq(Picked(s, I)) /\ ToSet(Picked(s, I)) = {s[i] : i \in I \cap DOMAIN s}
      BY PickedIs DEF PoolOk
    <2>2. \A i \in DOMAIN Picked(s, I) : Picked(s, I)[i] \in ToSet(Picked(s, I))
      BY DEF ToSet
    <2> QED BY <2>1, <2>2 DEF PoolOk
  <1>2. \A s, t : PoolOk(V, s) /\ PoolOk(V, t) => PoolOk(V, s \o t)
    <2> SUFFICES ASSUME NEW s, NEW t, PoolOk(V, s), PoolOk(V, t) PROVE PoolOk(V, s \o t)
      OBVIOUS
    <2>1. IsSeq(s) /\ IsSeq(t)
      BY DEF PoolOk
    <2>2. /\ IsSeq(s \o t)
          /\ \A n \in DOMAIN (s \o t) : \/ n \in DOMAIN s /\ (s \o t)[n] = s[n]
                                        \/ n - Len(s) \in DOMAIN t /\ (s \o t)[n] = t[n - Len(s)]
      BY <2>1, ConcatIs
    <2> QED BY <2>2 DEF PoolOk
  <1> QED BY <1>1, <1>2 DEF AppendIter, Cumulative, ReadAll

\* Every reviewer's provider is told from its id: it is a known one, or the persona's name
\* has no hyphen (curator.ts:providerOf).
NamesResolve ==
    \A m \in Memories : \A said \in m.offers : \A p \in ToSet(said) :
        p.by.provider \in KnownProviders \/ Len(p.by.persona) = 1

\* An id begins with the name of its reviewer's provider, and with no other known one.
LEMMA IdIs ==
  ASSUME NEW r, {r.provider, r.persona} \subseteq Seq(STRING) \ {<<>>}
  PROVE  LET id == ReviewerId(r) IN
         /\ id \in Seq(STRING) /\ Len(id) = Len(r.provider) + Len(r.persona)
         /\ Len(r.provider) \in Nat \ {0} /\ Len(r.persona) \in Nat \ {0}
         /\ SubSeq(id, 1, Len(r.provider)) = r.provider
         /\ IsPrefix(r.provider, id)
         /\ \A known \in KnownProviders : IsPrefix(known, id) => Head(known) = Head(r.provider)
  <1> DEFINE a == r.provider
             b == r.persona
             id == a \o b
  <1>1. a \in Seq(STRING) /\ a # <<>> /\ b \in Seq(STRING) /\ b # <<>>
    OBVIOUS
  <1> HIDE DEF a, b
  <1>2. /\ id \in Seq(STRING) /\ Len(id) = Len(a) + Len(b)
        /\ Len(a) \in Nat \ {0} /\ Len(b) \in Nat \ {0}
        /\ \A i \in 1 .. Len(a) : id[i] = a[i]
    BY <1>1
  <1> HIDE DEF id
  <1>3. SubSeq(id, 1, Len(a)) = a
    <2>1. SubSeq(id, 1, Len(a)) \in Seq(STRING) /\ Len(SubSeq(id, 1, Len(a))) = Len(a)
      BY <1>2
    <2>2. \A i \in 1 .. Len(a) : SubSeq(id, 1, Len(a))[i] = a[i]
      BY <1>2
    <2> QED BY <1>1, <2>1, <2>2
  <1>4. SubSeq(a, 1, Len(a)) = a
    BY <1>1
  <1>5. IsPrefix(a, id)
    BY <1>2, <1>3, <1>4 DEF IsPrefix
  <1>6. ASSUME NEW known \in KnownProviders, IsPrefix(known, id) PROVE Head(known) = Head(a)
    <2>1. (\E x, y : known = <<x, y>>) \/ (\E x : known = <<x>>)
      BY DEF KnownProviders
    <2>2. /\ Len(known) \in Nat \ {0} /\ Head(known) = known[1]
          /\ SubSeq(known, 1, Len(known))[1] = known[1]
      <3>1. CASE \E x, y : known = <<x, y>>
        BY <3>1
      <3>2. CASE \E x : known = <<x>>
        BY <3>2
      <3> QED BY <2>1, <3>1, <3>2
    <2>3. Len(known) <= Len(id) /\ SubSeq(known, 1, Len(known)) = SubSeq(id, 1, Len(known))
      BY <1>6 DEF IsPrefix
    <2>4. SubSeq(id, 1, Len(known))[1] = id[1]
      <3>1. 1 \in 1 .. Len(known) /\ Len(known) <= Len(id)
        BY <2>3, <2>2
      <3> QED BY <1>2, <2>2, <3>1
    <2>5. known[1] = a[1]
      <3>1. 1 \in 1 .. Len(a)
        BY <1>2
      <3>2. id[1] = a[1]
        BY <1>2, <3>1
      <3> QED BY <2>3, <2>2, <2>4, <3>2
    <2> QED BY <1>1, <2>2, <2>5
  <1> QED BY <1>2, <1>3, <1>5, <1>6 DEF ReviewerId, a, b, id

LEMMA ProviderResolved ==
  ASSUME NamesResolve, NEW m \in Memories, NEW said \in m.offers, NEW p \in ToSet(said)
  PROVE  ProviderOf(p.by) = p.by.provider
  <1> DEFINE r == p.by
             id == ReviewerId(r)
             begins == {known \in KnownProviders : IsPrefix(known, id)}
  <1>1. /\ {r.provider, r.persona} \subseteq Seq(STRING) \ {<<>>}
        /\ \A known \in KnownProviders : Head(known) = Head(r.provider) => known = r.provider
    BY BrainAssumption
  <1>2. r.provider \in KnownProviders \/ Len(r.persona) = 1
    BY DEF NamesResolve
  <1> HIDE DEF r
  <1>3. /\ id \in Seq(STRING) /\ Len(id) = Len(r.provider) + Len(r.persona)
        /\ Len(r.provider) \in Nat \ {0} /\ Len(r.persona) \in Nat \ {0}
        /\ SubSeq(id, 1, Len(r.provider)) = r.provider /\ IsPrefix(r.provider, id)
    BY <1>1, IdIs
  <1>4. \A known \in begins : known = r.provider
    BY <1>1, IdIs
  <1>5. CASE r.provider \in KnownProviders
    <2>1. r.provider \in begins
      BY <1>3, <1>5
    <2>2. (CHOOSE known \in KnownProviders : IsPrefix(known, id)) = r.provider
      BY <1>4, <2>1
    <2> QED BY <2>1, <2>2 DEF ProviderOf, r
  <1>6. CASE r.provider \notin KnownProviders
    <2>1. begins = {}
      BY <1>4, <1>6
    <2>2. Len(id) > 1 /\ Len(id) - 1 = Len(r.provider)
      <3>1. Len(r.persona) = 1
        BY <1>2, <1>6
      <3> HIDE DEF id
      <3> QED BY <1>3, <3>1
    <2>3. Front(id) = r.provider
      BY <1>3, <2>2 DEF Front
    <2> QED BY <2>1, <2>2, <2>3 DEF ProviderOf, r
  <1> QED BY <1>5, <1>6

LEMMA CollectOk ==
  ASSUME NamesResolve, BrainOk, NEW k \in Curators, NEW said \in memory.offers, Collect(k, said)
  PROVE  BrainOk'
  <1> DEFINE new == {[text |-> p.text, by |-> p.by.provider, diff |-> p.diff] : p \in ToSet(said)}
             run == IF k = "gate" THEN session ELSE memory.sessions + 1 + reviews
             pool == IF run \in DOMAIN pools THEN pools[run] ELSE <<>>
             stored == AppendIter(pool, said)
             heard == Cumulative(stored, said)
             busy == [Resting EXCEPT !.pc = "decay", !.run = run, !.nth = reviews, !.now = today, !.said = heard]
  <1>1. /\ pools' = [r \in DOMAIN pools \cup {run} |-> IF r = run THEN stored ELSE pools[r]]
        /\ job' = [job EXCEPT ![k] = busy]
        /\ voices' = voices \cup new
        /\ memory' = memory /\ cands' = cands /\ notes' = notes
    BY DEF Collect
  <1>2. IsSeq(said) /\ \A p \in ToSet(said) : Alike(p.text, p.text) /\ p.sure \in Nat
    BY BrainAssumption DEF BrainOk, IsSeq, Alike
  <1>3. IsFiniteSet(voices') /\ voices \subseteq voices'
    <2> DEFINE f == [i \in DOMAIN said |-> [text |-> said[i].text, by |-> said[i].by.provider, diff |-> said[i].diff]]
    <2>1. IsFiniteSet(DOMAIN said)
      BY <1>2, IsSeqIn, FS_Interval
    <2>2. DOMAIN f = DOMAIN said /\ f = [i \in DOMAIN said |-> f[i]]
      OBVIOUS
    <2>3. new = {f[i] : i \in DOMAIN said}
      BY DEF ToSet
    <2>4. IsFiniteSet(new)
      <3> HIDE DEF f, new
      <3> QED BY <2>1, <2>2, <2>3, ValuesFinite
    <2> HIDE DEF new
    <2> QED BY <1>1, <2>4, FS_Union DEF BrainOk
  <1>4. PoolOk(voices', said)
    <2>1. ASSUME NEW i \in DOMAIN said PROVE Fine(voices', said[i])
      <3>1. said[i] \in ToSet(said)
        BY DEF ToSet
      <3>2. [text |-> said[i].text, by |-> said[i].by.provider, diff |-> said[i].diff] \in voices'
        BY <1>1, <3>1
      <3>3. ProviderOf(said[i].by) = said[i].by.provider
        BY <3>1, ProviderResolved DEF BrainOk
      <3> QED BY <1>2, <3>1, <3>2, <3>3 DEF Fine, Voiced
    <2> QED BY <1>2, <2>1 DEF PoolOk
  <1>5. PoolOk(voices', pool)
    <2>1. CASE run \in DOMAIN pools
      BY <1>3, <2>1, HeardStays DEF BrainOk
    <2>2. CASE run \notin DOMAIN pools
      <3>1. <<>> \in Seq({}) /\ DOMAIN <<>> = {}
        OBVIOUS
      <3> QED BY <2>2, <3>1, SeqIs DEF PoolOk
    <2> QED BY <2>1, <2>2
  <1>6. PoolOk(voices', stored) /\ PoolOk(voices', heard)
    <2> HIDE DEF pool
    <2> QED BY <1>4, <1>5, AppendIterOk
  <1>7. JobOk(voices', busy)
    <2>1. /\ DOMAIN busy = DOMAIN Resting /\ busy.pc = "decay" /\ busy.said = heard
          /\ busy.groups = <<>> /\ busy.view = {} /\ busy.matched = {}
      BY DEF Resting
    <2>2. AreGroups(voices', <<>>) /\ Connected(<<>>)
      <3>1. <<>> \in Seq({}) /\ DOMAIN <<>> = {}
        OBVIOUS
      <3> QED BY <3>1, SeqIs DEF AreGroups, Connected
    <2> HIDE DEF busy
    <2> QED BY <1>6, <2>1, <2>2 DEF JobOk, PoolOk, Steps, Agreed
  <1> HIDE DEF busy, stored, run, pool, heard, new
  <1>8. \A r \in DOMAIN pools' : PoolOk(voices', pools'[r])
    BY <1>1, <1>3, <1>6, HeardStays DEF BrainOk
  <1>9. DOMAIN job' = Curators /\ \A j \in Curators : JobOk(voices', job'[j])
    BY <1>1, <1>3, <1>7, HeardStays DEF BrainOk
  <1>10. CandsOk(voices', cands') /\ NotesOk(voices', notes')
    BY <1>1, <1>3, HeardStays DEF BrainOk
  <1> QED BY <1>1, <1>3, <1>8, <1>9, <1>10 DEF BrainOk

\* The curator's steps.  Where only the job changes, the job has to be in order.
LEMMA MoveOk ==
  ASSUME BrainOk, NEW k \in Curators, NEW next, Move(k, next), JobOk(voices, next),
         memory' = memory, voices' = voices, pools' = pools, CandsOk(voices, cands'), NotesOk(voices, notes')
  PROVE  BrainOk'
  <1>1. DOMAIN job' = Curators /\ \A j \in Curators : JobOk(voices, job'[j])
    BY DEF BrainOk, Move
  <1> QED BY <1>1 DEF BrainOk

LEMMA RestingOk == \A V : JobOk(V, Resting)
  <1>1. <<>> \in Seq({}) /\ DOMAIN <<>> = {}
    OBVIOUS
  <1> QED BY <1>1, SeqIs DEF JobOk, Resting, Steps, Agreed, AreGroups, Connected

\* The job with another program counter, and the fields that a step gives it.
LEMMA JobFields ==
  ASSUME NEW V, NEW c, JobOk(V, c)
  PROVE  DOMAIN c = {"pc", "run", "nth", "now", "said", "groups", "made", "view", "matched", "dup"}
  BY DEF JobOk, Resting

LEMMA PickedOk ==
  ASSUME NEW s, IsSeq(s), NEW I
  PROVE  /\ IsSeq(Picked(s, I))
         /\ \A n \in DOMAIN Picked(s, I) : \E i \in I \cap DOMAIN s : Picked(s, I)[n] = s[i]
  <1>1. IsSeq(Picked(s, I)) /\ ToSet(Picked(s, I)) = {s[i] : i \in I \cap DOMAIN s}
    BY PickedIs
  <1>2. \A n \in DOMAIN Picked(s, I) : Picked(s, I)[n] \in ToSet(Picked(s, I))
    BY DEF ToSet
  <1> QED BY <1>1, <1>2

LEMMA DecayOk ==
  ASSUME BrainOk, NEW k \in Curators, DecayNotes(k)
  PROVE  BrainOk'
  <1> DEFINE aged == [i \in DOMAIN notes |-> Aged(notes[i], job[k].now)]
             kept == {i \in DOMAIN notes : ~Archived(aged[i], job[k].now)}
             next == [job[k] EXCEPT !.pc = "fetch"]
  <1>1. /\ notes' = Picked(aged, kept) /\ Move(k, next) /\ job[k].pc = "decay"
        /\ memory' = memory /\ pools' = pools /\ cands' = cands /\ voices' = voices
    BY DEF DecayNotes
  <1>2. JobOk(voices, next)
    <2>1. JobOk(voices, job[k])
      BY DEF BrainOk
    <2>2. /\ DOMAIN next = DOMAIN job[k] /\ next.pc = "fetch"
          /\ next.said = job[k].said /\ next.groups = job[k].groups
          /\ next.view = job[k].view /\ next.matched = job[k].matched
      BY <2>1, JobFields
    <2> HIDE DEF next
    <2> QED BY <1>1, <2>1, <2>2 DEF JobOk, Steps, Agreed
  <1>3. \A i \in DOMAIN notes : DOMAIN aged[i] = NoteFields /\ SharedIn(voices, aged[i])
    <2> SUFFICES ASSUME NEW i \in DOMAIN notes PROVE DOMAIN aged[i] = NoteFields /\ SharedIn(voices, aged[i])
      OBVIOUS
    <2>1. DOMAIN notes[i] = NoteFields /\ SharedIn(voices, notes[i])
      BY DEF BrainOk, NotesOk
    <2>2. /\ DOMAIN aged[i] = DOMAIN notes[i] /\ aged[i].text = notes[i].text
          /\ aged[i].diff = notes[i].diff /\ aged[i].web = notes[i].web
      BY <2>1 DEF Aged, NoteFields
    <2> HIDE DEF aged
    <2> QED BY <2>1, <2>2 DEF SharedIn
  <1>4. IsSeq(aged) /\ DOMAIN aged = DOMAIN notes
    <2>1. DOMAIN notes = 1 .. Len(notes) /\ Len(notes) \in Nat
      BY IsSeqIn DEF BrainOk, NotesOk
    <2>2. DOMAIN aged = 1 .. Len(notes) /\ aged = [i \in 1 .. Len(notes) |-> aged[i]]
      BY <2>1
    <2> HIDE DEF aged
    <2> QED BY <2>1, <2>2, MakesSeq
  <1>5. NotesOk(voices, notes')
    <2> HIDE DEF aged, kept
    <2> QED BY <1>1, <1>3, <1>4, PickedOk DEF NotesOk
  <1> HIDE DEF next
  <1> QED BY <1>1, <1>2, <1>5, MoveOk DEF BrainOk

LEMMA FetchOk ==
  ASSUME BrainOk, NEW k \in Curators, NEW got, Fetch(k, got)
  PROVE  BrainOk'
  <1> DEFINE c == job[k]
             fetched == [i \in DOMAIN c.said |-> [text |-> c.said[i].text, by |-> c.said[i].by, diff |-> c.said[i].diff,
                          sure |-> c.said[i].sure, wide |-> c.said[i].wide, web |-> i \in got]]
             next == [c EXCEPT !.pc = "embed", !.said = fetched]
             fresh == Picked(cands, {i \in DOMAIN cands : c.now - cands[i].at <= TtlDays})
  <1>1. /\ Move(k, next) /\ c.pc = "fetch"
        /\ memory' = memory /\ pools' = pools /\ notes' = notes /\ voices' = voices
    <2>1. JobOk(voices, c)
      BY DEF BrainOk
    <2>2. [c EXCEPT !.pc = "embed",
                  !.said = [i \in DOMAIN @ |-> [text |-> @[i].text, by |-> @[i].by, diff |-> @[i].diff, sure |-> @[i].sure,
                                                wide |-> @[i].wide, web |-> i \in got]]] = next
      BY <2>1, JobFields
    <2> QED BY <2>2 DEF Fetch
  <1>2. JobOk(voices, next)
    <2>1. JobOk(voices, c)
      BY DEF BrainOk
    <2>2. /\ DOMAIN next = DOMAIN c /\ next.pc = "embed"
          /\ next.said = fetched /\ next.groups = c.groups
          /\ next.view = c.view /\ next.matched = c.matched
      BY <2>1, JobFields
    <2>3. \A i \in DOMAIN c.said : Fine(voices, c.said[i]) => Fine(voices, fetched[i])
      BY DEF Fine, Voiced
    <2>4. IsSeq(fetched) /\ DOMAIN fetched = DOMAIN c.said
      <3>1. DOMAIN c.said = 1 .. Len(c.said) /\ Len(c.said) \in Nat
        BY <2>1, IsSeqIn DEF JobOk
      <3>2. DOMAIN fetched = 1 .. Len(c.said) /\ fetched = [i \in 1 .. Len(c.said) |-> fetched[i]]
        BY <3>1
      <3> HIDE DEF fetched
      <3> QED BY <3>1, <3>2, MakesSeq
    <2> HIDE DEF next, fetched
    <2> QED BY <2>1, <2>2, <2>3, <2>4 DEF JobOk, Steps, Agreed
  <1>3. CandsOk(voices, cands')
    <2>1. IsSeq(fresh) /\ \A n \in DOMAIN fresh : Spoken(voices, fresh[n])
      BY PickedOk DEF BrainOk, CandsOk
    <2>2. PICK line \in OldestFirst(fresh) :
            cands' = SubSeq(line, IF Len(line) > MaxCands THEN Len(line) - MaxCands + 1 ELSE 1, Len(line))
      BY DEF Fetch
    <2> HIDE DEF fresh
    <2>3. PICK o \in Bijection(DOMAIN fresh, DOMAIN fresh) : line = [i \in DOMAIN fresh |-> fresh[o[i]]]
      BY <2>2 DEF OldestFirst
    <2>4. \A i \in DOMAIN fresh : o[i] \in DOMAIN fresh
      BY DEF Bijection, Injection
    <2>5. DOMAIN fresh = 1 .. Len(fresh) /\ Len(fresh) \in Nat
      BY <2>1, IsSeqIn
    <2>6. IsSeq(line) /\ Len(line) = Len(fresh)
      BY <2>3, <2>5, MakesSeq
    <2>7. \A i \in DOMAIN line : Spoken(voices, line[i])
      BY <2>1, <2>3, <2>4
    <2>8. \A a \in Nat \ {0} : CandsOk(voices, SubSeq(line, a, Len(line)))
      BY <2>5, <2>6, <2>7, SubSeqIs DEF CandsOk
    <2>9. (IF Len(line) > MaxCands THEN Len(line) - MaxCands + 1 ELSE 1) \in Nat \ {0}
      BY <2>5, <2>6, BrainAssumption
    <2> QED BY <2>2, <2>8, <2>9
  <1>4. NotesOk(voices, notes')
    BY <1>1 DEF BrainOk
  <1> HIDE DEF next
  <1> QED BY <1>1, <1>2, <1>3, <1>4, MoveOk

LEMMA EmbedOk ==
  ASSUME BrainOk, NEW k \in Curators, Embed(k)
  PROVE  BrainOk'
  <1> DEFINE c == job[k]
             next == [c EXCEPT !.pc = "weigh", !.groups = Grouped(c.said), !.view = ToSet(cands)]
  <1>0. JobOk(voices, c) /\ CandsOk(voices, cands) /\ NotesOk(voices, notes)
    BY DEF BrainOk
  <1>1. /\ Move(k, next) /\ c.pc = "embed"
        /\ memory' = memory /\ pools' = pools /\ cands' = cands /\ notes' = notes /\ voices' = voices
    BY DEF Embed
  <1>2. /\ DOMAIN next = DOMAIN c /\ next.pc = "weigh" /\ next.said = c.said
        /\ next.groups = Grouped(c.said) /\ next.view = ToSet(cands) /\ next.matched = c.matched
    BY <1>0, JobFields
  <1>3. AreGroups(voices, Grouped(c.said)) /\ Connected(Grouped(c.said))
    BY <1>0, GroupedIs DEF JobOk
  <1>4. \A d \in ToSet(cands) : Spoken(voices, d)
    BY <1>0 DEF CandsOk, ToSet
  <1> HIDE DEF next
  <1>5. JobOk(voices, next)
    BY <1>0, <1>2, <1>3, <1>4 DEF JobOk, Steps, Agreed
  <1> QED BY <1>0, <1>1, <1>5, MoveOk

\* A job that only goes on to another step of a group that is agreed on.
LEMMA AgreedOk ==
  ASSUME NEW V, NEW c, JobOk(V, c), Settles(c), NEW next, DOMAIN next = DOMAIN c, next.pc \in Agreed,
         next.said = c.said, next.groups = c.groups, next.view = c.view, next.matched = c.matched
  PROVE  JobOk(V, next)
  BY DEF JobOk, Steps, Agreed, Settles

\* What is persisted was spoken.
LEMMA PersistedOk ==
  ASSUME BrainOk, NEW c, JobOk(voices, c), c.groups # <<>>
  PROVE  CandsOk(voices, Persisted(c, Head(c.groups)))
  <1> DEFINE group == Head(c.groups)
             by == ProvidersIn(Observed(group))
             p == CHOOSE q \in by : TRUE
             cand == [text |-> Rep(group).text, provider |-> p, run |-> c.run, nth |-> c.nth, at |-> c.now]
  <1>0. CandsOk(voices, cands) /\ IsSeq(cands)
    BY DEF BrainOk, CandsOk
  <1>1. CASE Persisted(c, group) = cands
    BY <1>0, <1>1
  <1>2. CASE Persisted(c, group) = Append(cands, cand) /\ Cardinality(by) = 1
    <2>1. IsSeq(c.groups) /\ AreGroups(voices, c.groups) /\ Connected(c.groups)
      BY DEF JobOk, AreGroups
    <2>2. group = c.groups[1] /\ 1 \in DOMAIN c.groups
      BY <2>1, TailIs
    <2>3. IsGroup(voices, group) /\ \A i, j \in DOMAIN group : Linked(group[i].text, group[j].text)
      BY <2>1, <2>2 DEF AreGroups, Connected
    <2>4. by # {}
      <3>1. Cardinality(by) = 1
        BY <1>2
      <3> HIDE DEF by
      <3> QED BY <3>1, FS_EmptySet
    <2>5. p \in by
      BY <2>4
    <2>6. \E i \in DOMAIN group : p = ProviderOf(group[i].by)
      <3>1. PICK n \in DOMAIN Observed(group) : p = ProviderOf(Observed(group)[n].by)
        BY <2>5 DEF ProvidersIn
      <3>2. \E i \in DOMAIN group : Observed(group)[n] = group[i]
        <4> DEFINE I == {i \in DOMAIN group : ~group[i].web}
        <4>1. Observed(group) = Picked(group, I) /\ IsSeq(group)
          BY <2>3 DEF Observed, IsGroup
        <4> HIDE DEF I, group
        <4> QED BY <4>1, PickedOk
      <3> QED BY <3>1, <3>2
    <2>7. PICK i \in DOMAIN group : p = ProviderOf(group[i].by)
      BY <2>6
    <2>8. PICK r \in DOMAIN group : Rep(group) = group[r]
      BY <2>3, RepIs
    <2>9. Spoken(voices, cand)
      <3>1. PICK v \in voices : v.text = group[i].text /\ v.by = ProviderOf(group[i].by)
        BY <2>3 DEF IsGroup, Fine, Voiced
      <3>2. Linked(v.text, cand.text) /\ v.by = cand.provider
        BY <2>3, <2>7, <2>8, <3>1
      <3>3. cand.text \in Texts
        BY <2>3, <2>8, NearBothWays DEF IsGroup, Fine
      <3> QED BY <3>2, <3>3 DEF Spoken
    <2> HIDE DEF cand
    <2>10. CandsOk(voices, Append(cands, cand))
      BY <1>0, <2>9, AppendIs DEF CandsOk
    <2> QED BY <1>2, <2>10
  <1> QED BY <1>1, <1>2 DEF Persisted

LEMMA WeighOk ==
  ASSUME BrainOk, NEW k \in Curators, Weigh(k)
  PROVE  BrainOk'
  <1> DEFINE c == job[k]
             group == Head(c.groups)
             next == IF Dropped(c) = "no" THEN [c EXCEPT !.pc = "look", !.matched = Matching(c.view, group)]
                     ELSE NextGroup(c)
  <1>0. JobOk(voices, c) /\ CandsOk(voices, cands) /\ NotesOk(voices, notes)
    BY DEF BrainOk
  <1>1. /\ Move(k, next) /\ c.pc = "weigh" /\ c.groups # <<>>
        /\ cands' = cands \/ cands' = Persisted(c, group)
        /\ memory' = memory /\ pools' = pools /\ notes' = notes /\ voices' = voices
    BY DEF Weigh
  <1>2. JobOk(voices, next)
    <2>1. CASE Dropped(c) = "no"
      <3>1. QuorumOk(group, Matching(c.view, group))
        BY <2>1 DEF Dropped
      <3>2. /\ DOMAIN next = DOMAIN c /\ next.pc = "look" /\ next.said = c.said
            /\ next.groups = c.groups /\ next.view = c.view /\ next.matched = Matching(c.view, group)
        BY <1>0, <2>1, JobFields
      <3>3. \A d \in Matching(c.view, group) : d \in c.view /\ Alike(d.text, Rep(group).text)
        BY DEF Matching
      <3> HIDE DEF next
      <3> QED BY <1>0, <1>1, <3>1, <3>2, <3>3 DEF JobOk, Settles, Steps, Agreed
    <2>2. CASE Dropped(c) # "no"
      BY <1>0, <1>1, <2>2, NextGroupOk
    <2> QED BY <2>1, <2>2
  <1>3. CandsOk(voices, cands')
    BY <1>0, <1>1, PersistedOk
  <1> HIDE DEF next
  <1>4. NotesOk(voices, notes')
    BY <1>0, <1>1
  <1> QED BY <1>1, <1>2, <1>3, <1>4, MoveOk

LEMMA LookOk ==
  ASSUME BrainOk, NEW k \in Curators, Look(k)
  PROVE  BrainOk'
  <1> DEFINE c == job[k]
  <1>0. JobOk(voices, c) /\ CandsOk(voices, cands) /\ NotesOk(voices, notes)
    BY DEF BrainOk
  <1>1. /\ c.pc = "look" /\ Settles(c) /\ c.groups # <<>>
        /\ memory' = memory /\ pools' = pools /\ cands' = cands /\ notes' = notes /\ voices' = voices
    BY <1>0 DEF Look, JobOk, Agreed, Settles
  <1>2. \E next : Move(k, next) /\ JobOk(voices, next)
    <2>1. CASE Move(k, NextGroup(c))
      BY <1>0, <1>1, <2>1, NextGroupOk
    <2>2. ASSUME NEW dup, Move(k, [c EXCEPT !.pc = "bump", !.dup = dup])
          PROVE  \E next : Move(k, next) /\ JobOk(voices, next)
      <3> DEFINE next == [c EXCEPT !.pc = "bump", !.dup = dup]
      <3>1. /\ DOMAIN next = DOMAIN c /\ next.pc = "bump" /\ next.said = c.said
            /\ next.groups = c.groups /\ next.view = c.view /\ next.matched = c.matched
        BY <1>0, JobFields
      <3>2. Move(k, next)
        BY <2>2
      <3> HIDE DEF next
      <3>3. JobOk(voices, next)
        BY <1>0, <1>1, <3>1, AgreedOk DEF Agreed
      <3> QED BY <3>2, <3>3
    <2>3. ASSUME NEW pc \in {"ask", "add"}, Move(k, [c EXCEPT !.pc = pc])
          PROVE  \E next : Move(k, next) /\ JobOk(voices, next)
      <3> DEFINE next == [c EXCEPT !.pc = pc]
      <3>1. /\ DOMAIN next = DOMAIN c /\ next.pc = pc /\ next.said = c.said
            /\ next.groups = c.groups /\ next.view = c.view /\ next.matched = c.matched
        BY <1>0, JobFields
      <3>2. Move(k, next)
        BY <2>3
      <3> HIDE DEF next
      <3>3. JobOk(voices, next)
        BY <1>0, <1>1, <3>1, AgreedOk DEF Agreed
      <3> QED BY <3>2, <3>3
    <2>4. \/ Move(k, NextGroup(c)) \/ \E dup : Move(k, [c EXCEPT !.pc = "bump", !.dup = dup])
          \/ \E pc \in {"ask", "add"} : Move(k, [c EXCEPT !.pc = pc])
      BY DEF Look
    <2> QED BY <2>1, <2>2, <2>3, <2>4
  <1> QED BY <1>0, <1>1, <1>2, MoveOk

LEMMA BumpOk ==
  ASSUME BrainOk, NEW k \in Curators, Bump(k)
  PROVE  BrainOk'
  <1> DEFINE c == job[k]
             spent == [c EXCEPT !.made = @ + 1]
  <1>0. JobOk(voices, c) /\ CandsOk(voices, cands) /\ NotesOk(voices, notes)
    BY DEF BrainOk
  <1>1. /\ c.pc = "bump" /\ c.groups # <<>> /\ Move(k, NextGroup(spent)) /\ Settles(c)
        /\ memory' = memory /\ pools' = pools /\ cands' = cands /\ voices' = voices
    BY <1>0 DEF Bump, JobOk, Agreed, Settles
  <1>2. JobOk(voices, NextGroup(spent))
    <2>1. /\ DOMAIN spent = DOMAIN c /\ spent.pc = "bump" /\ spent.said = c.said
          /\ spent.groups = c.groups /\ spent.view = c.view /\ spent.matched = c.matched
      BY <1>0, <1>1, JobFields
    <2> HIDE DEF spent
    <2>2. JobOk(voices, spent)
      BY <1>0, <1>1, <2>1, AgreedOk DEF Agreed
    <2> QED BY <1>1, <2>1, <2>2, NextGroupOk
  <1>3. NotesOk(voices, notes')
    <2> DEFINE bumped(n) == IF n.id # c.dup THEN n
                            ELSE [n EXCEPT !.refs = @ + 1, !.last = c.now, !.reviewers = @ \cup ProvidersIn(Head(c.groups))]
    <2>1. notes' = [i \in DOMAIN notes |-> bumped(notes[i])]
      BY DEF Bump
    <2>2. \A n : DOMAIN n = NoteFields /\ SharedIn(voices, n)
                 => DOMAIN bumped(n) = NoteFields /\ SharedIn(voices, bumped(n))
      <3> SUFFICES ASSUME NEW n, DOMAIN n = NoteFields, SharedIn(voices, n)
                   PROVE  DOMAIN bumped(n) = NoteFields /\ SharedIn(voices, bumped(n))
        OBVIOUS
      <3>1. /\ DOMAIN bumped(n) = NoteFields /\ bumped(n).text = n.text
            /\ bumped(n).diff = n.diff /\ bumped(n).web = n.web
        BY DEF NoteFields
      <3> HIDE DEF bumped
      <3> QED BY <3>1 DEF SharedIn
    <2> HIDE DEF bumped
    <2>3. DOMAIN notes = 1 .. Len(notes) /\ Len(notes) \in Nat
      BY <1>0, IsSeqIn DEF NotesOk
    <2>4. DOMAIN notes' = 1 .. Len(notes) /\ notes' = [i \in 1 .. Len(notes) |-> notes'[i]]
      BY <2>1, <2>3
    <2>5. IsSeq(notes')
      BY <2>3, <2>4, MakesSeq
    <2> QED BY <1>0, <2>1, <2>2, <2>5 DEF NotesOk
  <1>4. CandsOk(voices, cands')
    BY <1>0, <1>1
  <1> HIDE DEF spent
  <1> QED BY <1>1, <1>2, <1>3, <1>4, MoveOk

LEMMA AskOk ==
  ASSUME BrainOk, NEW k \in Curators, NEW accept, Ask(k, accept)
  PROVE  BrainOk'
  <1> DEFINE c == job[k]
             next == IF accept THEN [c EXCEPT !.pc = "add"] ELSE NextGroup(c)
  <1>0. JobOk(voices, c) /\ CandsOk(voices, cands) /\ NotesOk(voices, notes)
    BY DEF BrainOk
  <1>1. /\ c.pc = "ask" /\ c.groups # <<>> /\ Move(k, next) /\ Settles(c)
        /\ memory' = memory /\ pools' = pools /\ cands' = cands /\ notes' = notes /\ voices' = voices
    BY <1>0 DEF Ask, JobOk, Agreed, Settles
  <1>2. JobOk(voices, next)
    <2>1. CASE accept
      <3>1. /\ DOMAIN next = DOMAIN c /\ next.pc = "add" /\ next.said = c.said
            /\ next.groups = c.groups /\ next.view = c.view /\ next.matched = c.matched
        BY <1>0, <2>1, JobFields
      <3> HIDE DEF next
      <3> QED BY <1>0, <1>1, <3>1, AgreedOk DEF Agreed
    <2>2. CASE ~accept
      BY <1>0, <1>1, <2>2, NextGroupOk
    <2> QED BY <2>1, <2>2
  <1> HIDE DEF next
  <1> QED BY <1>0, <1>1, <1>2, MoveOk

LEMMA AddOk ==
  ASSUME BrainOk, NEW k \in Curators, Add(k)
  PROVE  BrainOk'
  <1> DEFINE c == job[k]
             group == Head(c.groups)
             next == [c EXCEPT !.pc = "spend", !.made = @ + 1]
  <1>0. JobOk(voices, c) /\ CandsOk(voices, cands) /\ NotesOk(voices, notes) /\ IsFiniteSet(voices)
    BY DEF BrainOk
  <1>1. /\ c.pc = "add" /\ c.groups # <<>> /\ Move(k, next)
        /\ memory' = memory /\ pools' = pools /\ cands' = cands /\ voices' = voices
    BY <1>0 DEF Add, JobOk, Agreed, Settles
  <1>2. JobOk(voices, next)
    <2>1. /\ DOMAIN next = DOMAIN c /\ next.pc = "spend" /\ next.said = c.said
          /\ next.groups = c.groups /\ next.view = c.view /\ next.matched = c.matched
      BY <1>0, JobFields
    <2> HIDE DEF next
    <2> QED BY <1>0, <1>1, <2>1 DEF JobOk, Steps, Agreed
  <1>3. PICK note : /\ notes' = Append(notes, note) /\ DOMAIN note = NoteFields
                    /\ note.text = Rep(group).text /\ note.diff = FromDiff(group)
                    /\ note.web = (Len(Observed(group)) < Len(group))
    <2> DEFINE made == [id |-> Max({0} \cup {notes[i].id : i \in DOMAIN notes}) + 1, text |-> Rep(group).text,
                        status |-> "candidate", refs |-> 1, reviewers |-> ProvidersIn(group), last |-> c.now,
                        diff |-> FromDiff(group), web |-> Len(Observed(group)) < Len(group)]
    <2>1. notes' = Append(notes, made)
      BY DEF Add
    <2>2. /\ DOMAIN made = NoteFields /\ made.text = Rep(group).text /\ made.diff = FromDiff(group)
          /\ made.web = (Len(Observed(group)) < Len(group))
      BY DEF NoteFields
    <2> HIDE DEF made
    <2> QED BY <2>1, <2>2
  <1>4. SharedIn(voices, note)
    <2>1. \/ Len(Observed(group)) < Len(group)
          \/ Cardinality(HeardOn(voices, Rep(group).text)) >= IF FromDiff(group) THEN 3 ELSE 2
      BY <1>0, <1>1, QuorumIsHeard DEF Agreed
    <2> QED BY <1>3, <2>1 DEF SharedIn
  <1>5. NotesOk(voices, notes')
    BY <1>0, <1>3, <1>4, AppendIs DEF NotesOk
  <1>6. CandsOk(voices, cands')
    BY <1>0, <1>1
  <1> HIDE DEF next
  <1> QED BY <1>1, <1>2, <1>5, <1>6, MoveOk

LEMMA SpendOk ==
  ASSUME BrainOk, NEW k \in Curators, Spend(k)
  PROVE  BrainOk'
  <1> DEFINE c == job[k]
  <1>0. JobOk(voices, c) /\ CandsOk(voices, cands) /\ NotesOk(voices, notes)
    BY DEF BrainOk
  <1>1. /\ c.pc = "spend" /\ c.groups # <<>> /\ Move(k, NextGroup(c))
        /\ cands' = Picked(cands, {i \in DOMAIN cands : cands[i] \notin c.matched})
        /\ memory' = memory /\ pools' = pools /\ notes' = notes /\ voices' = voices
    BY <1>0 DEF Spend, JobOk
  <1>2. JobOk(voices, NextGroup(c))
    BY <1>0, <1>1, NextGroupOk
  <1>3. CandsOk(voices, cands')
    BY <1>0, <1>1, PickedOk DEF CandsOk
  <1>4. NotesOk(voices, notes')
    BY <1>0, <1>1
  <1> QED BY <1>1, <1>2, <1>3, <1>4, MoveOk

\* Whatever happens around a curator.
LEMMA AroundOk ==
  ASSUME BrainOk,
         \/ \E k \in Curators : EmbedFails(k) \/ Finish(k) \/ Cut(k)
         \/ ClearPool \/ StartSession
         \/ \E i \in DOMAIN notes : RevokeNote(i)
         \/ \E t \in 1 .. memory.days : Pass(t)
         \/ UNCHANGED brainVars
  PROVE  BrainOk'
  <1>0. CandsOk(voices, cands) /\ NotesOk(voices, notes)
    BY DEF BrainOk
  <1>1. ASSUME NEW k \in Curators, EmbedFails(k) \/ Finish(k) \/ Cut(k) PROVE BrainOk'
    <2>1. /\ Move(k, Resting) /\ memory' = memory /\ pools' = pools /\ cands' = cands
          /\ notes' = notes /\ voices' = voices
      BY <1>1 DEF EmbedFails, Finish, Cut
    <2> QED BY <1>0, <2>1, RestingOk, MoveOk
  <1>2. CASE ClearPool
    BY <1>2 DEF ClearPool, BrainOk
  <1>3. CASE StartSession
    <2>1. DOMAIN pools' = {}
      BY <1>3 DEF StartSession
    <2> QED BY <1>3, <2>1 DEF StartSession, BrainOk
  <1>4. ASSUME NEW i \in DOMAIN notes, RevokeNote(i) PROVE BrainOk'
    <2>1. notes' = SubSeq(notes, 1, i - 1) \o SubSeq(notes, i + 1, Len(notes))
      BY <1>4 DEF RevokeNote, RemoveAt
    <2>2. DOMAIN notes = 1 .. Len(notes) /\ Len(notes) \in Nat /\ IsSeq(notes)
      BY <1>0, IsSeqIn DEF NotesOk
    <2>3. i - 1 \in 0 .. Len(notes) /\ Len(notes) \in 0 .. Len(notes) /\ i + 1 \in Nat \ {0}
      BY <2>2
    <2> DEFINE before == SubSeq(notes, 1, i - 1)
               after == SubSeq(notes, i + 1, Len(notes))
    <2>4. NotesOk(voices, before) /\ NotesOk(voices, after)
      BY <1>0, <2>2, <2>3, SubSeqIs DEF NotesOk
    <2> HIDE DEF before, after
    <2>5. NotesOk(voices, before \o after)
      <3>1. IsSeq(before) /\ IsSeq(after)
        BY <2>4 DEF NotesOk
      <3>2. /\ IsSeq(before \o after)
            /\ \A n \in DOMAIN (before \o after) :
                 \/ n \in DOMAIN before /\ (before \o after)[n] = before[n]
                 \/ n - Len(before) \in DOMAIN after /\ (before \o after)[n] = after[n - Len(before)]
        BY <3>1, ConcatIs
      <3> QED BY <2>4, <3>2 DEF NotesOk
    <2>6. NotesOk(voices, notes')
      BY <2>1, <2>5 DEF before, after
    <2> QED BY <1>4, <2>6 DEF RevokeNote, BrainOk
  <1>5. ASSUME NEW t, Pass(t) PROVE BrainOk'
    BY <1>5 DEF Pass, BrainOk
  <1>6. CASE UNCHANGED brainVars
    BY <1>6 DEF brainVars, BrainOk
  <1> QED BY <1>1, <1>2, <1>3, <1>4, <1>5, <1>6

LEMMA BrainStep ==
  ASSUME NamesResolve, BrainOk, [BrainNext]_brainVars
  PROVE  BrainOk'
  <1> QED BY CollectOk, DecayOk, FetchOk, EmbedOk, WeighOk, LookOk, BumpOk, AskOk, AddOk, SpendOk, AroundOk DEF BrainNext

\* NotesAreShared: what a note says was put forward by as many different providers as
\* it needs, or has a page, whatever curators, sessions, clocks and kills there were, if
\* every reviewer's provider can be told from its id (curator.ts:quorumOk, providerOf).
THEOREM NotesShared ==
  ASSUME NamesResolve
  PROVE  BrainSpec => []NotesAreShared
  <1>1. BrainOk => NotesAreShared
    BY DEF BrainOk, NotesOk, SharedIn, HeardOn, NotesAreShared
  <1>2. BrainOk /\ [BrainNext]_brainVars => BrainOk'
    BY BrainStep
  <1> QED BY <1>1, <1>2, BrainStart, PTL DEF BrainSpec

(***************************************************************************)
(* Agreement is kept, where the plan review does not curate beside a gate  *)
(* and near is near all round.  A voice has its note, or a candidate of    *)
(* its provider, or a curator has it in hand; and of two that agree not    *)
(* both are left to wait.                                                  *)
(***************************************************************************)

Settled(N, v) == \E i \in DOMAIN N : Alike(N[i].text, v.text)
Waiting(C, v) == \E i \in DOMAIN C : C[i].provider = v.by /\ Alike(C[i].text, v.text)
Holds(s, v) == \E i \in DOMAIN s : s[i].text = v.text /\ ProviderOf(s[i].by) = v.by
HoldsIn(gs, v) == \E n \in DOMAIN gs : Holds(gs[n], v)
Carried(c, v) ==
    \/ c.pc \in {"decay", "fetch", "embed"} /\ Holds(c.said, v)
    \/ c.pc \in {"weigh"} \cup Agreed /\ HoldsIn(c.groups, v)
    \/ c.pc = "spend" /\ HoldsIn(Tail(c.groups), v)
InHand(J, v) == \E k \in Curators : Carried(J[k], v)

\* The groups are apart, the candidates they could match are in view, and the group that
\* is left has its note.
JobKeeps(c, C, N) ==
    /\ c.pc \in {"weigh", "spend"} \cup Agreed =>
         /\ Apart(c.groups)
         /\ \A i \in DOMAIN C, n \in DOMAIN c.groups : \A j \in DOMAIN c.groups[n] :
              Alike(C[i].text, c.groups[n][j].text) => C[i] \in c.view
    /\ c.pc \in {"bump", "spend"} => Settled(N, Rep(Head(c.groups)))
    /\ c.pc = "spend" => \A d \in c.matched : Alike(d.text, Rep(Head(c.groups)).text)

OneBusy(J) == \A j, k \in Curators : J[j].pc # "resting" /\ J[k].pc # "resting" => j = k
Agreement(V, J, C, N) ==
    /\ \A k \in Curators : JobKeeps(J[k], C, N)
    /\ \A v \in V : Settled(N, v) \/ Waiting(C, v) \/ InHand(J, v)
    /\ \A v, w \in V : v.by # w.by /\ Alike(v.text, w.text) => Settled(N, v) \/ InHand(J, v) \/ InHand(J, w)
Kept == OneBusy(job) /\ (muffled \/ Agreement(voices, job, cands, notes))

LEMMA RestingHolds == (\A v : ~Carried(Resting, v)) /\ \A C, N : JobKeeps(Resting, C, N)
  BY DEF Carried, Resting, JobKeeps, Agreed

LEMMA SettledAlike ==
  ASSUME NearTransitive, NEW N, NEW v, NEW w, Settled(N, w), Alike(v.text, w.text) \/ Alike(w.text, v.text)
  PROVE  Settled(N, v)
  <1>1. PICK i \in DOMAIN N : Alike(N[i].text, w.text)
    BY DEF Settled
  <1>2. Alike(N[i].text, v.text)
    BY <1>1, NearBothWays DEF NearTransitive
  <1> QED BY <1>2 DEF Settled

\* What the first group holds is alike to the one that stands for it.
LEMMA HeadHolds ==
  ASSUME NEW V, NEW gs, AreGroups(V, gs), Apart(gs), gs # <<>>
  PROVE  /\ IsGroup(V, Head(gs)) /\ Head(gs) = gs[1] /\ 1 \in DOMAIN gs
         /\ AreGroups(V, Tail(gs)) /\ Apart(Tail(gs))
         /\ \A v : HoldsIn(gs, v) => Holds(Head(gs), v) \/ HoldsIn(Tail(gs), v)
         /\ \A v : Holds(Head(gs), v) => Alike(Rep(Head(gs)).text, v.text) /\ Alike(v.text, Rep(Head(gs)).text)
         /\ \A v : HoldsIn(Tail(gs), v) => HoldsIn(gs, v)
         /\ \E j \in DOMAIN gs[1] : Rep(Head(gs)) = gs[1][j]
  <1>1. IsSeq(gs)
    BY DEF AreGroups
  <1>2. /\ Head(gs) = gs[1] /\ 1 \in DOMAIN gs /\ IsSeq(Tail(gs))
        /\ \A i \in DOMAIN Tail(gs) : i + 1 \in DOMAIN gs /\ Tail(gs)[i] = gs[i + 1]
        /\ \A i \in DOMAIN gs : i # 1 => i - 1 \in DOMAIN Tail(gs) /\ Tail(gs)[i - 1] = gs[i]
    BY <1>1, TailIs
  <1>3. IsGroup(V, gs[1]) /\ AreGroups(V, Tail(gs))
    BY <1>2 DEF AreGroups
  <1>4. Apart(Tail(gs))
    <2>0. \A n \in DOMAIN Tail(gs) : n \in Nat
      BY <1>2, IsSeqIn
    <2>1. \A n \in DOMAIN Tail(gs) : \A i, j \in DOMAIN Tail(gs)[n] : Alike(Tail(gs)[n][i].text, Tail(gs)[n][j].text)
      BY <1>2 DEF Apart
    <2>2. ASSUME NEW m \in DOMAIN Tail(gs), NEW n \in DOMAIN Tail(gs), m # n,
                 NEW i \in DOMAIN Tail(gs)[m], NEW j \in DOMAIN Tail(gs)[n]
          PROVE  ~Alike(Tail(gs)[m][i].text, Tail(gs)[n][j].text)
      <3>1. m + 1 \in DOMAIN gs /\ n + 1 \in DOMAIN gs /\ m + 1 # n + 1
        BY <1>2, <2>0, <2>2
      <3>2. Tail(gs)[m] = gs[m + 1] /\ Tail(gs)[n] = gs[n + 1]
        BY <1>2
      <3> QED BY <3>1, <3>2 DEF Apart
    <2> QED BY <2>1, <2>2 DEF Apart
  <1>5. ASSUME NEW v, HoldsIn(gs, v) PROVE Holds(Head(gs), v) \/ HoldsIn(Tail(gs), v)
    BY <1>2, <1>5 DEF HoldsIn
  <1>6. PICK r \in DOMAIN gs[1] : Rep(gs[1]) = gs[1][r]
    BY <1>3, RepIs
  <1>7. ASSUME NEW v, Holds(gs[1], v) PROVE Alike(Rep(gs[1]).text, v.text) /\ Alike(v.text, Rep(gs[1]).text)
    BY <1>2, <1>6, <1>7 DEF Holds, Apart
  <1>8. ASSUME NEW v, HoldsIn(Tail(gs), v) PROVE HoldsIn(gs, v)
    BY <1>2, <1>8 DEF HoldsIn
  <1> QED BY <1>2, <1>3, <1>4, <1>5, <1>6, <1>7, <1>8

\* A step of the curator at work: notes stay, what waits or is in hand stays so unless it
\* is settled.
LEMMA StepKeeps ==
  ASSUME NearTransitive, BrainOk, OneBusy(job), Agreement(voices, job, cands, notes),
         NEW k \in Curators, job[k].pc # "resting", NEW next, Move(k, next), voices' = voices,
         \A v : Settled(notes, v) => Settled(notes', v),
         \A v : Waiting(cands, v) => Waiting(cands', v) \/ Settled(notes', v),
         \A v : Carried(job[k], v) => Carried(next, v) \/ Settled(notes', v),
         JobKeeps(next, cands', notes')
  PROVE  Agreement(voices', job', cands', notes')
  <1>1. /\ job'[k] = next
        /\ \A j \in Curators \ {k} : job'[j] = job[j] /\ job[j].pc = "resting"
    BY DEF Move, BrainOk, OneBusy
  <1>2. \A j \in Curators : JobKeeps(job'[j], cands', notes')
    BY <1>1 DEF JobKeeps, Agreed
  <1>3. \A v : InHand(job, v) => InHand(job', v) \/ Settled(notes', v)
    <2> SUFFICES ASSUME NEW v, InHand(job, v) PROVE InHand(job', v) \/ Settled(notes', v)
      OBVIOUS
    <2>1. PICK j \in Curators : Carried(job[j], v)
      BY DEF InHand
    <2>2. j = k
      BY <1>1, <2>1 DEF Carried, Agreed
    <2> QED BY <1>1, <2>1, <2>2 DEF InHand
  <1>4. \A v \in voices' : Settled(notes', v) \/ Waiting(cands', v) \/ InHand(job', v)
    BY <1>3 DEF Agreement
  <1>5. ASSUME NEW v \in voices', NEW w \in voices', v.by # w.by, Alike(v.text, w.text)
        PROVE  Settled(notes', v) \/ InHand(job', v) \/ InHand(job', w)
    <2>1. Settled(notes, v) \/ InHand(job, v) \/ InHand(job, w)
      BY <1>5 DEF Agreement
    <2>2. Settled(notes', w) => Settled(notes', v)
      BY <1>5, SettledAlike
    <2> QED BY <1>3, <2>1, <2>2
  <1> QED BY <1>2, <1>4, <1>5 DEF Agreement

\* The candidates that a group of gs could match are in view.
InView(C, gs, view) ==
    \A i \in DOMAIN C, n \in DOMAIN gs : \A j \in DOMAIN gs[n] : Alike(C[i].text, gs[n][j].text) => C[i] \in view
AtWork == {"weigh", "spend"} \cup Agreed

LEMMA FewerInView ==
  ASSUME NEW C, NEW D, \A i \in DOMAIN D : \E j \in DOMAIN C : D[i] = C[j], NEW gs, NEW view, InView(C, gs, view)
  PROVE  InView(D, gs, view)
  BY DEF InView

LEMMA NextKeeps ==
  ASSUME NEW V, NEW c, JobOk(V, c), c.groups # <<>>, Apart(c.groups), NEW C, InView(C, Tail(c.groups), c.view), NEW N
  PROVE  JobKeeps(NextGroup(c), C, N)
  <1>1. NextGroup(c).pc = "weigh" /\ NextGroup(c).groups = Tail(c.groups) /\ NextGroup(c).view = c.view
    BY JobFields DEF NextGroup
  <1>2. AreGroups(V, c.groups)
    BY DEF JobOk
  <1>3. Apart(Tail(c.groups))
    BY <1>2, HeadHolds
  <1> QED BY <1>1, <1>3 DEF JobKeeps, InView, Agreed

LEMMA TailInView ==
  ASSUME NEW gs, IsSeq(gs), gs # <<>>, NEW C, NEW view, InView(C, gs, view)
  PROVE  InView(C, Tail(gs), view)
  <1>1. \A i \in DOMAIN Tail(gs) : i + 1 \in DOMAIN gs /\ Tail(gs)[i] = gs[i + 1]
    BY TailIs
  <1> QED BY <1>1 DEF InView

\* A group is done with: what it holds is settled.
LEMMA NextSettles ==
  ASSUME NearTransitive, BrainOk, OneBusy(job), Agreement(voices, job, cands, notes),
         NEW k \in Curators, job[k].pc \in AtWork, job[k].groups # <<>>,
         NEW c, JobOk(voices, c), c.groups = job[k].groups, c.view = job[k].view, Move(k, NextGroup(c)), voices' = voices,
         \A v : Settled(notes, v) => Settled(notes', v),
         \A v : Waiting(cands, v) => Waiting(cands', v) \/ Settled(notes', v),
         \A i \in DOMAIN cands' : \E j \in DOMAIN cands : cands'[i] = cands[j],
         job[k].pc # "spend" => Settled(notes', Rep(Head(job[k].groups)))
  PROVE  Agreement(voices', job', cands', notes')
  <1> DEFINE gs == job[k].groups
  <1>1. AreGroups(voices, gs) /\ IsSeq(gs)
    BY DEF BrainOk, JobOk, AreGroups
  <1>2. Apart(gs) /\ InView(cands, gs, job[k].view)
    BY DEF Agreement, JobKeeps, InView, AtWork
  <1>3. JobKeeps(NextGroup(c), cands', notes')
    <2>1. InView(cands', gs, job[k].view)
      BY <1>2, FewerInView
    <2>2. InView(cands', Tail(gs), job[k].view)
      BY <1>1, <2>1, TailInView
    <2> QED BY <1>2, <2>2, NextKeeps
  <1>4. ASSUME NEW v, Carried(job[k], v) PROVE Carried(NextGroup(c), v) \/ Settled(notes', v)
    <2>1. NextGroup(c).pc = "weigh" /\ NextGroup(c).groups = Tail(gs)
      BY JobFields DEF NextGroup
    <2>2. CASE HoldsIn(Tail(gs), v)
      BY <2>1, <2>2 DEF Carried
    <2>3. CASE Holds(Head(gs), v) /\ job[k].pc # "spend"
      <3>1. Alike(Rep(Head(gs)).text, v.text)
        BY <1>1, <1>2, <2>3, HeadHolds
      <3> QED BY <2>3, <3>1, SettledAlike
    <2>4. HoldsIn(Tail(gs), v) \/ (Holds(Head(gs), v) /\ job[k].pc # "spend")
      <3>1. CASE job[k].pc = "spend"
        BY <1>4, <3>1 DEF Carried, Agreed
      <3>2. CASE job[k].pc # "spend"
        <4>1. HoldsIn(gs, v)
          BY <1>4, <3>2 DEF Carried, AtWork, Agreed
        <4> QED BY <1>1, <1>2, <3>2, <4>1, HeadHolds
      <3> QED BY <3>1, <3>2
    <2> QED BY <2>2, <2>3, <2>4
  <1>5. job[k].pc # "resting"
    BY DEF AtWork, Agreed
  <1>6. \E next : next = NextGroup(c)
    OBVIOUS
  <1>7. PICK next : next = NextGroup(c)
    BY <1>6
  <1> QED BY <1>3, <1>4, <1>5, <1>7, StepKeeps

\* The same group, at the next step.
LEMMA SameGroupKeeps ==
  ASSUME NearTransitive, BrainOk, OneBusy(job), Agreement(voices, job, cands, notes),
         NEW k \in Curators, job[k].pc \in {"weigh"} \cup Agreed, NEW next, next.pc \in {"spend"} \cup Agreed, Move(k, next),
         next.groups = job[k].groups, next.groups # <<>>, next.view = job[k].view, voices' = voices, cands' = cands,
         \A v : Settled(notes, v) => Settled(notes', v),
         next.pc \in {"bump", "spend"} => Settled(notes', Rep(Head(next.groups))),
         next.pc = "spend" => \A d \in next.matched : Alike(d.text, Rep(Head(next.groups)).text)
  PROVE  Agreement(voices', job', cands', notes')
  <1> DEFINE gs == job[k].groups
  <1>1. AreGroups(voices, gs)
    BY DEF BrainOk, JobOk
  <1>2. JobKeeps(job[k], cands, notes) /\ job[k].pc \in AtWork /\ next.pc \in AtWork
    BY DEF Agreement, AtWork
  <1>3. JobKeeps(next, cands', notes')
    BY <1>2 DEF JobKeeps, AtWork
  <1>4. ASSUME NEW v, Carried(job[k], v) PROVE Carried(next, v) \/ Settled(notes', v)
    <2>1. HoldsIn(gs, v)
      BY <1>4 DEF Carried, Agreed
    <2>2. CASE next.pc \in Agreed
      BY <2>1, <2>2 DEF Carried
    <2>3. CASE next.pc = "spend"
      <3>1. Apart(gs)
        BY <1>2 DEF JobKeeps, AtWork
      <3>2. Holds(Head(gs), v) \/ HoldsIn(Tail(gs), v)
        BY <1>1, <2>1, <3>1, HeadHolds
      <3>3. Holds(Head(gs), v) => Alike(Rep(Head(gs)).text, v.text)
        BY <1>1, <3>1, HeadHolds
      <3>4. Settled(notes', Rep(Head(gs)))
        BY <2>3
      <3>5. Holds(Head(gs), v) => Settled(notes', v)
        BY <3>3, <3>4, SettledAlike
      <3> QED BY <2>3, <3>2, <3>5 DEF Carried
    <2> QED BY <2>2, <2>3
  <1>5. job[k].pc # "resting"
    BY DEF Agreed
  <1> QED BY <1>3, <1>4, <1>5, StepKeeps

LEMMA PickedWhole ==
  ASSUME NEW s, IsSeq(s), NEW I, ~(Len(Picked(s, I)) < Len(s))
  PROVE  \A i \in DOMAIN s : \E n \in DOMAIN Picked(s, I) : Picked(s, I)[n] = s[i]
  <1>1. /\ ToSet(Picked(s, I)) = {s[i] : i \in I \cap DOMAIN s}
        /\ Len(Picked(s, I)) \in 0 .. Len(s) /\ (Len(Picked(s, I)) = Len(s) => DOMAIN s \subseteq I)
    BY PickedIs
  <1>2. DOMAIN s \subseteq I
    BY <1>1, IsSeqIn
  <1>3. ASSUME NEW i \in DOMAIN s PROVE s[i] \in ToSet(Picked(s, I))
    BY <1>1, <1>2
  <1> QED BY <1>3 DEF ToSet

LEMMA DecayKeeps ==
  ASSUME NearTransitive, BrainOk, OneBusy(job), Agreement(voices, job, cands, notes),
         NEW k \in Curators, DecayNotes(k), ~muffled'
  PROVE  Agreement(voices', job', cands', notes')
  <1> DEFINE aged == [i \in DOMAIN notes |-> Aged(notes[i], job[k].now)]
             kept == {i \in DOMAIN notes : ~Archived(aged[i], job[k].now)}
             next == [job[k] EXCEPT !.pc = "fetch"]
  <1>1. /\ notes' = Picked(aged, kept) /\ Move(k, next) /\ job[k].pc = "decay"
        /\ cands' = cands /\ voices' = voices /\ ~(Len(notes') < Len(notes))
    BY DEF DecayNotes
  <1>2. /\ next.pc = "fetch" /\ next.said = job[k].said
    BY JobFields DEF BrainOk
  <1>3. DOMAIN notes = 1 .. Len(notes) /\ Len(notes) \in Nat
    BY IsSeqIn DEF BrainOk, NotesOk
  <1>4. IsSeq(aged) /\ Len(aged) = Len(notes)
    <2>2. DOMAIN aged = 1 .. Len(notes) /\ aged = [i \in 1 .. Len(notes) |-> aged[i]]
      BY <1>3
    <2> HIDE DEF aged
    <2> QED BY <1>3, <2>2, MakesSeq
  <1>5. \A i \in DOMAIN notes : aged[i].text = notes[i].text
    <2> SUFFICES ASSUME NEW i \in DOMAIN notes PROVE aged[i].text = notes[i].text
      OBVIOUS
    <2>1. DOMAIN notes[i] = NoteFields
      BY DEF BrainOk, NotesOk
    <2> QED BY <2>1 DEF Aged, NoteFields
  <1>6. DOMAIN aged = DOMAIN notes
    OBVIOUS
  <1> HIDE DEF aged, kept, next
  <1>7. \A i \in DOMAIN aged : \E n \in DOMAIN notes' : notes'[n] = aged[i]
    BY <1>1, <1>4, PickedWhole
  <1>8. \A v : Settled(notes, v) => Settled(notes', v)
    BY <1>5, <1>6, <1>7 DEF Settled
  <1>9. \A v : Carried(job[k], v) => Carried(next, v)
    BY <1>1, <1>2 DEF Carried, Agreed
  <1>10. JobKeeps(next, cands', notes') /\ job[k].pc # "resting"
    BY <1>1, <1>2 DEF JobKeeps, Agreed
  <1> QED BY <1>1, <1>8, <1>9, <1>10, StepKeeps

LEMMA FetchKeeps ==
  ASSUME NearTransitive, BrainOk, OneBusy(job), Agreement(voices, job, cands, notes),
         NEW k \in Curators, NEW got, Fetch(k, got), ~muffled'
  PROVE  Agreement(voices', job', cands', notes')
  <1> DEFINE c == job[k]
             fetched == [i \in DOMAIN c.said |-> [text |-> c.said[i].text, by |-> c.said[i].by, diff |-> c.said[i].diff,
                          sure |-> c.said[i].sure, wide |-> c.said[i].wide, web |-> i \in got]]
             next == [c EXCEPT !.pc = "embed", !.said = fetched]
             young == {i \in DOMAIN cands : c.now - cands[i].at <= TtlDays}
             fresh == Picked(cands, young)
  <1>0. DOMAIN c = {"pc", "run", "nth", "now", "said", "groups", "made", "view", "matched", "dup"}
    BY JobFields DEF BrainOk
  <1>1. /\ Move(k, next) /\ c.pc = "fetch"
        /\ notes' = notes /\ voices' = voices /\ ~(Len(cands') < Len(cands))
    <2>2. [c EXCEPT !.pc = "embed",
                  !.said = [i \in DOMAIN @ |-> [text |-> @[i].text, by |-> @[i].by, diff |-> @[i].diff, sure |-> @[i].sure,
                                                wide |-> @[i].wide, web |-> i \in got]]] = next
      BY <1>0
    <2> QED BY <2>2 DEF Fetch
  <1>2. next.pc = "embed" /\ next.said = fetched
    BY <1>0
  <1>3. \A v : Holds(c.said, v) => Holds(fetched, v)
    BY DEF Holds
  <1>4. \A i \in DOMAIN cands : \E n \in DOMAIN cands' : cands'[n] = cands[i]
    <2>1. IsSeq(cands)
      BY DEF BrainOk, CandsOk
    <2>2. PICK line \in OldestFirst(fresh) :
            cands' = SubSeq(line, IF Len(line) > MaxCands THEN Len(line) - MaxCands + 1 ELSE 1, Len(line))
      BY DEF Fetch
    <2>3. IsSeq(fresh) /\ Len(fresh) \in 0 .. Len(cands)
      BY <2>1, PickedIs
    <2> HIDE DEF fresh
    <2>4. PICK o \in Bijection(DOMAIN fresh, DOMAIN fresh) : line = [i \in DOMAIN fresh |-> fresh[o[i]]]
      BY <2>2 DEF OldestFirst
    <2>5. \A j \in DOMAIN fresh : \E i \in DOMAIN fresh : o[i] = j
      BY DEF Bijection, Surjection
    <2>6. DOMAIN fresh = 1 .. Len(fresh) /\ Len(fresh) \in Nat
      BY <2>3, IsSeqIn
    <2>7. IsSeq(line) /\ Len(line) = Len(fresh) /\ DOMAIN line = DOMAIN fresh
      BY <2>4, <2>6, MakesSeq
    <2> DEFINE a == IF Len(line) > MaxCands THEN Len(line) - MaxCands + 1 ELSE 1
    <2>8. a \in Nat \ {0} /\ Len(line) \in 0 .. Len(line) /\ (a = 1 \/ (a > 1 /\ a <= Len(line)) \/ (a = Len(line) + 1 /\ a > 1))
      BY <2>6, <2>7, BrainAssumption
    <2>9. cands' = SubSeq(line, a, Len(line))
      BY <2>2
    <2> HIDE DEF a
    <2>10. /\ IsSeq(cands')
           /\ \A i \in DOMAIN cands' : i + a - 1 \in DOMAIN line /\ cands'[i] = line[i + a - 1]
           /\ DOMAIN cands' = 1 .. (IF a <= Len(line) THEN Len(line) - a + 1 ELSE 0)
      BY <2>7, <2>8, <2>9, SubSeqIs
    <2>11. DOMAIN cands' = 1 .. Len(cands') /\ Len(cands') \in Nat /\ Len(cands) \in Nat
      BY <2>1, <2>10, IsSeqIn
    <2>12. Len(cands') = IF a <= Len(line) THEN Len(line) - a + 1 ELSE 0
      BY <2>6, <2>7, <2>8, <2>9, <2>11, SubSeqIsLong
    <2>13. Len(line) \in Nat /\ Len(line) <= Len(cands) /\ Len(cands') >= Len(cands)
      BY <1>1, <2>3, <2>6, <2>7, <2>11
    <2>14. a = 1 \/ Len(line) = 0
      BY <2>8, <2>12, <2>13
    <2>15. DOMAIN cands' = DOMAIN line /\ \A i \in DOMAIN line : cands'[i] = line[i]
      BY <2>6, <2>7, <2>8, <2>10, <2>14
    <2>16. ~(Len(fresh) < Len(cands))
      BY <2>6, <2>7, <2>8, <2>12, <2>13, <2>14
    <2>17. \A i \in DOMAIN cands : \E n \in DOMAIN fresh : fresh[n] = cands[i]
      BY <2>1, <2>16, PickedWhole DEF fresh
    <2> QED BY <2>4, <2>5, <2>7, <2>15, <2>17
  <1> HIDE DEF next, fetched
  <1>5. \A v : Waiting(cands, v) => Waiting(cands', v)
    BY <1>4 DEF Waiting
  <1>6. \A v : Carried(c, v) => Carried(next, v)
    BY <1>1, <1>2, <1>3 DEF Carried, Agreed
  <1>7. JobKeeps(next, cands', notes') /\ c.pc # "resting"
    BY <1>1, <1>2 DEF JobKeeps, Agreed
  <1> QED BY <1>1, <1>5, <1>6, <1>7, StepKeeps

LEMMA EmbedKeeps ==
  ASSUME NearTransitive, BrainOk, OneBusy(job), Agreement(voices, job, cands, notes),
         NEW k \in Curators, Embed(k), ~muffled'
  PROVE  Agreement(voices', job', cands', notes')
  <1> DEFINE c == job[k]
             next == [c EXCEPT !.pc = "weigh", !.groups = Grouped(c.said), !.view = ToSet(cands)]
  <1>1. Move(k, next) /\ c.pc = "embed" /\ cands' = cands /\ notes' = notes /\ voices' = voices
    BY DEF Embed
  <1>2. JobOk(voices, c)
    BY DEF BrainOk
  <1>3. next.pc = "weigh" /\ next.groups = Grouped(c.said) /\ next.view = ToSet(cands)
    BY <1>2, JobFields
  <1>4. Apart(Grouped(c.said)) /\ \A i \in DOMAIN c.said : Carries(Grouped(c.said), c.said[i])
    BY <1>2, GroupedIs DEF JobOk
  <1> HIDE DEF next
  <1>5. JobKeeps(next, cands', notes')
    BY <1>1, <1>3, <1>4 DEF JobKeeps, Agreed, ToSet
  <1>6. ASSUME NEW v, Carried(c, v) PROVE Carried(next, v)
    <2>1. PICK i \in DOMAIN c.said : c.said[i].text = v.text /\ ProviderOf(c.said[i].by) = v.by
      BY <1>1, <1>6 DEF Carried, Holds, Agreed
    <2>2. HoldsIn(Grouped(c.said), v)
      BY <1>4, <2>1 DEF Carries, HoldsIn, Holds
    <2> QED BY <1>3, <2>2 DEF Carried
  <1>7. c.pc # "resting"
    BY <1>1
  <1> QED BY <1>1, <1>5, <1>6, <1>7, StepKeeps

\* A group that waits is of one provider, who has a candidate for it from now on.
LEMMA WaitingIs ==
  ASSUME NearTransitive, BrainOk, NEW c, JobOk(voices, c), c.groups # <<>>, Apart(c.groups),
         ~Neglected(c.view, Head(c.groups)), cands' = Persisted(c, Head(c.groups))
  PROVE  \E p :
           /\ \A v : Holds(Head(c.groups), v) => v.by = p /\ Waiting(cands', v)
           /\ \A d \in Matching(c.view, Head(c.groups)) : d.provider = p
           /\ \A v : Waiting(cands, v) => Waiting(cands', v)
           /\ \A i \in DOMAIN cands' : \/ \E j \in DOMAIN cands : cands'[i] = cands[j]
                                       \/ cands'[i].text = Rep(Head(c.groups)).text
  <1> DEFINE group == Head(c.groups)
             by == ProvidersIn(Observed(group))
             I == {i \in DOMAIN group : ~group[i].web}
             cand == [text |-> Rep(group).text, provider |-> CHOOSE q \in by : TRUE,
                      run |-> c.run, nth |-> c.nth, at |-> c.now]
  <1>1. IsGroup(voices, group) /\ IsSeq(group) /\ IsSeq(cands)
    BY HeadHolds DEF JobOk, IsGroup, BrainOk, CandsOk
  <1>2. IsSeq(Observed(group)) /\ Observed(group) # <<>>
        /\ \A n \in DOMAIN Observed(group) : \E i \in DOMAIN group : Observed(group)[n] = group[i]
    <2>1. Observed(group) = Picked(group, I)
      BY DEF Observed
    <2>2. Observed(group) # <<>>
      BY DEF Neglected
    <2> HIDE DEF I, group
    <2> QED BY <1>1, <2>1, <2>2, PickedOk
  <1>3. PICK p : p \in by
    <2>1. 1 \in DOMAIN Observed(group)
      BY <1>2, IsSeqIn
    <2> QED BY <2>1 DEF ProvidersIn
  <1>4. /\ \A q \in ProvidersIn(group) : q = p
        /\ \A d \in Matching(c.view, group) : d.provider = p
    <2>1. p \in ProvidersIn(group)
      BY <1>2, <1>3 DEF ProvidersIn
    <2>2. \A q \in ProvidersIn(group) \cup {d.provider : d \in Matching(c.view, group)} : q = p
      BY <2>1 DEF Neglected
    <2> QED BY <2>2
  <1>5. by = {p}
    <2>1. \A q \in by : q \in ProvidersIn(group)
      BY <1>2 DEF ProvidersIn
    <2> QED BY <1>3, <1>4, <2>1
  <1>6. Cardinality(by) = 1
    <2> HIDE DEF by
    <2> QED BY <1>5, FS_Singleton
  <1>7. cand.provider = p /\ cand.text = Rep(group).text
    <2>1. (CHOOSE q \in by : TRUE) \in by
      BY <1>3
    <2> QED BY <1>5, <2>1
  <1>8. \/ cands' = cands /\ \E i \in DOMAIN cands : cands[i].provider \in by /\ Alike(cands[i].text, Rep(group).text)
        \/ cands' = Append(cands, cand)
    BY <1>6 DEF Persisted
  <1> HIDE DEF cand
  <1>9. \E i \in DOMAIN cands' : cands'[i].provider = p /\ Alike(cands'[i].text, Rep(group).text)
    <2>1. Alike(Rep(group).text, Rep(group).text)
      BY <1>1, RepIs DEF IsGroup, Fine
    <2>2. CASE cands' = Append(cands, cand)
      BY <1>1, <1>7, <2>1, <2>2, AppendIs
    <2>3. CASE cands' # Append(cands, cand)
      BY <1>5, <1>8, <2>3
    <2> QED BY <2>2, <2>3
  <1>10. /\ \A i \in DOMAIN cands : i \in DOMAIN cands' /\ cands'[i] = cands[i]
         /\ \A i \in DOMAIN cands' : (\E j \in DOMAIN cands : cands'[i] = cands[j]) \/ cands'[i] = cand
    <2>1. CASE cands' = Append(cands, cand)
      BY <1>1, <2>1, AppendIs
    <2>2. CASE cands' = cands
      BY <2>2
    <2> QED BY <1>8, <2>1, <2>2
  <1>11. ASSUME NEW v, Holds(group, v) PROVE v.by = p /\ Waiting(cands', v)
    <2>1. v.by \in ProvidersIn(group)
      BY <1>11 DEF Holds, ProvidersIn
    <2>2. Alike(Rep(group).text, v.text)
      BY <1>11, HeadHolds DEF JobOk
    <2>3. \E i \in DOMAIN cands' : cands'[i].provider = p /\ Alike(cands'[i].text, v.text)
      <3>1. PICK i \in DOMAIN cands' : cands'[i].provider = p /\ Alike(cands'[i].text, Rep(group).text)
        BY <1>9
      <3>2. Alike(cands'[i].text, v.text)
        BY <2>2, <3>1 DEF NearTransitive
      <3> QED BY <3>1, <3>2
    <2> QED BY <1>4, <2>1, <2>3 DEF Waiting
  <1>12. \A v : Waiting(cands, v) => Waiting(cands', v)
    BY <1>10 DEF Waiting
  <1> QED BY <1>4, <1>7, <1>10, <1>11, <1>12

LEMMA WeighKeeps ==
  ASSUME NearTransitive, BrainOk, OneBusy(job), Agreement(voices, job, cands, notes),
         NEW k \in Curators, Weigh(k), ~muffled'
  PROVE  Agreement(voices', job', cands', notes')
  <1> DEFINE c == job[k]
             gs == c.groups
             group == Head(gs)
  <1>1. /\ c.pc = "weigh" /\ gs # <<>> /\ notes' = notes /\ voices' = voices
        /\ Dropped(c) \in {"waits", "no"} /\ (Dropped(c) = "waits" => ~Neglected(c.view, group))
    BY DEF Weigh, Dropped
  <1>2. JobOk(voices, c) /\ AreGroups(voices, gs) /\ IsSeq(gs)
    BY DEF BrainOk, JobOk, AreGroups
  <1>3. Apart(gs) /\ InView(cands, gs, c.view)
    BY <1>1 DEF Agreement, JobKeeps, InView
  <1>4. CASE Dropped(c) = "no"
    <2> DEFINE next == [c EXCEPT !.pc = "look", !.matched = Matching(c.view, group)]
    <2>1. Move(k, next) /\ cands' = cands
      BY <1>4 DEF Weigh
    <2>2. next.pc = "look" /\ next.groups = gs /\ next.view = c.view
      BY <1>2, JobFields
    <2> HIDE DEF next
    <2> QED BY <1>1, <2>1, <2>2, SameGroupKeeps DEF Agreed
  <1>5. CASE Dropped(c) = "waits"
    <2>1. Move(k, NextGroup(c)) /\ cands' = Persisted(c, group)
      BY <1>5 DEF Weigh
    <2>2. PICK p :
           /\ \A v : Holds(group, v) => v.by = p /\ Waiting(cands', v)
           /\ \A d \in Matching(c.view, group) : d.provider = p
           /\ \A v : Waiting(cands, v) => Waiting(cands', v)
           /\ \A i \in DOMAIN cands' : \/ \E j \in DOMAIN cands : cands'[i] = cands[j]
                                       \/ cands'[i].text = Rep(group).text
      BY <1>1, <1>2, <1>3, <1>5, <2>1, WaitingIs
    <2>3. PICK next : next = NextGroup(c)
      OBVIOUS
    <2>4. next.pc = "weigh" /\ next.groups = Tail(gs)
      BY <1>1, <1>2, <2>3, NextGroupOk
    <2>5. /\ Head(gs) = gs[1] /\ 1 \in DOMAIN gs
          /\ \A v : HoldsIn(gs, v) => Holds(group, v) \/ HoldsIn(Tail(gs), v)
          /\ \A v : Holds(group, v) => Alike(Rep(group).text, v.text) /\ Alike(v.text, Rep(group).text)
      BY <1>1, <1>2, <1>3, HeadHolds
    <2>6. PICK r \in DOMAIN gs[1] : Rep(group) = gs[1][r]
      BY <1>1, <1>2, <1>3, HeadHolds
    <2>7. InView(cands', Tail(gs), c.view)
      <3> SUFFICES ASSUME NEW i \in DOMAIN cands', NEW n \in DOMAIN Tail(gs), NEW j \in DOMAIN Tail(gs)[n],
                          Alike(cands'[i].text, Tail(gs)[n][j].text)
                   PROVE  cands'[i] \in c.view
        BY DEF InView
      <3>1. n + 1 \in DOMAIN gs /\ Tail(gs)[n] = gs[n + 1] /\ n + 1 # 1
        <4>1. IsSeq(Tail(gs)) /\ n + 1 \in DOMAIN gs /\ Tail(gs)[n] = gs[n + 1] /\ DOMAIN Tail(gs) = 1 .. Len(gs) - 1
          BY <1>1, <1>2, TailIs
        <4> QED BY <1>2, <4>1, IsSeqIn
      <3>2. cands'[i].text # Rep(group).text
        BY <1>3, <2>5, <2>6, <3>1 DEF Apart
      <3>3. PICK m \in DOMAIN cands : cands'[i] = cands[m]
        BY <2>2, <3>2
      <3> QED BY <1>3, <3>1, <3>3 DEF InView
    <2>8. JobKeeps(next, cands', notes')
      BY <1>1, <1>2, <1>3, <2>3, <2>7, NextKeeps
    <2>9. /\ job'[k] = next
          /\ \A j \in Curators \ {k} : job'[j] = job[j] /\ job[j].pc = "resting"
      BY <1>1, <2>1, <2>3 DEF Move, BrainOk, OneBusy
    <2>10. \A j \in Curators : JobKeeps(job'[j], cands', notes')
      BY <2>8, <2>9 DEF JobKeeps, Agreed
    <2>11. ASSUME NEW v, InHand(job, v) PROVE HoldsIn(gs, v) /\ (Holds(group, v) \/ InHand(job', v))
      <3>1. PICK j \in Curators : Carried(job[j], v)
        BY <2>11 DEF InHand
      <3>2. j = k
        BY <2>9, <3>1 DEF Carried, Agreed
      <3>3. HoldsIn(gs, v)
        BY <1>1, <3>1, <3>2 DEF Carried
      <3>4. HoldsIn(Tail(gs), v) => Carried(next, v)
        BY <2>4 DEF Carried
      <3> QED BY <2>5, <2>9, <3>3, <3>4 DEF InHand
    <2>12. ASSUME NEW v \in voices, NEW w \in voices, v.by # w.by, Alike(v.text, w.text), Holds(group, v)
           PROVE  Settled(notes, w)
      <3>1. PICK j \in DOMAIN gs[1] : gs[1][j].text = v.text
        BY <2>5, <2>12 DEF Holds
      <3>2. v.by = p
        BY <2>2, <2>12
      <3>3. ~Waiting(cands, w)
        <4> SUFFICES ASSUME NEW i \in DOMAIN cands, cands[i].provider = w.by, Alike(cands[i].text, w.text)
                     PROVE  FALSE
          BY DEF Waiting
        <4>1. Alike(cands[i].text, v.text)
          BY <2>12, NearBothWays DEF NearTransitive
        <4>2. cands[i] \in c.view
          BY <1>3, <2>5, <3>1, <4>1 DEF InView
        <4>3. Alike(cands[i].text, Rep(group).text)
          BY <2>5, <2>12, <4>1 DEF NearTransitive
        <4>4. cands[i].provider = p
          BY <2>2, <4>2, <4>3 DEF Matching
        <4> QED BY <2>12, <3>2, <4>4
      <3>4. ~InHand(job, w)
        <4> SUFFICES ASSUME InHand(job, w) PROVE FALSE
          OBVIOUS
        <4>1. PICK n \in DOMAIN gs : Holds(gs[n], w)
          BY <2>11 DEF HoldsIn
        <4>2. PICK i \in DOMAIN gs[n] : gs[n][i].text = w.text
          BY <4>1 DEF Holds
        <4>3. n = 1
          BY <1>3, <2>5, <2>12, <3>1, <4>2 DEF Apart
        <4> QED BY <2>2, <2>5, <2>12, <3>2, <4>1, <4>3
      <3> QED BY <3>3, <3>4 DEF Agreement
    <2>13. \A v \in voices' : Settled(notes', v) \/ Waiting(cands', v) \/ InHand(job', v)
      BY <1>1, <2>2, <2>11 DEF Agreement
    <2>14. ASSUME NEW v \in voices', NEW w \in voices', v.by # w.by, Alike(v.text, w.text)
           PROVE  Settled(notes', v) \/ InHand(job', v) \/ InHand(job', w)
      <3>1. Settled(notes, v) \/ InHand(job, v) \/ InHand(job, w)
        BY <1>1, <2>14 DEF Agreement
      <3>2. Alike(w.text, v.text)
        BY <2>14, NearBothWays
      <3>3. Holds(group, v) => Settled(notes, w)
        BY <1>1, <2>12, <2>14
      <3>4. Holds(group, w) => Settled(notes, v)
        BY <1>1, <2>12, <2>14, <3>2
      <3>5. Settled(notes, w) => Settled(notes, v)
        BY <2>14, SettledAlike
      <3> QED BY <1>1, <2>11, <3>1, <3>3, <3>4, <3>5
    <2> QED BY <2>10, <2>13, <2>14 DEF Agreement
  <1> QED BY <1>1, <1>4, <1>5

LEMMA LookKeeps ==
  ASSUME NearTransitive, BrainOk, OneBusy(job), Agreement(voices, job, cands, notes),
         NEW k \in Curators, Look(k)
  PROVE  Agreement(voices', job', cands', notes')
  <1> DEFINE c == job[k]
             text == Rep(Head(c.groups)).text
  <1>1. /\ c.pc = "look" /\ cands' = cands /\ notes' = notes /\ voices' = voices
    BY DEF Look
  <1>2. JobOk(voices, c) /\ c.groups # <<>>
    BY <1>1 DEF BrainOk, JobOk, Agreed, Settles
  <1>3. DOMAIN c = {"pc", "run", "nth", "now", "said", "groups", "made", "view", "matched", "dup"}
    BY <1>2, JobFields
  <1>4. CASE Move(k, NextGroup(c)) /\ \E i \in DOMAIN notes : notes[i].text = text
    <2>1. AreGroups(voices, c.groups) /\ Apart(c.groups)
      BY <1>1, <1>2 DEF Agreement, JobKeeps, JobOk, Agreed
    <2>2. Alike(text, text)
      BY <1>2, <2>1, HeadHolds, RepIs DEF IsGroup, Fine
    <2>3. Settled(notes, Rep(Head(c.groups)))
      BY <1>4, <2>2 DEF Settled
    <2> QED BY <1>1, <1>2, <1>4, <2>3, NextSettles DEF AtWork, Agreed
  <1>5. CASE \E dup : Move(k, [c EXCEPT !.pc = "bump", !.dup = dup]) /\ SameNotes(text) # {}
    <2>1. PICK dup : Move(k, [c EXCEPT !.pc = "bump", !.dup = dup])
      BY <1>5
    <2>2. PICK next : next = [c EXCEPT !.pc = "bump", !.dup = dup]
      OBVIOUS
    <2>3. next.pc = "bump" /\ next.groups = c.groups /\ next.view = c.view
      BY <1>3, <2>2
    <2>4. Settled(notes, Rep(Head(c.groups)))
      BY <1>5, BrainAssumption DEF Settled, SameNotes, Alike
    <2> QED BY <1>1, <1>2, <2>1, <2>2, <2>3, <2>4, SameGroupKeeps DEF Agreed
  <1>6. CASE \E pc \in {"ask", "add"} : Move(k, [c EXCEPT !.pc = pc])
    <2>1. PICK pc \in {"ask", "add"} : Move(k, [c EXCEPT !.pc = pc])
      BY <1>6
    <2>2. PICK next : next = [c EXCEPT !.pc = pc]
      OBVIOUS
    <2>3. next.pc = pc /\ next.groups = c.groups /\ next.view = c.view
      BY <1>3, <2>2
    <2> QED BY <1>1, <1>2, <2>1, <2>2, <2>3, SameGroupKeeps DEF Agreed
  <1> QED BY <1>4, <1>5, <1>6 DEF Look

LEMMA BumpKeeps ==
  ASSUME NearTransitive, BrainOk, OneBusy(job), Agreement(voices, job, cands, notes),
         NEW k \in Curators, Bump(k)
  PROVE  Agreement(voices', job', cands', notes')
  <1> DEFINE c == job[k]
  <1>1. PICK spent : spent = [c EXCEPT !.made = @ + 1]
    OBVIOUS
  <1>2. c.pc = "bump" /\ cands' = cands /\ voices' = voices /\ Move(k, NextGroup(spent))
    BY <1>1 DEF Bump
  <1>3. JobOk(voices, c) /\ c.groups # <<>> /\ Settles(c)
    BY <1>2 DEF BrainOk, JobOk, Agreed, Settles
  <1>4. /\ DOMAIN spent = DOMAIN c /\ spent.pc = "bump" /\ spent.said = c.said
        /\ spent.groups = c.groups /\ spent.view = c.view /\ spent.matched = c.matched
    BY <1>1, <1>2, <1>3, JobFields
  <1>5. JobOk(voices, spent)
    BY <1>3, <1>4, AgreedOk DEF Agreed
  <1>6. \A i \in DOMAIN notes : i \in DOMAIN notes' /\ notes'[i].text = notes[i].text
    <2> SUFFICES ASSUME NEW i \in DOMAIN notes PROVE i \in DOMAIN notes' /\ notes'[i].text = notes[i].text
      OBVIOUS
    <2>1. DOMAIN notes[i] = NoteFields
      BY DEF BrainOk, NotesOk
    <2>2. /\ i \in DOMAIN notes'
          /\ \/ notes'[i] = notes[i]
             \/ notes'[i] = [notes[i] EXCEPT !.refs = @ + 1, !.last = c.now, !.reviewers = @ \cup ProvidersIn(Head(c.groups))]
      BY DEF Bump
    <2> QED BY <2>1, <2>2 DEF NoteFields
  <1>7. \A v : Settled(notes, v) => Settled(notes', v)
    BY <1>6 DEF Settled
  <1>8. Settled(notes, Rep(Head(c.groups)))
    BY <1>2 DEF Agreement, JobKeeps
  <1> QED BY <1>2, <1>3, <1>4, <1>5, <1>7, <1>8, NextSettles DEF AtWork, Agreed

LEMMA AskKeeps ==
  ASSUME NearTransitive, BrainOk, OneBusy(job), Agreement(voices, job, cands, notes),
         NEW k \in Curators, NEW accept \in BOOLEAN, Ask(k, accept), ~muffled'
  PROVE  Agreement(voices', job', cands', notes')
  <1> DEFINE c == job[k]
  <1>1. PICK next : next = [c EXCEPT !.pc = "add"]
    OBVIOUS
  <1>2. c.pc = "ask" /\ cands' = cands /\ notes' = notes /\ voices' = voices /\ Move(k, next)
    BY <1>1 DEF Ask
  <1>3. JobOk(voices, c) /\ c.groups # <<>>
    BY <1>2 DEF BrainOk, JobOk, Agreed, Settles
  <1>4. next.pc = "add" /\ next.groups = c.groups /\ next.view = c.view
    BY <1>1, <1>3, JobFields
  <1> QED BY <1>2, <1>3, <1>4, SameGroupKeeps DEF Agreed

LEMMA AddKeeps ==
  ASSUME NearTransitive, BrainOk, OneBusy(job), Agreement(voices, job, cands, notes),
         NEW k \in Curators, Add(k)
  PROVE  Agreement(voices', job', cands', notes')
  <1> DEFINE c == job[k]
             text == Rep(Head(c.groups)).text
  <1>1. PICK next : next = [c EXCEPT !.pc = "spend", !.made = @ + 1]
    OBVIOUS
  <1>2. c.pc = "add" /\ cands' = cands /\ voices' = voices /\ Move(k, next)
    BY <1>1 DEF Add
  <1>3. JobOk(voices, c) /\ c.groups # <<>> /\ Settles(c)
    BY <1>2 DEF BrainOk, JobOk, Agreed, Settles
  <1>4. next.pc = "spend" /\ next.groups = c.groups /\ next.view = c.view /\ next.matched = c.matched
    BY <1>1, <1>3, JobFields
  <1>5. PICK note : notes' = Append(notes, note) /\ note.text = text
    <2> DEFINE group == Head(c.groups)
               made == [id |-> Max({0} \cup {notes[i].id : i \in DOMAIN notes}) + 1, text |-> Rep(group).text,
                        status |-> "candidate", refs |-> 1, reviewers |-> ProvidersIn(group), last |-> c.now,
                        diff |-> FromDiff(group), web |-> Len(Observed(group)) < Len(group)]
    <2>1. notes' = Append(notes, made)
      BY DEF Add
    <2>2. made.text = text
      OBVIOUS
    <2> HIDE DEF made
    <2> QED BY <2>1, <2>2
  <1>6. /\ Len(notes) + 1 \in DOMAIN notes' /\ notes'[Len(notes) + 1] = note
        /\ \A i \in DOMAIN notes : i \in DOMAIN notes' /\ notes'[i] = notes[i]
    BY <1>5, AppendIs DEF BrainOk, NotesOk
  <1>7. Alike(text, text)
    <2>1. AreGroups(voices, c.groups) /\ Apart(c.groups)
      BY <1>2, <1>3 DEF Agreement, JobKeeps, JobOk, Agreed
    <2> QED BY <1>3, <2>1, HeadHolds, RepIs DEF IsGroup, Fine
  <1>8. Settled(notes', Rep(Head(c.groups))) /\ \A v : Settled(notes, v) => Settled(notes', v)
    BY <1>5, <1>6, <1>7 DEF Settled
  <1>9. \A d \in next.matched : Alike(d.text, Rep(Head(next.groups)).text)
    BY <1>3, <1>4 DEF Settles
  <1> QED BY <1>2, <1>3, <1>4, <1>8, <1>9, SameGroupKeeps DEF Agreed

LEMMA SpendKeeps ==
  ASSUME NearTransitive, BrainOk, OneBusy(job), Agreement(voices, job, cands, notes),
         NEW k \in Curators, Spend(k)
  PROVE  Agreement(voices', job', cands', notes')
  <1> DEFINE c == job[k]
             I == {i \in DOMAIN cands : cands[i] \notin c.matched}
  <1>1. /\ c.pc = "spend" /\ notes' = notes /\ voices' = voices /\ Move(k, NextGroup(c))
        /\ cands' = Picked(cands, I)
    BY DEF Spend
  <1>2. JobOk(voices, c) /\ c.groups # <<>> /\ IsSeq(cands)
    BY <1>1 DEF BrainOk, JobOk, CandsOk
  <1>3. Settled(notes, Rep(Head(c.groups))) /\ \A d \in c.matched : Alike(d.text, Rep(Head(c.groups)).text)
    BY <1>1 DEF Agreement, JobKeeps
  <1>4. ToSet(cands') = {cands[i] : i \in I \cap DOMAIN cands}
    <2> HIDE DEF I
    <2> QED BY <1>1, <1>2, PickedIs
  <1>5. \A i \in DOMAIN cands' : \E j \in DOMAIN cands : cands'[i] = cands[j]
    <2> HIDE DEF I
    <2> QED BY <1>1, <1>2, PickedOk
  <1>6. ASSUME NEW v, Waiting(cands, v) PROVE Waiting(cands', v) \/ Settled(notes', v)
    <2>1. PICK i \in DOMAIN cands : cands[i].provider = v.by /\ Alike(cands[i].text, v.text)
      BY <1>6 DEF Waiting
    <2>2. CASE cands[i] \in c.matched
      <3>1. Settled(notes, cands[i])
        BY <1>3, <2>2, SettledAlike
      <3> QED BY <1>1, <2>1, <3>1, SettledAlike
    <2>3. CASE cands[i] \notin c.matched
      <3>1. cands[i] \in ToSet(cands')
        BY <1>4, <2>3
      <3> QED BY <2>1, <3>1 DEF Waiting, ToSet
    <2> QED BY <2>2, <2>3
  <1> QED BY <1>1, <1>2, <1>5, <1>6, NextSettles DEF AtWork, Agreed

\* What is said to a curator it has in hand, as long as it can be read.
LEMMA CollectedHolds ==
  ASSUME NEW V, NEW pool, NEW said, PoolOk(V, pool), PoolOk(V, said), \A i \in DOMAIN said : ~said[i].loose,
         NEW a \in DOMAIN said
  PROVE  \E n \in DOMAIN Cumulative(AppendIter(pool, said), said) :
            Signed(Cumulative(AppendIter(pool, said), said)[n]) = Signed(said[a])
  <1> DEFINE Earlier(i) == ReadAll(pool) \o SubSeq(said, 1, i - 1)
             F == {i \in DOMAIN said : ~SignedIn(Earlier(i), said[i])}
             news == Picked(said, F)
             stored == AppendIter(pool, said)
             read == {i \in DOMAIN stored : ~stored[i].loose}
             Twins == {i \in DOMAIN said : Signed(said[i]) = Signed(said[a])}
             first == Min(Twins)
             Old == {i \in DOMAIN pool : ~pool[i].loose}
  <1>1. IsSeq(pool) /\ IsSeq(said) /\ DOMAIN said = 1 .. Len(said) /\ Len(said) \in Nat
    BY IsSeqIn DEF PoolOk
  <1>2. stored = pool \o news
    BY DEF AppendIter
  <1>3. ReadAll(stored) = Picked(stored, read) /\ ReadAll(pool) = Picked(pool, Old)
    BY DEF ReadAll
  <1>4. first \in Twins /\ \A i \in Twins : first <= i
    <2>1. Twins # {} /\ \A i \in Twins : i \in Nat
      BY <1>1
    <2> HIDE DEF Twins
    <2> QED BY <2>1, LeastExists
  <1>5. IsSeq(news) /\ ToSet(news) = {said[i] : i \in F \cap DOMAIN said}
    <2> HIDE DEF F
    <2> QED BY <1>1, PickedIs
  <1>6. IsSeq(ReadAll(pool)) /\ ToSet(ReadAll(pool)) = {pool[i] : i \in Old \cap DOMAIN pool}
    <2> HIDE DEF Old
    <2> QED BY <1>1, <1>3, PickedIs
  <1>7. /\ IsSeq(stored)
        /\ \A i \in DOMAIN pool : i \in DOMAIN stored /\ stored[i] = pool[i]
        /\ \A i \in DOMAIN news : Len(pool) + i \in DOMAIN stored /\ stored[Len(pool) + i] = news[i]
    <2> HIDE DEF news, stored
    <2> QED BY <1>1, <1>2, <1>5, ConcatIs
  <1>8. \E m \in DOMAIN stored : ~stored[m].loose /\ Signed(stored[m]) = Signed(said[a])
    <2> HIDE DEF stored, news
    <2>1. CASE first \in F
      <3>1. said[first] \in ToSet(news)
        BY <1>4, <1>5, <2>1
      <3>2. PICK i \in DOMAIN news : news[i] = said[first]
        BY <3>1 DEF ToSet
      <3> QED BY <1>4, <1>7, <3>2
    <2>2. CASE first \notin F
      <3> DEFINE b == first - 1
                 head == SubSeq(said, 1, b)
      <3>0. first \in 1 .. Len(said) /\ b \in 0 .. Len(said) /\ b \in Nat /\ 1 \in Nat \ {0}
        BY <1>1, <1>4
      <3>1. SignedIn(ReadAll(pool) \o head, said[first])
        BY <1>4, <2>2
      <3>2. /\ IsSeq(head)
            /\ \A i \in DOMAIN head : i \in DOMAIN said /\ head[i] = said[i] /\ i < first
        <4> HIDE DEF b
        <4>1. /\ IsSeq(head) /\ DOMAIN head = 1 .. (IF 1 <= b THEN b - 1 + 1 ELSE 0)
              /\ \A i \in DOMAIN head : i + 1 - 1 \in DOMAIN said /\ head[i] = said[i + 1 - 1]
          BY <1>1, <3>0, SubSeqIs
        <4>2. \A i \in DOMAIN head : i \in Nat /\ i <= b /\ i + 1 - 1 = i
          BY <3>0, <4>1
        <4>3. \A i \in Nat : i <= b => i < first
          BY <3>0 DEF b
        <4> HIDE DEF head
        <4> QED BY <4>1, <4>2, <4>3
      <3> HIDE DEF head, b
      <3>3. PICK n \in DOMAIN (ReadAll(pool) \o head) : Signed((ReadAll(pool) \o head)[n]) = Signed(said[first])
        BY <3>1 DEF SignedIn
      <3>4. \/ n \in DOMAIN ReadAll(pool) /\ (ReadAll(pool) \o head)[n] = ReadAll(pool)[n]
            \/ n - Len(ReadAll(pool)) \in DOMAIN head /\ (ReadAll(pool) \o head)[n] = head[n - Len(ReadAll(pool))]
        BY <1>6, <3>2, ConcatIs
      <3>5. CASE n \in DOMAIN ReadAll(pool) /\ (ReadAll(pool) \o head)[n] = ReadAll(pool)[n]
        <4>1. ReadAll(pool)[n] \in ToSet(ReadAll(pool))
          BY <3>5 DEF ToSet
        <4>2. PICK i \in Old : ReadAll(pool)[n] = pool[i]
          BY <1>6, <4>1
        <4> QED BY <1>4, <1>7, <3>3, <3>5, <4>2
      <3>6. ASSUME NEW i \in DOMAIN head, (ReadAll(pool) \o head)[n] = head[i] PROVE FALSE
        <4>1. i \in Twins /\ i < first
          BY <1>4, <3>2, <3>3, <3>6
        <4>2. first <= i /\ i \in Nat /\ first \in Nat
          BY <1>1, <1>4, <4>1
        <4> QED BY <4>1, <4>2
      <3> QED BY <3>4, <3>5, <3>6
    <2> QED BY <2>1, <2>2
  <1>9. PICK m \in DOMAIN stored : ~stored[m].loose /\ Signed(stored[m]) = Signed(said[a])
    BY <1>8
  <1>10. stored[m] \in ToSet(ReadAll(stored))
    <2>1. m \in read
      BY <1>9
    <2> HIDE DEF read, stored
    <2>2. ToSet(ReadAll(stored)) = {stored[i] : i \in read \cap DOMAIN stored}
      BY <1>3, <1>7, PickedIs
    <2> QED BY <1>9, <2>1, <2>2
  <1>11. PICK n \in DOMAIN ReadAll(stored) : ReadAll(stored)[n] = stored[m]
    BY <1>10 DEF ToSet
  <1>12. ReadAll(stored) # <<>>
    <2>1. DOMAIN <<>> = {}
      OBVIOUS
    <2> QED BY <1>11, <2>1
  <1>13. Cumulative(stored, said) = ReadAll(stored)
    BY <1>12 DEF Cumulative
  <1> HIDE DEF stored
  <1>14. \E i \in DOMAIN Cumulative(stored, said) : Signed(Cumulative(stored, said)[i]) = Signed(said[a])
    BY <1>9, <1>11, <1>13
  <1> QED BY <1>14 DEF stored

LEMMA CollectKeeps ==
  ASSUME NamesResolve, ~Overlap, NearTransitive, BrainOk, OneBusy(job), Agreement(voices, job, cands, notes),
         NEW k \in Curators, NEW said \in memory.offers, Collect(k, said), ~muffled'
  PROVE  Agreement(voices', job', cands', notes')
  <1> DEFINE new == {[text |-> p.text, by |-> p.by.provider, diff |-> p.diff] : p \in ToSet(said)}
             run == IF k = "gate" THEN session ELSE memory.sessions + 1 + reviews
             pool == IF run \in DOMAIN pools THEN pools[run] ELSE <<>>
             heard == Cumulative(AppendIter(pool, said), said)
             busy == [Resting EXCEPT !.pc = "decay", !.run = run, !.nth = reviews, !.now = today, !.said = heard]
  <1>1. /\ job' = [job EXCEPT ![k] = busy] /\ voices' = voices \cup new
        /\ cands' = cands /\ notes' = notes
        /\ \A p \in ToSet(said) : ~p.loose
    BY DEF Collect
  <1>2. \A j \in Curators : job[j].pc = "resting"
    BY DEF Collect, Alone
  <1>3. busy.pc = "decay" /\ busy.said = heard
    BY DEF Resting
  <1>4. /\ job'[k] = busy /\ \A j \in Curators : JobKeeps(job'[j], cands', notes')
    <2>1. JobKeeps(busy, cands', notes')
      BY <1>3 DEF JobKeeps, Agreed
    <2> HIDE DEF busy
    <2> QED BY <1>1, <2>1 DEF BrainOk, Agreement
  <1>5. \A v : ~InHand(job, v)
    BY <1>2 DEF InHand, Carried, Agreed
  <1>6. PoolOk({[text |-> p.text, by |-> p.by.provider, diff |-> p.diff] : p \in ToSet(said)}, said)
    <2>1. IsSeq(said) /\ \A p \in ToSet(said) : Alike(p.text, p.text) /\ p.sure \in Nat
      BY BrainAssumption DEF BrainOk, IsSeq, Alike
    <2>2. ASSUME NEW i \in DOMAIN said PROVE Fine(new, said[i])
      <3>1. said[i] \in ToSet(said)
        BY DEF ToSet
      <3>2. [text |-> said[i].text, by |-> said[i].by.provider, diff |-> said[i].diff] \in new
        BY <3>1
      <3>3. ProviderOf(said[i].by) = said[i].by.provider
        BY <3>1, ProviderResolved DEF BrainOk
      <3> QED BY <2>1, <3>1, <3>2, <3>3 DEF Fine, Voiced
    <2> QED BY <2>1, <2>2 DEF PoolOk
  <1>7. PoolOk(voices \cup new, said) /\ PoolOk(voices \cup new, pool)
    <2>1. PoolOk(voices \cup new, said)
      <3>1. new \subseteq voices \cup new
        OBVIOUS
      <3>2. PoolOk(new, said)
        BY <1>6
      <3> HIDE DEF new
      <3> QED BY <3>1, <3>2, HeardStays
    <2>2. CASE run \in DOMAIN pools
      <3>1. voices \subseteq voices \cup new
        OBVIOUS
      <3>2. PoolOk(voices, pool)
        BY <2>2 DEF BrainOk
      <3> HIDE DEF new, pool
      <3> QED BY <2>1, <3>1, <3>2, HeardStays
    <2>3. CASE run \notin DOMAIN pools
      <3>1. <<>> \in Seq({}) /\ DOMAIN <<>> = {}
        OBVIOUS
      <3> QED BY <2>1, <2>3, <3>1, SeqIs DEF PoolOk
    <2> QED BY <2>2, <2>3
  <1> HIDE DEF pool, run
  <1>8. ASSUME NEW v \in new PROVE InHand(job', v)
    <2>1. PICK a \in DOMAIN said : v.text = said[a].text /\ v.by = said[a].by.provider
      BY DEF ToSet
    <2>2. \A i \in DOMAIN said : ~said[i].loose
      BY <1>1 DEF ToSet
    <2>3. PICK n \in DOMAIN heard : Signed(heard[n]) = Signed(said[a])
      <3> HIDE DEF new
      <3> QED BY <1>7, <2>2, CollectedHolds
    <2>4. heard[n].text = v.text /\ ProviderOf(heard[n].by) = v.by
      <3>1. said[a] \in ToSet(said)
        BY DEF ToSet
      <3>2. ProviderOf(said[a].by) = said[a].by.provider
        BY <3>1, ProviderResolved DEF BrainOk
      <3>3. heard[n].text = said[a].text /\ heard[n].by = said[a].by
        BY <2>3 DEF Signed
      <3> HIDE DEF heard
      <3> QED BY <2>1, <3>2, <3>3
    <2> HIDE DEF heard, busy
    <2> QED BY <1>3, <1>4, <2>4 DEF InHand, Carried, Holds
  <1> HIDE DEF busy, new
  <1>9. \A v \in voices' : Settled(notes', v) \/ Waiting(cands', v) \/ InHand(job', v)
    BY <1>1, <1>5, <1>8 DEF Agreement
  <1>10. ASSUME NEW v \in voices', NEW w \in voices', v.by # w.by, Alike(v.text, w.text)
         PROVE  Settled(notes', v) \/ InHand(job', v) \/ InHand(job', w)
    BY <1>1, <1>5, <1>8, <1>10 DEF Agreement
  <1> QED BY <1>4, <1>9, <1>10 DEF Agreement

\* A curator that rests, or dies where nothing is lost, and what happens around it.
LEMMA AroundKeeps ==
  ASSUME NearTransitive, BrainOk, OneBusy(job), Agreement(voices, job, cands, notes), ~muffled',
         \/ \E k \in Curators : EmbedFails(k) \/ Finish(k) \/ Cut(k)
         \/ ClearPool \/ StartSession
         \/ \E i \in DOMAIN notes : RevokeNote(i)
         \/ \E t \in 1 .. memory.days : Pass(t)
         \/ UNCHANGED brainVars
  PROVE  Agreement(voices', job', cands', notes')
  <1>1. ASSUME NEW k \in Curators, Finish(k) \/ Cut(k) PROVE Agreement(voices', job', cands', notes')
    <2>1. /\ Move(k, Resting) /\ cands' = cands /\ notes' = notes /\ voices' = voices
          /\ job[k].pc # "resting"
          /\ \/ job[k].pc = "weigh" /\ job[k].groups = <<>>
             \/ job[k].pc = "spend" /\ Tail(job[k].groups) = <<>>
      BY <1>1 DEF Finish, Cut
    <2>2. DOMAIN <<>> = {}
      OBVIOUS
    <2>3. \A v : ~Carried(job[k], v)
      BY <2>1, <2>2 DEF Carried, HoldsIn, Agreed
    <2>4. JobKeeps(Resting, cands', notes')
      BY RestingHolds
    <2> QED BY <2>1, <2>3, <2>4, StepKeeps
  <1>2. ASSUME NEW k \in Curators, EmbedFails(k) PROVE FALSE
    BY <1>2 DEF EmbedFails
  <1>3. ASSUME NEW i \in DOMAIN notes, RevokeNote(i) PROVE FALSE
    BY <1>3 DEF RevokeNote
  <1>4. CASE ClearPool \/ StartSession \/ (\E t \in 1 .. memory.days : Pass(t)) \/ UNCHANGED brainVars
    <2>1. voices' = voices /\ job' = job /\ cands' = cands /\ notes' = notes
      BY <1>4 DEF ClearPool, StartSession, Pass, brainVars
    <2> QED BY <2>1
  <1> QED BY <1>1, <1>2, <1>3, <1>4

\* Curators take turns.
LEMMA OneBusyStays ==
  ASSUME ~Overlap, BrainOk, OneBusy(job), [BrainNext]_brainVars
  PROVE  OneBusy(job')
  <1>1. ASSUME NEW k \in Curators, \A j \in Curators \ {k} : job'[j] = job[j], job[k].pc # "resting"
        PROVE  OneBusy(job')
    BY <1>1 DEF OneBusy
  <1>2. ASSUME NEW k \in Curators, \E next : Move(k, next), job[k].pc # "resting"
        PROVE  OneBusy(job')
    <2>1. \A j \in Curators \ {k} : job'[j] = job[j]
      BY <1>2 DEF Move, BrainOk
    <2> QED BY <1>1, <1>2, <2>1
  <1>3. ASSUME NEW k \in Curators, NEW said, Collect(k, said) PROVE OneBusy(job')
    <2>1. \A j \in Curators \ {k} : job'[j] = job[j] /\ job[j].pc = "resting"
      BY <1>3 DEF Collect, Alone, BrainOk
    <2> QED BY <2>1 DEF OneBusy
  <1>4. ASSUME job' = job PROVE OneBusy(job')
    BY <1>4
  <1>5. ASSUME NEW k \in Curators,
               \/ DecayNotes(k) \/ (\E got : Fetch(k, got)) \/ Embed(k) \/ EmbedFails(k) \/ Weigh(k) \/ Finish(k)
               \/ Look(k) \/ Bump(k) \/ (\E accept : Ask(k, accept)) \/ Add(k) \/ Spend(k) \/ Cut(k)
        PROVE  OneBusy(job')
    <2>1. (\E next : Move(k, next)) /\ job[k].pc # "resting"
      BY <1>5 DEF DecayNotes, Fetch, Embed, EmbedFails, Weigh, Finish, Look, Bump, Ask, Add, Spend, Cut
    <2> QED BY <1>2, <2>1
  <1>6. CASE \/ \E k \in Curators, said \in memory.offers : Collect(k, said)
             \/ \E k \in Curators : DecayNotes(k)
             \/ \E k \in Curators : \E got \in SUBSET DOMAIN job[k].said : Fetch(k, got)
             \/ \E k \in Curators : Embed(k) \/ EmbedFails(k) \/ Weigh(k) \/ Finish(k) \/ Look(k) \/ Bump(k)
             \/ \E k \in Curators, accept \in BOOLEAN : Ask(k, accept)
             \/ \E k \in Curators : Add(k) \/ Spend(k) \/ Cut(k)
    BY <1>3, <1>5, <1>6
  <1>7. CASE ClearPool \/ StartSession \/ (\E i \in DOMAIN notes : RevokeNote(i))
             \/ (\E t \in 1 .. memory.days : Pass(t)) \/ UNCHANGED brainVars
    BY <1>4, <1>7 DEF ClearPool, StartSession, RevokeNote, Pass, brainVars
  <1> QED BY <1>6, <1>7 DEF BrainNext

LEMMA KeptStep ==
  ASSUME NamesResolve, ~Overlap, NearTransitive, BrainOk, Kept, [BrainNext]_brainVars
  PROVE  Kept'
  <1>1. OneBusy(job) /\ OneBusy(job')
    BY OneBusyStays DEF Kept
  <1>2. muffled => muffled'
    BY DEF BrainNext, Collect, DecayNotes, Fetch, Embed, EmbedFails, Weigh, Finish, Look, Bump, Ask, Add, Spend, Cut,
           ClearPool, StartSession, RevokeNote, Pass, brainVars
  <1>3. ASSUME ~muffled' PROVE Agreement(voices', job', cands', notes')
    <2>1. Agreement(voices, job, cands, notes)
      BY <1>2, <1>3 DEF Kept
    <2> QED BY <1>1, <1>3, <2>1, CollectKeeps, DecayKeeps, FetchKeeps, EmbedKeeps, WeighKeeps, LookKeeps, BumpKeeps,
               AskKeeps, AddKeeps, SpendKeeps, AroundKeeps DEF BrainNext
  <1> QED BY <1>1, <1>3 DEF Kept

LEMMA KeptStart == BrainInit => Kept
  <1> SUFFICES ASSUME BrainInit PROVE Kept
    OBVIOUS
  <1>1. voices = {} /\ \A k \in Curators : job[k] = Resting
    BY DEF BrainInit
  <1>2. Resting.pc = "resting"
    BY DEF Resting
  <1> QED BY <1>1, <1>2, RestingHolds DEF Kept, OneBusy, Agreement

\* AgreementIsKept: two providers that say alike are heard, in whatever reviews and in
\* whatever order they say it, where curators take turns, near is near all round and names
\* resolve, if nothing that the code may do to a proposal came between (curator.ts: runCurator).
THEOREM AgreementKept ==
  ASSUME NamesResolve, ~Overlap, NearTransitive
  PROVE  BrainSpec => []AgreementIsKept
  <1>1. Kept => AgreementIsKept
    <2> SUFFICES ASSUME Kept, ~muffled, \A k \in Curators : job[k].pc = "resting",
                        NEW v \in voices, NEW w \in voices, v.by # w.by, Alike(v.text, w.text)
                 PROVE  \E i \in DOMAIN notes : Linked(notes[i].text, v.text)
      BY DEF AgreementIsKept
    <2>1. \A u : ~InHand(job, u)
      BY DEF InHand, Carried, Agreed
    <2>2. Settled(notes, v)
      BY <2>1 DEF Kept, Agreement
    <2> QED BY <2>2, LinkedIsWide DEF Settled
  <1>2. BrainInit => BrainOk /\ Kept
    BY BrainStart, KeptStart
  <1>3. BrainOk /\ Kept /\ [BrainNext]_brainVars => BrainOk' /\ Kept'
    BY BrainStep, KeptStep
  <1> QED BY <1>1, <1>2, <1>3, PTL DEF BrainSpec

=============================================================================

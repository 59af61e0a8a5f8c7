------------------------------ MODULE Learning ------------------------------
(***************************************************************************)
(* What the gate learns from the agent's answers.  At each stop it reads   *)
(* the answers to the last report and books them: what a reviewer got      *)
(* wrong in the false-positive ledger (src/core/fp-ledger), who was right  *)
(* and who was wrong in the reputation (src/core/reputation), what was     *)
(* fixed in the lessons (src/core/agent-lessons).  After a review, what    *)
(* the ledger has made up its mind about gets a note in the brain          *)
(* (src/core/brain/fp-coupling.ts).                                        *)
(*                                                                         *)
(* Every write is a locked update of one file (FileLock), and the gate may *)
(* be killed between any two: the next stop reads the same answers again.  *)
(* Time is counted in half-lives of the reputation, 45 days.               *)
(***************************************************************************)
EXTENDS Naturals, Sequences, FiniteSets, FiniteSetsExt

CONSTANTS
    Sigs,          \* signatures of findings
    Configs,       \* the scenes to look at: which stores are enabled (`on`), the reports
                   \* a review may write (id -> finding), the answers an agent may give
                   \* (`words`), and the bounds of the exploration: reviews, answers to
                   \* each, time, sessions, and what people do by hand
    ActiveRuns, StickyRuns,              \* ACTIVE_RUNS, STICKY_RUNS
    ActiveSpan, StickySpan, ReapSpan,    \* ACTIVE_DAYS, STICKY_DAYS, 90 days
    Horizon,       \* PRUNE_HALF_LIVES
    Ttl,           \* agentLessons.ttlDays
    Windows,       \* moments at which the gate may be killed, besides the harmless ones
    None

\* Whom a finding names: its signature, and those of what it was merged from, each with
\* the provider that reported it.
Members == UNION {UNION {r[id].members : id \in DOMAIN r} : r \in UNION {c.reports : c \in Configs}}
Providers == {m[2] : m \in Members}

Rejects == [run : Nat \X Nat \X Nat, provider : Providers, at : Nat]
Entries ==
    [id : Nat, rejects : SUBSET Rejects, seen : Nat, stage : {"candidate", "active", "sticky"},
     pinned : BOOLEAN, link : Nat \cup {None}, clash : BOOLEAN]

ASSUME LearningAssumption ==
    /\ {ActiveRuns, StickyRuns, ActiveSpan, StickySpan, ReapSpan, Horizon, Ttl} \subseteq Nat
    /\ ActiveRuns <= StickyRuns /\ ActiveSpan <= StickySpan
    /\ Windows \subseteq {"recorded", "cleared"}
    /\ \A c \in Configs : c.rounds \in Nat
    /\ Members \subseteq Sigs \X Providers
    /\ None \notin Entries

VARIABLES
    config,   \* the scene, fixed
    st,       \* state.json: session_id, reputation_cycle_seq, iteration
    pending,  \* pending.json: the findings of the last report, by id
    dec,      \* decisions/<iter>.jsonl: the agent's answers, by iteration
    clock,
    gate,     \* where the gate is, and what is left of the step
    ledger,   \* known_fp.json
    rep,      \* reputation.json
    lessons,  \* agent-lessons.json: the occurrences of each lesson
    brain,    \* brain.json: the notes on known false positives
    hands,    \* what people may still do by hand
    round,    \* history: reviews recorded so far
    learnt,   \* history: the rounds each entry of the ledger was rejected in
    rated     \* history: how the last rating took each event

vars == <<config, st, pending, dec, clock, gate, ledger, rep, lessons, brain, hands, round, learnt, rated>>
stores == <<ledger, rep, lessons, brain, hands>>
history == <<round, learnt, rated>>

Idle == [pc |-> "agent", todo |-> {}, orphans |-> {}, note |-> None]

\* run_id: unique per session, cycle and iteration, the same whenever the round is
\* read again.
Run_NoCycle == <<st.session, st.iter>>
Run == <<st.session, st.cycle, st.iter>>

Init ==
    /\ config \in Configs
    /\ st = [session |-> 1, cycle |-> 0, iter |-> 0]
    /\ pending = <<>>
    /\ dec = [i \in 1 .. config.rounds |-> <<>>]
    /\ clock = 0
    /\ gate = Idle
    /\ ledger = [seq |-> 0, entry |-> [s \in Sigs |-> None]]
    /\ rep = [correct |-> {}, wrong |-> {}]
    /\ lessons = {}
    /\ brain = {}
    /\ hands = config.hands
    /\ round = 0 /\ learnt = {} /\ rated = <<>>

(***************************************************************************)
(* The answers.  "wrong" is a rejection that says the reviewer was wrong,  *)
(* "rejected" one that does not; "elsewhere" an acceptance that counts for *)
(* the reviewer, "neutral" one that does not; "invalid" a line that cannot *)
(* be read.                                                                *)
(***************************************************************************)

\* foldLastDecisions: the last valid line on a finding is the answer.
Answers_First(lines) ==
    {lines[i] : i \in {i \in DOMAIN lines :
        /\ lines[i].word # "invalid"
        /\ \A j \in DOMAIN lines : lines[j].id = lines[i].id /\ j < i => lines[j].word = "invalid"}}
Answers(lines) ==
    {lines[i] : i \in {i \in DOMAIN lines :
        /\ lines[i].word # "invalid"
        /\ \A j \in DOMAIN lines : lines[j].id = lines[i].id /\ j > i => lines[j].word = "invalid"}}

\* The answers at hand that are about a finding of the pending report.
AtHand == {l \in Answers(dec[st.iter]) : l.id \in DOMAIN pending}

Outcome(word) ==
    CASE word \in {"fixed", "elsewhere"} -> "correct"
      [] word = "wrong" -> "wrong"
      [] OTHER -> "none"

\* learnFromDecisions: what to book, one reject per signature and provider.  The two
\* findings lore adds to a report have no reviewer.
Rejections == UNION {pending[l.id].members : l \in {a \in AtHand : a.word = "wrong" /\ ~pending[a.id].lore}}

\* learnReputationFromDecisions.
Events ==
    UNION {{[eid |-> <<Run, l.id, key>>, outcome |-> Outcome(l.word)] : key \in pending[l.id].keys} :
              l \in {a \in AtHand : Outcome(a.word) # "none" /\ ~pending[a.id].lore}}

\* learnLessonsFromDecisions: findings with a rule that were fixed.
Mended == {[key |-> pending[l.id].rule, sig |-> pending[l.id].sig, run |-> Run] :
              l \in {a \in AtHand : a.word = "fixed" /\ pending[a.id].rule # None}}

(***************************************************************************)
(* FpLedgerStore.                                                          *)
(***************************************************************************)
Known(l) == {s \in Sigs : l.entry[s] # None}

Within(e, span) == {r \in e.rejects : clock - r.at <= span}
Runs(rs) == {r.run : r \in rs}
By(rs) == {r.provider : r \in rs}

\* recompute: a run counts once, however many reviewers it had.
Recompute(e) ==
    LET sticky == Within(e, StickySpan)
        active == Within(e, ActiveSpan)
    IN  CASE e.pinned -> "sticky"
          [] ~e.pinned /\ Cardinality(Runs(sticky)) >= StickyRuns /\ Cardinality(By(sticky)) >= 2 -> "sticky"
          [] OTHER -> IF Cardinality(Runs(active)) >= ActiveRuns /\ Cardinality(By(active)) >= 2
                      THEN "active" ELSE "candidate"

Higher(a, b) == IF "sticky" \in {a, b} THEN "sticky" ELSE IF "active" \in {a, b} THEN "active" ELSE "candidate"

\* The ids of entries that are gone are not used again.
NextId(l) == Max({l.seq} \cup {l.entry[s].id : s \in Known(l)}) + 1

Blank(id) == [id |-> id, rejects |-> {}, seen |-> clock, stage |-> "candidate", pinned |-> FALSE,
              link |-> None, clash |-> FALSE]

\* recordReject: at most one reject per run and provider; a new one may raise the
\* stage, never lower it.
RecordReject(l, s, p) ==
    LET e == IF s \in Known(l) THEN l.entry[s] ELSE Blank(NextId(l))
        dup == \E r \in e.rejects : r.run = Run /\ r.provider = p
        more == [e EXCEPT !.rejects = @ \cup {[run |-> Run, provider |-> p, at |-> clock]}]
        now == IF dup THEN e ELSE [more EXCEPT !.stage = Higher(@, Recompute(more))]
    IN  [seq |-> Max({l.seq, e.id}), entry |-> [l.entry EXCEPT ![s] = [now EXCEPT !.seen = clock]]]

\* decayPass: a candidate that was not seen for long is forgotten, whatever has lost
\* its evidence is a candidate again.
Decayed(e) == IF e.stage = "candidate" THEN e ELSE [e EXCEPT !.stage = Recompute(e)]
DecayPass(l) ==
    [l EXCEPT !.entry = [s \in Sigs |->
        IF s \notin Known(l) \/ (Decayed(l.entry[s]).stage = "candidate" /\ clock - l.entry[s].seen > ReapSpan)
        THEN None ELSE Decayed(l.entry[s])]]

(***************************************************************************)
(* ReputationStore.                                                        *)
(***************************************************************************)
Eids(set) == {x.eid : x \in set}
Prune(bucket) == {x \in bucket : clock - x.at <= Horizon}

\* record: an event that is rated again moves to the other side.
Rate(r, events) ==
    LET to(o) == {e.eid : e \in {x \in events : x.outcome = o}}
        put(o, other) == {x \in r[o] : x.eid \notin to(other)}
                           \cup {[eid |-> e, at |-> clock] : e \in to(o) \ Eids(r[o])}
    IN  [correct |-> Prune(put("correct", "wrong")), wrong |-> Prune(put("wrong", "correct"))]

(***************************************************************************)
(* AgentLessonsStore.                                                      *)
(***************************************************************************)

\* recordOccurrence: a run shows a finding once.
Occurred(ls, o) ==
    IF \E x \in ls : x.key = o.key /\ x.run = o.run /\ x.sig = o.sig THEN ls
    ELSE ls \cup {[key |-> o.key, sig |-> o.sig, run |-> o.run, at |-> clock]}

Fresh(ls) == {x \in ls : clock - x.at <= Ttl}

(***************************************************************************)
(* The agent and the people around it.                                     *)
(***************************************************************************)

\* The agent answers a finding of the report it was shown.
Answer ==
    /\ gate.pc = "agent"
    /\ st.iter >= 1
    /\ Len(dec[st.iter]) < config.lines
    /\ \E id \in DOMAIN pending, w \in config.words :
          dec' = [dec EXCEPT ![st.iter] = Append(@, [id |-> id, word |-> w, round |-> round, about |-> pending[id]])]
    /\ UNCHANGED <<config, st, pending, clock, gate, stores, history>>

Tick ==
    /\ gate.pc = "agent"
    /\ clock < config.clock
    /\ clock' = clock + 1
    /\ UNCHANGED <<config, st, pending, dec, gate, stores, history>>

\* `reviewgate fp pin`, `fp unpin` and `brain revoke`, at any time; the archive of the
\* brain takes a note as well.
ByHand(file) ==
    /\ hands > 0
    /\ hands' = hands - 1
    /\ UNCHANGED <<config, st, pending, dec, clock, gate, rep, lessons, file, history>>

Pin(s) ==
    /\ s \in Known(ledger) /\ ~ledger.entry[s].pinned
    /\ ledger' = [ledger EXCEPT !.entry[s].pinned = TRUE, !.entry[s].stage = "sticky"]
    /\ ByHand(brain)

Unpin(s) ==
    /\ s \in Known(ledger) /\ ledger.entry[s].pinned
    /\ ledger' = [ledger EXCEPT !.entry[s].pinned = FALSE,
                                !.entry[s].stage = Recompute([ledger.entry[s] EXCEPT !.pinned = FALSE])]
    /\ ByHand(brain)

Revoke(n) ==
    /\ brain' = brain \ {n}
    /\ ByHand(ledger)

\* SessionStart.
NewSession ==
    /\ gate.pc = "agent"
    /\ st.session < config.sessions
    /\ st' = [session |-> st.session + 1, cycle |-> 0, iter |-> 0]
    /\ dec' = [i \in DOMAIN dec |-> <<>>]
    /\ UNCHANGED <<config, pending, clock, gate, stores, history>>

(***************************************************************************)
(* A stop.                                                                 *)
(***************************************************************************)
At(pc) == gate.pc = pc
Goto(pc) == gate' = [Idle EXCEPT !.pc = pc]
NextCycle == [st EXCEPT !.cycle = @ + 1, !.iter = 0]

\* absorbPriorDecisions books in three stores, in this order, if they are enabled.
Parts == <<"ledger", "rep", "lessons">>
Book(first) ==
    LET left == {i \in first .. 3 : Parts[i] \in config.on}
    IN  IF left = {} THEN [Idle EXCEPT !.pc = "judge"]
        ELSE [Idle EXCEPT !.pc = Parts[Min(left)],
                          !.todo = CASE Min(left) = 1 -> Rejections [] Min(left) = 2 -> {} [] Min(left) = 3 -> Mended]

\* Unless the cycle is fresh.
Stop ==
    /\ At("agent")
    /\ gate' = IF st.iter = 0 THEN [Idle EXCEPT !.pc = "judge"] ELSE Book(1)
    /\ UNCHANGED <<config, st, pending, dec, clock, stores, history>>

\* An escalated cycle ends with a commit or with new edits: the state is armed again
\* before its answers are wiped.
Rearm ==
    /\ At("agent")
    /\ st.iter >= 1
    /\ st' = NextCycle
    /\ Goto("rearmed")
    /\ UNCHANGED <<config, pending, dec, clock, stores, history>>

\* clearDecisions, after a re-arm and after a pass.
ClearDecisions ==
    /\ gate.pc \in {"rearmed", "passed"}
    /\ dec' = [i \in DOMAIN dec |-> <<>>]
    /\ Goto(IF At("rearmed") THEN "judge" ELSE "agent")
    /\ UNCHANGED <<config, st, pending, clock, stores, history>>

\* learnFromDecisions, one update of the ledger at a time.  The order does not matter:
\* no two are about the same signature and provider.
LearnOne ==
    /\ At("ledger")
    /\ \E t \in gate.todo :
          /\ ledger' = RecordReject(ledger, t[1], t[2])
          /\ learnt' = learnt \cup {[fp |-> ledger'.entry[t[1]].id, provider |-> t[2], round |-> round]}
          /\ gate' = [gate EXCEPT !.todo = @ \ {t}]
    /\ UNCHANGED <<config, st, pending, dec, clock, rep, lessons, brain, hands, round, rated>>

Decay ==
    /\ At("ledger") /\ gate.todo = {}
    /\ ledger' = DecayPass(ledger)
    /\ gate' = Book(2)
    /\ UNCHANGED <<config, st, pending, dec, clock, rep, lessons, brain, hands, history>>

\* One update of the reputation for all that was said.
RateAll ==
    /\ At("rep")
    /\ rep' = IF Events = {} THEN rep ELSE Rate(rep, Events)
    /\ rated' = [e \in Eids(Events) \cup DOMAIN rated |->
                    IF e \in Eids(Events) THEN (CHOOSE x \in Events : x.eid = e).outcome ELSE rated[e]]
    /\ gate' = Book(3)
    /\ UNCHANGED <<config, st, pending, dec, clock, ledger, lessons, brain, hands, round, learnt>>

TeachOne ==
    /\ At("lessons")
    /\ \E o \in gate.todo :
          /\ lessons' = Occurred(lessons, o)
          /\ gate' = [gate EXCEPT !.todo = @ \ {o}]
    /\ UNCHANGED <<config, st, pending, dec, clock, ledger, rep, brain, hands, history>>

Forget ==
    /\ At("lessons") /\ gate.todo = {}
    /\ lessons' = Fresh(lessons)
    /\ Goto("judge")
    /\ UNCHANGED <<config, st, pending, dec, clock, ledger, rep, brain, hands, history>>

\* A store that cannot be read or locked: the rest of its part is left out.
Fail ==
    /\ \E i \in DOMAIN Parts : At(Parts[i]) /\ gate' = Book(i + 1)
    /\ UNCHANGED <<config, st, pending, dec, clock, stores, history>>

\* The stop is answered without a review that counts: findings without an answer,
\* an escalation, a review put off.
Block ==
    /\ At("judge")
    /\ gate' = Idle
    /\ UNCHANGED <<config, st, pending, dec, clock, stores, history>>

\* writeReport.
WriteReport ==
    /\ At("judge")
    /\ round < config.rounds
    /\ \E r \in config.reports : pending' = r
    /\ Goto("reported")
    /\ UNCHANGED <<config, st, dec, clock, stores, history>>

(***************************************************************************)
(* pairActiveFpEntries.                                                    *)
(***************************************************************************)

\* What is to be paired, and the notes a killed run left without a link, are read once.
\* The order of the entries is free.
PairBegin ==
    /\ At("reported") /\ {"ledger", "brain"} \subseteq config.on
    /\ gate' = [Idle EXCEPT !.pc = "pair", !.orphans = brain,
                            !.todo = {s \in Known(ledger) : /\ ledger.entry[s].stage # "candidate"
                                                            /\ ledger.entry[s].link = None
                                                            /\ ~ledger.entry[s].clash}]
    /\ UNCHANGED <<config, st, pending, dec, clock, stores, history>>

Orphans(s) == {n \in gate.orphans : n.fp = ledger.entry[s].id}

\* The judge says that the brain holds the opposite: no note.
Contradict(s) ==
    /\ At("pair") /\ s \in gate.todo /\ gate.note = None
    /\ ledger' = [ledger EXCEPT !.entry[s].clash = TRUE]
    /\ gate' = [gate EXCEPT !.todo = @ \ {s}]
    /\ UNCHANGED <<config, st, pending, dec, clock, rep, lessons, brain, hands, history>>

\* The note is there already.
Relink(s) ==
    /\ At("pair") /\ s \in gate.todo /\ gate.note = None
    /\ \E n \in Orphans(s) : ledger' = [ledger EXCEPT !.entry[s].link = n.id]
    /\ gate' = [gate EXCEPT !.todo = @ \ {s}]
    /\ UNCHANGED <<config, st, pending, dec, clock, rep, lessons, brain, hands, history>>

\* addAllocatingId, then the link: two files, and a kill may come between.
AddNote(s) ==
    /\ At("pair") /\ s \in gate.todo /\ gate.note = None
    /\ Orphans(s) = {}
    /\ LET n == [id |-> Max({0} \cup {m.id : m \in brain}) + 1, fp |-> ledger.entry[s].id, about |-> s]
       IN  brain' = brain \cup {n} /\ gate' = [gate EXCEPT !.note = n]
    /\ UNCHANGED <<config, st, pending, dec, clock, ledger, rep, lessons, hands, history>>

LinkNote ==
    /\ At("pair") /\ gate.note # None
    /\ ledger' = [ledger EXCEPT !.entry[gate.note.about].link = gate.note.id]
    /\ gate' = [gate EXCEPT !.todo = @ \ {gate.note.about}, !.note = None]
    /\ UNCHANGED <<config, st, pending, dec, clock, rep, lessons, brain, hands, history>>

(***************************************************************************)
(* The result is recorded; pairing may have been cut short.                *)
(***************************************************************************)
Record(passed) ==
    /\ gate.pc \in {"reported", "pair"}
    /\ st' = IF passed THEN NextCycle ELSE [st EXCEPT !.iter = @ + 1]
    /\ round' = round + 1
    /\ Goto(IF passed THEN "passed" ELSE "agent")
    /\ UNCHANGED <<config, pending, dec, clock, stores, learnt, rated>>

\* The gate is killed.
Kill ==
    /\ ~At("agent")
    /\ gate.pc \in {"reported", "pair"} => "recorded" \in Windows
    /\ gate.pc \in {"rearmed", "passed"} => "cleared" \in Windows
    /\ gate' = Idle
    /\ UNCHANGED <<config, st, pending, dec, clock, stores, history>>

Next ==
    \/ Answer \/ Tick \/ NewSession \/ Stop \/ Rearm \/ ClearDecisions
    \/ LearnOne \/ Decay \/ RateAll \/ TeachOne \/ Forget \/ Fail
    \/ Block \/ WriteReport \/ PairBegin \/ LinkNote \/ Kill
    \/ \E s \in Sigs : Pin(s) \/ Unpin(s) \/ Contradict(s) \/ Relink(s) \/ AddNote(s)
    \/ \E n \in brain : Revoke(n)
    \/ \E passed \in BOOLEAN : Record(passed)

Spec == Init /\ [][Next]_vars

(***************************************************************************)
(* Properties.                                                             *)
(***************************************************************************)

TypeOK ==
    /\ st \in [session : 1 .. config.sessions, cycle : 0 .. config.rounds * 2, iter : 0 .. config.rounds]
    /\ gate.pc \in {"agent", "rearmed", "ledger", "rep", "lessons", "judge", "reported", "pair", "passed"}
    /\ clock \in 0 .. config.clock /\ round \in 0 .. config.rounds
    /\ \A s \in Known(ledger) : ledger.entry[s].stage \in {"candidate", "active", "sticky"}

\* What the agent says in the end about the finding it was shown.
Stands(l) ==
    LET lines == dec[st.iter]
    IN  \E i \in DOMAIN lines :
            /\ lines[i] = l /\ l.word # "invalid" /\ l.round = round
            /\ \A j \in DOMAIN lines : j > i /\ lines[j].id = l.id => lines[j].word = "invalid"

\* What a step books is an answer that stands.
BooksTheHeard ==
    LET standing == {l \in {dec[st.iter][i] : i \in DOMAIN dec[st.iter]} : Stands(l)}
        old(s) == IF s \in Known(ledger) THEN ledger.entry[s].rejects ELSE {}
    IN  /\ \A s \in Known(ledger') : \A r \in ledger'.entry[s].rejects \ old(s) :
              \E l \in standing : l.word = "wrong" /\ ~l.about.lore /\ <<s, r.provider>> \in l.about.members
        /\ \A o \in {"correct", "wrong"} : \A x \in rep'[o] \ rep[o] :
              \E l \in standing : /\ ~l.about.lore /\ x.eid[2] = l.id /\ x.eid[3] \in l.about.keys
                                  /\ l.word \in IF o = "wrong" THEN {"wrong"} ELSE {"fixed", "elsewhere"}
        /\ \A x \in lessons' \ lessons :
              \E l \in standing : l.word = "fixed" /\ l.about.sig = x.sig

\* Whatever is booked for or against a reviewer, or as a lesson, is an answer that
\* stands, to a finding of that very round: not one that was taken back before the
\* stop, not one to another round's finding of the same number, never a rejection of
\* what lore had to say (decision-fold.ts:11, fp-ledger/learn.ts:37 and 52).
BookedIsHeard == [][st.iter >= 1 => BooksTheHeard]_vars

\* A round in which a provider was found wrong about a signature counts once in the
\* ledger: not again when it is read again, after a kill or another stop, nor through
\* two members of one finding, and not less because another cycle had a round of the
\* same number (fp-ledger/store.ts:164, fp-ledger/learn.ts:83).
OneVotePerRound ==
    \A s \in Known(ledger) :
        LET e == ledger.entry[s]
        IN  \A p \in By(e.rejects) \cup {l.provider : l \in {l \in learnt : l.fp = e.id}} :
                Cardinality({r \in e.rejects : r.provider = p})
                    = Cardinality({l \in learnt : l.fp = e.id /\ l.provider = p})

\* The reputation holds each event on the side the last rating put it, however often
\* an answer flips between the stops of a round (reputation/store.ts:115).
LastWordCounts == \A o \in {"correct", "wrong"} : \A x \in rep[o] : rated[x.eid] = o

=============================================================================

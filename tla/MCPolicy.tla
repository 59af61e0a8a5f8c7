------------------------------ MODULE MCPolicy ------------------------------
\* Measuring the policy: five small benchmarks, or two calls of bench policy and
\* two of stats policy on one attempt, or a run of the rig over two turns, or five
\* families of measurements that are classified.
EXTENDS Bench, Publication, Rig, Classify, TLC

CONSTANTS b1, b2, p1, p2

TwoBenchers == {b1, b2}
TwoPublishers == {p1, p2}
Symmetry == Permutations(TwoBenchers) \cup Permutations(TwoPublishers)

CONSTANTS codex, gemini, x, y, n, err, v

Found(t) == [out |-> "return", ok |-> TRUE, text |-> t]
Failed(t) == [out |-> "return", ok |-> FALSE, text |-> t]
Thrown == [out |-> "throw", ok |-> FALSE, text |-> NoText]
Odd == [out |-> "odd", ok |-> FALSE, text |-> NoText]

Base ==
    [reviewers |-> <<codex>>, cases |-> <<[id |-> "c1", kind |-> "seeded"], [id |-> "c2", kind |-> "clean"]>>,
     repeats |-> 1, profiles |-> <<[early |-> FALSE], [early |-> FALSE]>>, critic |-> FALSE,
     attempts |-> 1, criticAttempts |-> 1, ceiling |-> 20, authoritative |-> TRUE, policy |-> FALSE,
     commits |-> FALSE, findings |-> {x, y}, replies |-> {Found(x), Found(n)}, criticReplies |-> {Found(v)}]

\* Two slots of one reviewer, which fail and are asked again.
Twins == [Base EXCEPT !.reviewers = <<codex, codex>>, !.attempts = 2, !.replies = {Found(x), Found(y), Failed(err)}]

\* Two reviewers and a critic, whose input an ablation may change.
Judged == [Base EXCEPT !.reviewers = <<codex, gemini>>, !.critic = TRUE, !.criticAttempts = 2,
             !.profiles = <<[early |-> FALSE], [early |-> FALSE], [early |-> TRUE]>>,
             !.replies = {Found(x), Found(n), Thrown}, !.criticReplies = {Found(v), Failed(err), Thrown}]

\* The same, and no ablation that reaches the critic.
Shadowed == [Judged EXCEPT !.profiles = <<[early |-> FALSE], [early |-> FALSE], [early |-> FALSE]>>,
               !.replies = {Found(x), Found(y), Found(n)}]

\* A policy measurement: repeats, retries, everything that closes or does not.
Measured == [Base EXCEPT !.repeats = 2, !.attempts = 2, !.policy = TRUE, !.critic = TRUE, !.commits = TRUE,
               !.replies = {Found(x), Found(n), Failed(NoText), Odd}]

\* A ceiling that is too low.
Capped == [Base EXCEPT !.reviewers = <<codex, gemini>>, !.attempts = 2, !.ceiling = 6, !.authoritative = FALSE,
             !.critic = TRUE, !.criticAttempts = 2,
             !.replies = {Found(x), Failed(err)}, !.criticReplies = {Found(v), Failed(err)}]

AllBenches == {Twins, Judged, Shadowed, Measured, Capped}

BenchOff ==
    /\ bench = Twins /\ stage = [pc |-> "off", profile |-> 1, commit |-> 1, exit |-> 0]
    /\ calls = [a \in Agents |-> Unasked] /\ turn = 0 /\ budget = [used |-> 0, exceeded |-> FALSE]
    /\ capture = [entries |-> <<>>, mismatch |-> FALSE] /\ rows = <<>> /\ results = <<>> /\ head = 1
    /\ told = [p \in DOMAIN bench.profiles |-> {}]

PubOff ==
    /\ root = 0 /\ made = 0 /\ artifacts = {} /\ lock = None
    /\ files = [f \in Files |-> None]
    /\ world = [s \in Sources |-> Registered]
    /\ bencher = [b \in Benchers |-> [pc |-> "killed", exit |-> 0, root |-> 0]]
    /\ publisher = [p \in Publishers |-> [pc |-> "killed", exit |-> 0, view |-> NoView, staged |-> NoView,
                                          root |-> 0, next |-> 1, owned |-> {}]]
    /\ trouble = MaxTrouble

RigOff ==
    /\ driver = [pc |-> "off", turn |-> 0, unreviewed |-> 0, audit |-> {}, sink |-> {}, seen |-> {}, reports |-> {}]
    /\ live = [run |-> 1, cycle |-> 0, iter |-> 0, pending |-> NoReport, audit |-> {}, dirty |-> FALSE,
                escalated |-> FALSE, ledger |-> {}, outcomes |-> {}]
    /\ review = NoReview /\ sink = {} /\ tape = <<>> /\ manifest = [turns |-> <<>>, tape |-> <<>>, captures |-> FALSE]
    /\ altered = {} /\ harvested = [state |-> "none", counted |-> <<>>]
    /\ replay = [pc |-> "none", at |-> 0, branch |-> [b \in Sides |-> NoBranch]]
    /\ ran = {} /\ spent = [reviews |-> 0, kills |-> 0]

Both == {"p", "q"}

Decided(d) == [p \in Both |-> IF p = "p" THEN d ELSE "none"]

\* Two passes that overlap, measured together and apart, and two false positives.
Pruning ==
    [passes |-> Both, lane |-> [p \in Both |-> Stateless], group |-> [passes |-> Both, lane |-> Stateless],
     overlaps |-> [p \in Both |-> Both \ {p}], identities |-> {"i1", "i2"},
     where |-> [i \in {"i1", "i2"} |-> Stateless], kind |-> [i \in {"i1", "i2"} |-> "blocking-fp"],
     bases |-> {{}, 1 .. 3}, changes |-> {{}, {1, 2}, {3}},
     traces |-> {[p \in Both |-> IF p = "p" THEN t ELSE [i \in {"i1", "i2"} |-> "bound"]] :
                    t \in [{"i1", "i2"} -> {"none", "elsewhere", "bound"}]},
     enough |-> {[p \in Both |-> TRUE]}, dogfood |-> {Decided("none")}]

\* One of the errors is a missed label, which no trace can bind to a pass.
Missed == [Pruning EXCEPT !.kind["i2"] = "blocking-fn",
             !.traces = {[p \in Both |-> IF p = "p" THEN t ELSE [i \in {"i1", "i2"} |-> "elsewhere"]] :
                            t \in {[i1 |-> a, i2 |-> b] : a \in {"none", "bound"}, b \in {"none", "elsewhere"}}}]

\* A group of the stateful lane, each member with scenarios of its own.
Stateful == [Pruning EXCEPT !.lane = [p \in Both |-> "stateful-rig"], !.group.lane = "stateful-rig",
               !.where = [i \in {"i1", "i2"} |-> "stateful-rig"], !.bases = {{}, {1}}, !.changes = {{}, {1}},
               !.traces = {[p \in Both |-> [i \in {"i1", "i2"} |-> "none"]]},
               !.enough = {[p \in Both |-> enough] : enough \in BOOLEAN},
               !.dogfood = {Decided(d) : d \in {"none", "few-suppressed"}}]

\* A pass of the stateful lane in a group of the other one.
Mixed == [Pruning EXCEPT !.lane["p"] = "stateful-rig", !.where["i2"] = "stateful-rig"]

\* A third pass that overlaps with nobody, and whose trace is silent in places.
Third ==
    [Pruning EXCEPT !.passes = Both \cup {"r"}, !.lane = [p \in Both \cup {"r"} |-> Stateless],
       !.group.passes = Both \cup {"r"}, !.overlaps = [p \in Both \cup {"r"} |-> IF p = "r" THEN {} ELSE Both \ {p}],
       !.identities = {"i1"},
       !.traces = [Both \cup {"r"} -> [{"i1"} -> {"none", "bound"}]],
       !.enough = {[p \in Both \cup {"r"} |-> TRUE]},
       !.dogfood = {[p \in Both \cup {"r"} |-> d] : d \in {"none", "few", "enough-suppressed"}}]

AllStudies == {Pruning, Missed, Stateful, Mixed, Third}

ClassifyOff ==
    /\ study = {} /\ observed = {}
    /\ assembly = [pc |-> "off", class |-> [p \in Both |-> "none"]]

Init ==
    \/ BenchInit /\ PubOff /\ RigOff /\ ClassifyOff
    \/ BenchOff /\ PubInit /\ RigOff /\ ClassifyOff
    \/ BenchOff /\ PubOff /\ RigInit /\ ClassifyOff
    \/ BenchOff /\ PubOff /\ RigOff /\ ClassifyInit

Next ==
    \/ \E s \in Slots : OpenSlot(s) /\ UNCHANGED <<pubVars, rigVars, classifyVars>>
    \/ AskCritic /\ UNCHANGED <<pubVars, rigVars, classifyVars>>
    \/ \E a \in Agents : Capture(a) /\ UNCHANGED <<pubVars, rigVars, classifyVars>>
    \/ \E a \in Agents : Replay(a) /\ UNCHANGED <<pubVars, rigVars, classifyVars>>
    \/ CloseCase /\ UNCHANGED <<pubVars, rigVars, classifyVars>>
    \/ EndProfile /\ UNCHANGED <<pubVars, rigVars, classifyVars>>
    \/ Judge /\ UNCHANGED <<pubVars, rigVars, classifyVars>>
    \/ Commit /\ UNCHANGED <<pubVars, rigVars, classifyVars>>
    \/ Ended /\ UNCHANGED <<pubVars, rigVars, classifyVars>>
    \/ \E b \in Benchers : BReserve(b) /\ UNCHANGED <<benchVars, rigVars, classifyVars>>
    \/ \E b \in Benchers : BCaptured(b) /\ UNCHANGED <<benchVars, rigVars, classifyVars>>
    \/ \E b \in Benchers : BArtifacts(b) /\ UNCHANGED <<benchVars, rigVars, classifyVars>>
    \/ \E b \in Benchers : BVerify(b) /\ UNCHANGED <<benchVars, rigVars, classifyVars>>
    \/ \E b \in Benchers : BBundle(b) /\ UNCHANGED <<benchVars, rigVars, classifyVars>>
    \/ \E b \in Benchers : BBundled(b) /\ UNCHANGED <<benchVars, rigVars, classifyVars>>
    \/ \E b \in Benchers : KillBencher(b) /\ UNCHANGED <<benchVars, rigVars, classifyVars>>
    \/ \E p \in Publishers : ReadBench(p) /\ UNCHANGED <<benchVars, rigVars, classifyVars>>
    \/ \E p \in Publishers : ReadRig(p) /\ UNCHANGED <<benchVars, rigVars, classifyVars>>
    \/ \E p \in Publishers : ReadDogfood(p) /\ UNCHANGED <<benchVars, rigVars, classifyVars>>
    \/ \E p \in Publishers : Open(p) /\ UNCHANGED <<benchVars, rigVars, classifyVars>>
    \/ \E p \in Publishers : Lock(p) /\ UNCHANGED <<benchVars, rigVars, classifyVars>>
    \/ \E p \in Publishers : Check(p) /\ UNCHANGED <<benchVars, rigVars, classifyVars>>
    \/ \E p \in Publishers : Stage(p) /\ UNCHANGED <<benchVars, rigVars, classifyVars>>
    \/ \E p \in Publishers : Recheck(p) /\ UNCHANGED <<benchVars, rigVars, classifyVars>>
    \/ \E p \in Publishers : Install(p) /\ UNCHANGED <<benchVars, rigVars, classifyVars>>
    \/ \E p \in Publishers : Link(p) /\ UNCHANGED <<benchVars, rigVars, classifyVars>>
    \/ \E p \in Publishers : Linked(p) /\ UNCHANGED <<benchVars, rigVars, classifyVars>>
    \/ \E p \in Publishers : Verify(p) /\ UNCHANGED <<benchVars, rigVars, classifyVars>>
    \/ \E p \in Publishers : Mark(p) /\ UNCHANGED <<benchVars, rigVars, classifyVars>>
    \/ \E p \in Publishers : LinkMark(p) /\ UNCHANGED <<benchVars, rigVars, classifyVars>>
    \/ \E p \in Publishers : Marked(p) /\ UNCHANGED <<benchVars, rigVars, classifyVars>>
    \/ \E p \in Publishers : Unlock(p) /\ UNCHANGED <<benchVars, rigVars, classifyVars>>
    \/ \E p \in Publishers : Cleanup(p) /\ UNCHANGED <<benchVars, rigVars, classifyVars>>
    \/ \E p \in Publishers : CleanedUp(p) /\ UNCHANGED <<benchVars, rigVars, classifyVars>>
    \/ \E p \in Publishers : KillPublisher(p) /\ UNCHANGED <<benchVars, rigVars, classifyVars>>
    \/ \E p \in Publishers : Fail(p) /\ UNCHANGED <<benchVars, rigVars, classifyVars>>
    \/ \E s \in Sources : Edit(s) /\ UNCHANGED <<benchVars, rigVars, classifyVars>>
    \/ RemoveRoot /\ UNCHANGED <<benchVars, rigVars, classifyVars>>
    \/ BreakLock /\ UNCHANGED <<benchVars, rigVars, classifyVars>>
    \/ Idle /\ stage.pc = "off" /\ driver.pc = "off" /\ assembly.pc = "off" /\ UNCHANGED <<benchVars, rigVars, classifyVars>>
    \/ EditCode /\ UNCHANGED <<benchVars, pubVars, classifyVars>>
    \/ NewSession /\ UNCHANGED <<benchVars, pubVars, classifyVars>>
    \/ EscalateRun /\ UNCHANGED <<benchVars, pubVars, classifyVars>>
    \/ BlockStop /\ UNCHANGED <<benchVars, pubVars, classifyVars>>
    \/ BeginReview /\ UNCHANGED <<benchVars, pubVars, classifyVars>>
    \/ NobodyAnswers /\ UNCHANGED <<benchVars, pubVars, classifyVars>>
    \/ RunPolicy /\ UNCHANGED <<benchVars, pubVars, classifyVars>>
    \/ WriteReport /\ UNCHANGED <<benchVars, pubVars, classifyVars>>
    \/ CompleteReview /\ UNCHANGED <<benchVars, pubVars, classifyVars>>
    \/ TimeOutReview /\ UNCHANGED <<benchVars, pubVars, classifyVars>>
    \/ KillReview /\ UNCHANGED <<benchVars, pubVars, classifyVars>>
    \/ StartTurn /\ UNCHANGED <<benchVars, pubVars, classifyVars>>
    \/ Poll /\ UNCHANGED <<benchVars, pubVars, classifyVars>>
    \/ AgentExits /\ UNCHANGED <<benchVars, pubVars, classifyVars>>
    \/ RecordTurn /\ UNCHANGED <<benchVars, pubVars, classifyVars>>
    \/ BreakOff /\ UNCHANGED <<benchVars, pubVars, classifyVars>>
    \/ AlterArtifacts /\ UNCHANGED <<benchVars, pubVars, classifyVars>>
    \/ Harvest /\ UNCHANGED <<benchVars, pubVars, classifyVars>>
    \/ StartReplay /\ UNCHANGED <<benchVars, pubVars, classifyVars>>
    \/ ReplayOne /\ UNCHANGED <<benchVars, pubVars, classifyVars>>
    \/ RigRests /\ UNCHANGED <<benchVars, pubVars, classifyVars>>
    \/ ClassifyNext /\ UNCHANGED <<benchVars, pubVars, rigVars>>

Spec == Init /\ [][Next]_<<benchVars, pubVars, rigVars, classifyVars>>
=============================================================================

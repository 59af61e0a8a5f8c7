------------------------------ MODULE Classify ------------------------------
(* What a policy measurement says of each pass: from the observed errors of the
   baseline, of the profile without the pass and of the profile without its
   whole group, src/stats/policy/assemble.ts attributes identities to passes and
   src/stats/policy/classify.ts turns them into retain, harmful-candidate,
   delete-candidate or inconclusive.
   An error's identity is a blocking false positive or a missed label of one
   case (Bench) or of one turn of a scenario (Rig); each is given a case of its
   own.  Authority, bindings and ordering of the artifacts are taken as given:
   what fails them is refused before anything is classified.  Of a pass in the
   stateful lane only that lane is looked at; a protection by the catalog names
   the veto and changes no class, so it is left out; the thresholds on cases,
   signatures and turns, and those on dispositions and runs, are inputs. *)
EXTENDS Integers, FiniteSets, FiniteSetsExt

CONSTANTS
    Studies   \* the measurements: passes, their lanes, overlaps and group, the
              \* identities, and the observations each of them may hold

ASSUME ClassifyAssumption == \A s \in Studies : s.group.passes \subseteq s.passes

Stateless == "stateless-bench"

VARIABLES
    study,      \* the measurement looked at
    observed,   \* per pass and identity: the repeats with the error in the baseline,
                \* without the pass, without the group; what the baseline's trace says;
                \* whether the opportunities suffice; the decisions of past runs
    assembly    \* whether it was assembled, and the class of each pass

classifyVars == <<study, observed, assembly>>

Members(p) == IF p \in study.group.passes THEN study.group.passes ELSE {}

\* The repeats of a case, or the turn of a scenario, in which an error may be seen.
Units(lane) == IF lane = Stateless THEN 1 .. 3 ELSE {1}

\* The errors of one identity with and without: the repeats in `changed' differ.
Pair(i, lane, base, changed) ==
    LET units == Units(study.where[i])
        without == base \cap units
        flip == IF study.where[i] = lane THEN changed \cap units ELSE {}
    IN [base |-> without, ablated |-> (without \ flip) \cup (flip \ without)]

\* Every member of a group measured on the Bench is compared in the same runs;
\* on the Rig each member has scenarios of its own.
PerPass(values) ==
    LET each == [study.identities -> values]
    IN IF study.group.lane = Stateless THEN {[p \in study.passes |-> f] : f \in each}
                                   ELSE [study.passes -> each]

ClassifyInit ==
    /\ study \in Studies
    /\ \E base \in PerPass(study.bases), together \in PerPass(study.changes),
          alone \in [study.passes -> [study.identities -> study.changes]],
          trace \in study.traces, enough \in study.enough, dogfood \in study.dogfood :
          observed = [single |-> [p \in study.passes |-> [i \in study.identities |->
                                     Pair(i, study.lane[p], base[p][i], alone[p][i])]],
                      joint |-> [p \in study.passes |-> [i \in study.identities |->
                                     Pair(i, study.group.lane, base[p][i], together[p][i])]],
                      trace |-> trace, enough |-> enough, dogfood |-> dogfood]
    /\ assembly = [pc |-> "measured", class |-> [p \in study.passes |-> "none"]]

(* ---------------------------- Directions ---------------------------- *)

\* An error that only the ablated side shows is one the pass had prevented.
Direction(o) == [worsened |-> Cardinality(o.ablated \ o.base), improved |-> Cardinality(o.base \ o.ablated)]

IsStableWorsening(lane, d) == d.improved = 0 /\ d.worsened >= (IF lane = Stateless THEN 2 ELSE 1)

Alone(p, i) == Direction(observed.single[p][i])
AloneWorse(p, i) == IsStableWorsening(study.lane[p], Alone(p, i))
Together(p, i) == Direction(observed.joint[p][i])
TogetherWorse(p, i) == IsStableWorsening(study.group.lane, Together(p, i))

\* What the baseline's trace says of a pass and the case of an identity: the pass
\* had no opportunity in it, one elsewhere in the case, or one on the finding.
Carries(p, i) == observed.trace[p][i] # "none"
TraceBound(p, i) ==
    study.group.lane = Stateless /\ study.kind[i] = "blocking-fp" /\ observed.trace[p][i] = "bound"

\* A case in which nobody had an opportunity must read the same on both sides.
Mismatch ==
    \E i \in study.identities :
        \/ \E p \in study.passes :
              study.lane[p] = Stateless /\ ~Carries(p, i) /\ Alone(p, i) # [worsened |-> 0, improved |-> 0]
        \/ /\ study.group.lane = Stateless /\ \A p \in study.group.passes : ~Carries(p, i)
           /\ \E p \in study.group.passes : Together(p, i) # [worsened |-> 0, improved |-> 0]

(* ---------------------------- Aggregates ---------------------------- *)

Net(d) == d.worsened - d.improved

\* The errors the ablation adds, and the true positives it adds: a label is found or missed.
ErrorReduction(p) == MapThenSumSet(LAMBDA i : Net(Alone(p, i)), study.identities)
PositivesAdded(p) ==
    MapThenSumSet(LAMBDA i : IF study.kind[i] = "blocking-fn" THEN - Net(Alone(p, i)) ELSE 0, study.identities)

AggregateBenefit(p) == ErrorReduction(p) > 0
AggregateHarm(p) == ErrorReduction(p) < 0 \/ PositivesAdded(p) > 0

\* The sign of one repeat: its mean effect over the cases.
InRepeat(o, r) == IF r \in o.ablated \ o.base THEN 1 ELSE IF r \in o.base \ o.ablated THEN -1 ELSE 0
RepeatEffect(p, r) == MapThenSumSet(LAMBDA i : InRepeat(observed.single[p][i], r), study.identities)
StableDirection(p) ==
    LET positive == {r \in 1 .. 3 : RepeatEffect(p, r) > 0}
        negative == {r \in 1 .. 3 : RepeatEffect(p, r) < 0}
    IN \/ Cardinality(positive) >= 2 /\ negative = {}
       \/ Cardinality(negative) >= 2 /\ positive = {}
       \/ positive = {} /\ negative = {}

Sufficient(p) == observed.enough[p] /\ (study.lane[p] = Stateless => StableDirection(p))

(* ---------------------------- Attribution ---------------------------- *)

\* Losses that the pass alone and its group both show: the unique contributions.
Direct(p) == IF Members(p) = {} THEN {} ELSE {i \in study.identities : AloneWorse(p, i) /\ TogetherWorse(p, i)}

\* Phase one: kept for what they alone contribute, whatever else is known of them.
Retained == {p \in study.passes : Direct(p) # {}}

\* Who keeps an identity that the group loses and the pass alone does not.
Covers(p, i) ==
    IF i \in Direct(p) THEN {}
    ELSE {c \in study.overlaps[p] \cap Retained : Members(c) = Members(p) /\ AloneWorse(c, i)}

Reproduced(p) ==
    IF Members(p) = {} THEN {}
    ELSE {i \in study.identities :
             TogetherWorse(p, i) /\ ~AloneWorse(p, i) /\ TraceBound(p, i) /\ Covers(p, i) # {}}

Benefits(p) == Direct(p) \cup Reproduced(p)

\* Errors that only the baseline shows: the pass made them.
Harms(p) ==
    {i \in study.identities :
        /\ Alone(p, i).worsened = 0
        /\ Alone(p, i).improved >= (IF study.lane[p] = Stateless THEN 2 ELSE 1)}

(* ---------------------------- Interactions ---------------------------- *)

\* On the Bench the members share one comparison; on the Rig their events add up.
Compared == IF study.group.lane = Stateless THEN {CHOOSE p \in study.group.passes : TRUE} ELSE study.group.passes

HarmfulOutcomes == {i \in study.identities : \E p \in Compared : Together(p, i).worsened > 0}

GroupHarm ==
    \/ MapThenSumSet(LAMBDA p : MapThenSumSet(LAMBDA i : Net(Together(p, i)), study.identities), Compared) > 0
    \/ MapThenSumSet(LAMBDA p : MapThenSumSet(LAMBDA i :
          IF study.kind[i] = "blocking-fn" THEN Net(Together(p, i)) ELSE 0, study.identities), Compared) > 0

\* Every identity the group loses is kept by somebody else who is kept.
CausallyClosed(p) ==
    /\ HarmfulOutcomes # {}
    /\ \A i \in HarmfulOutcomes : i \in Benefits(p) /\ \E c \in Covers(p, i) : c # p

InteractionHarm_Net(p) == Members(p) # {} /\ GroupHarm /\ ~CausallyClosed(p)
InteractionHarm(p) == Members(p) # {} /\ (GroupHarm \/ HarmfulOutcomes # {}) /\ ~CausallyClosed(p)

(* ---------------------------- Classes ---------------------------- *)

SuppressedTp(p) == observed.dogfood[p] \in {"few-suppressed", "enough-suppressed"}

Incomplete(p) ==
    \/ AggregateHarm(p) /\ Harms(p) = {}
    \/ AggregateBenefit(p) /\ Benefits(p) = {} /\ Harms(p) = {}
    \/ Cardinality(Harms(p)) = 1 /\ ~SuppressedTp(p)

DogfoodOnly(p) == observed.dogfood[p] \in {"few", "few-suppressed"}

Covered(p) == \A i \in Benefits(p) : Covers(p, i) # {}

Class(p) ==
    IF p \in Retained THEN "retain"
    ELSE IF Cardinality(Harms(p)) >= 2 \/ (Cardinality(Harms(p)) = 1 /\ SuppressedTp(p))
         THEN "harmful-candidate"
    ELSE IF /\ ~Incomplete(p) /\ ~DogfoodOnly(p) /\ Sufficient(p)
            /\ Covered(p) /\ ~InteractionHarm(p)
         THEN "delete-candidate"
    ELSE "inconclusive"

\* What the schema derives again from the events before it takes a measurement: who
\* is said to benefit, and that whoever is said to cover contributes the same and is kept.
Attributed(p) ==
    /\ \A i \in Benefits(p) :
          /\ TogetherWorse(p, i)
          /\ IF Covers(p, i) = {} THEN AloneWorse(p, i) ELSE ~AloneWorse(p, i)
          /\ \A c \in Covers(p, i) : c \in study.overlaps[p] /\ i \in Direct(c) /\ Class(c) = "retain"
    /\ Members(p) # {} =>
          \A i \in study.identities : AloneWorse(p, i) /\ TogetherWorse(p, i) => i \in Benefits(p)

\* A unique contribution is a benefit that nobody covers.
Contributed(p) == \A i \in Direct(p) : i \in Benefits(p) /\ Covers(p, i) = {}

\* assemblePolicyMeasurement: refused, or every pass has its class.
Assemble ==
    /\ assembly.pc = "measured"
    /\ assembly' = IF Mismatch \/ \E p \in study.passes : ~Attributed(p) \/ ~Contributed(p)
                   THEN [assembly EXCEPT !.pc = "refused"]
                   ELSE [pc |-> "assembled", class |-> [p \in study.passes |-> Class(p)]]
    /\ UNCHANGED <<study, observed>>

Told == assembly.pc \in {"refused", "assembled"} /\ UNCHANGED classifyVars

ClassifyNext == Assemble \/ Told
ClassifySpec == ClassifyInit /\ [][ClassifyNext]_classifyVars

(* ---------------------------- Properties ---------------------------- *)

\* Deleting every candidate at once loses nothing that the measurement saw the group
\* lose: whatever error appeared in any repeat without the group of a candidate, some
\* pass that stays was seen to prevent it on its own, whether or not the ablation
\* brought improvements that outweigh it.
NothingIsLost ==
    assembly.pc = "assembled" =>
        \A p \in study.group.passes, i \in study.identities, m \in study.group.passes :
            assembly.class[p] = "delete-candidate" /\ Together(m, i).worsened > 0 =>
                \E c \in study.passes : assembly.class[c] = "retain" /\ AloneWorse(c, i)
=============================================================================

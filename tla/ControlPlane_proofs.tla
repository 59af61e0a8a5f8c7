------------------------ MODULE ControlPlane_proofs ------------------------
(***************************************************************************)
(* What holds of the policy in force for every set of calls, sources,      *)
(* policies and versions of the program.                                   *)
(***************************************************************************)
EXTENDS ControlPlane, TLAPS

(* A candidate is invalid if and only if it did not load. *)
Classed(p) == p # None => (p.class = "invalid" <=> p.effective = Invalid)

IsCandidate(p) == p \in Candidates \cup {None} /\ Classed(p)
IsState(s) == s \in States \cup {None} /\ (s # None => Classed(s.pending))

(* What a call remembers where it is. *)
Remembers(k) ==
  /\ k.pc \in {"approved", "first", "adopt", "bootstrap", "load", "clear", "persist", "create"}
       => k.source # None
  /\ k.pc \in {"adopt", "load", "clear", "persist"} => k.approved # None
  /\ k.pc \in {"adopt", "probe", "review", "finalize", "settle", "recheck", "approve"}
       => k.policy # None
  /\ k.pc \in {"persist", "finalize", "settle", "recheck", "approve"} => k.change # None
  /\ k.pc \in {"finalize", "settle", "recheck", "approve"} => k.change.effective # Invalid
  /\ k.pc \in {"shown", "create", "recheck", "approve"} => k.shown # None
  /\ k.kind = "approve" => k.shown # None
  /\ IsCandidate(k.change) /\ IsState(k.approved)

Good == {k \in Records : Remembers(k)}

TInv == TypeOK /\ IsState(lkg) /\ call \in [Calls -> Good]

-----------------------------------------------------------------------------
(* Policies, candidates and states. *)

(* None is no value of any other kind, and Invalid is no policy. *)
LEMMA Types ==
  /\ None \notin Policy /\ None \notin Sources /\ None \notin Calls /\ None # Invalid
  /\ Invalid \notin Policy
  /\ None \notin Candidates /\ None \notin States
BY ControlPlaneAssumption

(* What the program makes of a configuration is a policy if it loads. *)
LEMMA ReadIsPolicy ==
  ASSUME NEW v \in 1..MaxVersion, NEW s \in Sources
  PROVE  /\ Effective[v][s] \in Policy \cup {Invalid}
         /\ Loads(Effective[v][s]) => Effective[v][s] \in Policy
BY ControlPlaneAssumption DEF Loads

(* What Candidate returns: neither a reviewed candidate nor a wrong class. *)
LEMMA CandidateType ==
  ASSUME NEW s \in Sources, NEW e \in Policy \cup {Invalid}, NEW a
  PROVE  /\ Candidate(s, e, a) \in Candidates
         /\ IsCandidate(Candidate(s, e, a))
         /\ Candidate(s, e, a).source = s
         /\ Candidate(s, e, a).effective = e
         /\ ~Candidate(s, e, a).reviewed
         /\ Candidate(s, e, a).class = IF e = Invalid THEN "invalid" ELSE Classify(a, e)
<1>1. Classify(a, e) \in {"equivalent", "strengthening", "approval-required"}
  BY DEF Classify
<1>2. Candidate(s, e, a) \in Candidates
  BY <1>1, Types DEF Candidate, Candidates
<1> QED BY <1>1, <1>2, Types DEF Candidate, IsCandidate, Classed

(* What BaseState returns. *)
LEMMA BaseStateType ==
  ASSUME NEW s \in Sources, NEW e \in Policy
  PROVE  /\ BaseState(s, e) \in States /\ IsState(BaseState(s, e))
         /\ BaseState(s, e).source = s /\ BaseState(s, e).config = e
         /\ BaseState(s, e).pending = None
BY DEF BaseState, States, IsState, Classed

(* A state with another candidate. *)
LEMMA PendingType ==
  ASSUME NEW s \in States, NEW p, IsCandidate(p)
  PROVE  IsState([s EXCEPT !.pending = p])
BY DEF States, IsState, IsCandidate

-----------------------------------------------------------------------------
(* Calls. *)

(* A call that does not run remembers what it has to: nothing. *)
LEMMA IdleIsGood == Idle \in Good
BY ControlPlaneAssumption
   DEF Idle, Good, Records, Kinds, Places, Remembers, IsCandidate, IsState, Classed

(* A human that has been shown a policy. *)
LEMMA ShownIsGood ==
  ASSUME NEW v \in 1..MaxVersion, NEW e \in Policy
  PROVE  [Idle EXCEPT !.kind = "approve", !.pc = "shown", !.ver = v, !.shown = e] \in Good
<1> DEFINE k == [Idle EXCEPT !.kind = "approve", !.pc = "shown", !.ver = v, !.shown = e]
<1>1. /\ k.kind = "approve" /\ k.pc = "shown" /\ k.shown = e
      /\ k.change = None /\ k.approved = None
  BY DEF Idle
<1>2. k \in Records
  BY IdleIsGood DEF Good, Records, Kinds, Places
<1>3. Remembers(k)
  BY <1>1, Types DEF Remembers, IsCandidate, IsState, Classed
<1> QED BY <1>2, <1>3 DEF Good

(* A call that is set to a record with its types leaves all with theirs. *)
LEMMA SetIsGood ==
  ASSUME NEW c \in Calls, call \in [Calls -> Good], NEW k \in Good, Set(c, k)
  PROVE  call' \in [Calls -> Good]
BY DEF Set

(* A call that ends. *)
LEMMA EndIsGood ==
  ASSUME NEW c \in Calls, TInv, End(c)
  PROVE  call' \in [Calls -> Good] /\ gate' \in Calls \cup {None}
BY IdleIsGood DEF End, Set, Release, TInv, TypeOK

(* A call that goes on to record an invalid candidate. *)
LEMMA FailsIsGood ==
  ASSUME NEW c \in Calls, TInv, call[c].pc \in {"clear", "persist"}, Fails(c)
  PROVE  call' \in [Calls -> Good]
<1> DEFINE k == call[c]
           p == Candidate(k.source, Invalid, None)
           next == [k EXCEPT !.change = p, !.pc = "persist"]
<1>1. k \in Good /\ k.source \in Sources
  BY DEF TInv, Good, Records, Remembers
<1>2. p \in Candidates /\ IsCandidate(p) /\ p # None
  BY <1>1, CandidateType, Types
<1> HIDE DEF p
<1>3. next \in Records
  BY <1>1, <1>2 DEF Good, Records, Places
<1>4. next \in Good
  BY <1>1, <1>2, <1>3 DEF Good, Remembers, Records
<1> QED BY <1>4, SetIsGood DEF Fails, TInv, p

(* Where a resolution leads. *)
LEMMA ResolvedIsGood ==
  ASSUME NEW c \in Calls, TInv, NEW p, IsCandidate(p), NEW policy \in Policy,
         Resolved(c, p, policy)
  PROVE  call' \in [Calls -> Good] /\ gate' \in Calls \cup {None}
<1> DEFINE k == [call[c] EXCEPT !.source = None, !.approved = None, !.change = p,
                                !.policy = policy]
<1> call[c] \in Good /\ gate \in Calls \cup {None} /\ call \in [Calls -> Good]
  BY DEF TInv, TypeOK
<1>1. CASE k.kind = "stop" /\ Set(c, [k EXCEPT !.pc = "probe"]) /\ UNCHANGED gate
  <2>1. [k EXCEPT !.pc = "probe"] \in Good
    BY Types DEF Good, Records, Places, Remembers, IsCandidate, IsState
  <2> QED BY <1>1, <2>1, SetIsGood
<1>2. CASE /\ k.kind = "show" /\ Approvable(p)
           /\ Set(c, [Idle EXCEPT !.kind = "approve", !.pc = "shown", !.ver = k.ver,
                                  !.shown = p.effective])
           /\ UNCHANGED gate
  <2>1. p.effective \in Policy /\ k.ver \in 1..MaxVersion
    BY <1>2, Types DEF Approvable, IsCandidate, Candidates, Classed, Good, Records
  <2>2. [Idle EXCEPT !.kind = "approve", !.pc = "shown", !.ver = k.ver, !.shown = p.effective]
           \in Good
    BY <2>1, ShownIsGood
  <2> QED BY <1>2, <2>2, SetIsGood
<1>3. CASE k.kind = "approve" /\ Confirmed(p, k.shown) /\ Set(c, [k EXCEPT !.pc = "recheck"])
           /\ UNCHANGED gate
  <2>1. [k EXCEPT !.pc = "recheck"] \in Good
    BY <1>3, Types DEF Good, Records, Places, Remembers, IsCandidate, IsState, Confirmed, Classed
  <2> QED BY <1>3, <2>1, SetIsGood
<1>4. CASE End(c)
  BY <1>4, EndIsGood
<1> QED BY <1>1, <1>2, <1>3, <1>4 DEF Resolved

-----------------------------------------------------------------------------
(* Every step keeps the types. *)

(* What the parts of the invariant are for a call at work. *)
LEMMA TypeFacts ==
  ASSUME TInv, NEW c \in Calls
  PROVE  /\ call[c] \in Good /\ call[c] \in Records /\ Remembers(call[c])
         /\ src \in Sources /\ call[c].ver \in 1..MaxVersion
         /\ Read(c) \in Policy \cup {Invalid}
         /\ Loads(Read(c)) => Read(c) \in Policy
         /\ lkg # None => lkg \in States
<1>1. /\ call[c] \in Good /\ call[c] \in Records /\ Remembers(call[c])
      /\ src \in Sources /\ call[c].ver \in 1..MaxVersion
      /\ lkg # None => lkg \in States
  BY DEF TInv, TypeOK, Good, Records
<1> QED BY <1>1, ReadIsPolicy DEF Read

(* The parts that a step which only moves a call leaves alone. *)
LEMMA MoveKeepsTypes ==
  ASSUME TInv, UNCHANGED <<world, lkg, ghosts>>, call' \in [Calls -> Good],
         gate' \in Calls \cup {None}
  PROVE  TInv'
BY DEF TInv, TypeOK, world, ghosts, IsState, Classed, Good

(* The parts that a step on the state leaves alone. *)
LEMMA WriteKeepsTypes ==
  ASSUME TInv, UNCHANGED <<world, passed>>, call' \in [Calls -> Good],
         gate' \in Calls \cup {None}, IsState(lkg'), vouched' \in Policy \cup {None},
         loud' \in Nat
  PROVE  TInv'
BY DEF TInv, TypeOK, world, IsState, Classed, Good

(* A resolution: a policy in force is loaded before it is written. *)
LEMMA ResolveKeepsTypes ==
  ASSUME TInv, NEW c \in Calls, Resolve(c)
  PROVE  TInv'
<1> DEFINE k == call[c]
<1>0. /\ call \in [Calls -> Good] /\ gate \in Calls \cup {None} /\ IsState(lkg)
      /\ vouched \in Policy \cup {None} /\ loud \in Nat /\ main \in Policy \cup {None}
  BY DEF TInv, TypeOK
<1>1. CASE Inspect(c)
  <2>1. [k EXCEPT !.source = src, !.pc = "approved"] \in Good
    BY <1>1, TypeFacts, Types DEF Inspect, At, Good, Records, Places, Remembers
  <2> QED BY <1>0, <1>1, <2>1, SetIsGood, MoveKeepsTypes DEF Inspect
<1>2. CASE ReadApproved(c)
  <2>1. lkg # None => [k EXCEPT !.approved = lkg, !.pc = "load"] \in Good
    BY <1>0, <1>2, TypeFacts, Types DEF ReadApproved, At, Good, Records, Places, Remembers
  <2>2. [k EXCEPT !.pc = "first"] \in Good
    BY <1>0, <1>2, TypeFacts, Types DEF ReadApproved, At, Good, Records, Places, Remembers
  <2> QED BY <1>0, <1>2, <2>1, <2>2, SetIsGood, EndIsGood, MoveKeepsTypes DEF ReadApproved, Goto
<1>3. CASE FirstContact(c)
  <2>1. ASSUME Inherits(k.ver)
        PROVE  [k EXCEPT !.approved = BaseState(src, Read(c)), !.policy = main, !.pc = "adopt"]
                  \in Good
    <3>1. Read(c) \in Policy /\ main \in Policy /\ k.source # None /\ k.pc = "first"
      BY <1>0, <1>3, <2>1, TypeFacts, Types DEF Inherits, Read, FirstContact, At, Remembers
    <3>2. BaseState(src, Read(c)) \in States /\ IsState(BaseState(src, Read(c)))
      BY <3>1, TypeFacts, BaseStateType
    <3> DEFINE s == BaseState(src, Read(c))
    <3> HIDE DEF s
    <3> QED BY <3>1, <3>2, TypeFacts, Types DEF Good, Records, Places, Remembers, s
  <2>2. [k EXCEPT !.pc = "bootstrap"] \in Good
    BY <1>3, TypeFacts, Types DEF FirstContact, At, Good, Records, Places, Remembers
  <2> QED BY <1>0, <1>3, <2>1, <2>2, SetIsGood, EndIsGood, MoveKeepsTypes DEF FirstContact, Goto
<1>4. CASE Adopt(c)
  <2>1. k.approved \in States /\ IsState(k.approved) /\ k.policy \in Policy
    BY <1>4, TypeFacts DEF Adopt, At, Records, Remembers
  <2>2. lkg' \in States /\ IsState(lkg') /\ vouched' \in Policy \cup {None}
    BY <1>0, <1>4, <2>1, TypeFacts DEF Adopt
  <2>3. k.pc = "adopt"
    BY <1>4 DEF Adopt, At
  <2>4. [k EXCEPT !.approved = lkg', !.policy = None, !.pc = "load"] \in Good
    BY <2>2, <2>3, TypeFacts, Types DEF Good, Records, Places, Remembers
  <2> QED BY <1>0, <1>4, <2>2, <2>4, SetIsGood, WriteKeepsTypes DEF Adopt
<1>5. CASE Bootstrap(c)
  <2>1. CASE End(c) /\ UNCHANGED <<lkg, vouched>>
    BY <1>0, <1>5, <2>1, EndIsGood, WriteKeepsTypes DEF Bootstrap
  <2>2. CASE /\ lkg # None \/ Loads(Read(c))
             /\ lkg' = IF lkg = None THEN BaseState(src, Read(c)) ELSE lkg
             /\ vouched' = IF lkg = None /\ src \notin ProjectSources THEN Read(c) ELSE vouched
             /\ Set(c, [k EXCEPT !.approved = lkg', !.pc = "load"])
             /\ UNCHANGED gate
    <3>1. lkg' \in States /\ IsState(lkg') /\ vouched' \in Policy \cup {None}
      BY <1>0, <2>2, TypeFacts, BaseStateType
    <3>2. [k EXCEPT !.approved = lkg', !.pc = "load"] \in Good
      BY <1>5, <3>1, TypeFacts, Types DEF Bootstrap, At, Good, Records, Places, Remembers
    <3> QED BY <1>0, <1>5, <2>2, <3>1, <3>2, SetIsGood, WriteKeepsTypes DEF Bootstrap
  <2> QED BY <1>5, <2>1, <2>2 DEF Bootstrap
<1>6. CASE Load(c)
  <2> DEFINE found == IF src = k.source THEN Read(c) ELSE Invalid
             p == Candidate(k.source, found, k.approved.config)
  <2>1. k.pc = "load" /\ k.source \in Sources /\ k.approved \in States
    BY <1>6, TypeFacts DEF Load, At, Records, Remembers
  <2>2. p \in Candidates /\ IsCandidate(p) /\ p # None
    BY <2>1, TypeFacts, CandidateType, Types
  <2>3. Goto(c, "clear") \/ Set(c, [k EXCEPT !.change = p, !.pc = "persist"])
    BY <1>6 DEF Load
  <2> HIDE DEF p
  <2>4. [k EXCEPT !.change = p, !.pc = "persist"] \in Good
    BY <2>1, <2>2, TypeFacts, Types DEF Good, Records, Places, Remembers
  <2>5. [k EXCEPT !.pc = "clear"] \in Good
    BY <2>1, TypeFacts, Types DEF Good, Records, Places, Remembers
  <2> QED BY <1>0, <1>6, <2>3, <2>4, <2>5, SetIsGood, MoveKeepsTypes DEF Load, Goto
<1>7. CASE Clear(c)
  <2>1. k.pc = "clear" /\ k.approved \in States
    BY <1>7, TypeFacts DEF Clear, At, Records, Remembers
  <2>2. IsCandidate(None) /\ k.approved.config \in Policy /\ (lkg # None => lkg.config \in Policy)
    BY <2>1, TypeFacts DEF IsCandidate, Classed, States
  <2>3. lkg # None => IsState([lkg EXCEPT !.pending = None])
    BY <2>2, TypeFacts, PendingType
  <2>4. call' \in [Calls -> Good] /\ gate' \in Calls \cup {None}
    BY <1>0, <1>7, <2>1, <2>2, ResolvedIsGood, FailsIsGood DEF Clear
  <2>5. IsState(lkg') /\ loud' \in Nat
    BY <1>0, <1>7, <2>3 DEF Clear
  <2> QED BY <1>0, <1>7, <2>4, <2>5, WriteKeepsTypes DEF Clear
<1>8. CASE Persist(c)
  <2> DEFINE current == IF lkg = None THEN k.approved ELSE lkg
             next == Carried(k.change, current.pending)
  <2>1. /\ k.pc = "persist" /\ k.approved \in States /\ k.change \in Candidates
        /\ IsCandidate(k.change) /\ current \in States /\ IsState(current)
    BY <1>0, <1>8, TypeFacts DEF Persist, At, Records, Remembers
  <2>2. IsCandidate(next)
    BY <2>1 DEF IsCandidate, Carried, SameCandidate, States, Candidates, Classed
  <2>3. IsState([current EXCEPT !.pending = next])
    BY <2>1, <2>2, PendingType
  <2>4. k.approved.config \in Policy
    BY <2>1 DEF States
  <2>5. call' \in [Calls -> Good] /\ gate' \in Calls \cup {None}
    BY <1>0, <1>8, <2>1, <2>2, <2>4, ResolvedIsGood, FailsIsGood, EndIsGood DEF Persist
  <2>6. IsState(lkg') /\ loud' \in Nat
    BY <1>0, <1>8, <2>3 DEF Persist
  <2> QED BY <1>0, <1>8, <2>5, <2>6, WriteKeepsTypes DEF Persist
<1> QED BY <1>1, <1>2, <1>3, <1>4, <1>5, <1>6, <1>7, <1>8 DEF Resolve

(* A stop: what it settles is a candidate that loads. *)
LEMMA StopKeepsTypes ==
  ASSUME TInv, NEW c \in Calls, Stop(c)
  PROVE  TInv'
<1> DEFINE k == call[c]
           p == call[c].change
<1>0. /\ call \in [Calls -> Good] /\ gate \in Calls \cup {None} /\ IsState(lkg)
      /\ vouched \in Policy \cup {None} /\ loud \in Nat
      /\ passed \subseteq Policy \X Sources \X Policy
  BY DEF TInv, TypeOK
<1>1. CASE Skip(c) \/ Defer(c) \/ EndReview(c)
  BY <1>1, EndIsGood, MoveKeepsTypes DEF Skip, Defer, EndReview
<1>2. CASE TakeGate(c)
  <2>1. [k EXCEPT !.pc = "review"] \in Good
    BY <1>2, TypeFacts DEF TakeGate, At, Good, Records, Places, Remembers
  <2> QED BY <1>0, <1>2, <2>1, SetIsGood, MoveKeepsTypes DEF TakeGate, Goto
<1>3. CASE PassReview(c)
  <2>1. /\ k.pc = "review" /\ k.policy \in Policy /\ p \in Candidates
        /\ p.effective \in Policy
    BY <1>3, TypeFacts, Types
       DEF PassReview, At, Records, Remembers, IsCandidate, Classed, Candidates
  <2>2. [k EXCEPT !.pc = "finalize"] \in Good
    BY <1>3, <2>1, TypeFacts, Types DEF PassReview, Good, Records, Places, Remembers
  <2>3. passed' \subseteq Policy \X Sources \X Policy
    BY <1>0, <1>3, <2>1 DEF PassReview, Candidates
  <2>4. call' \in [Calls -> Good]
    BY <1>0, <1>3, <2>2, SetIsGood DEF PassReview, Goto
  <2> QED BY <1>3, <2>3, <2>4 DEF PassReview, TInv, TypeOK, world, Good, IsState, Classed
<1>4. CASE Finalize(c)
  <2>1. [k EXCEPT !.pc = "settle"] \in Good
    BY <1>4, TypeFacts DEF Finalize, At, Good, Records, Places, Remembers
  <2> QED BY <1>0, <1>4, <2>1, SetIsGood, EndIsGood, MoveKeepsTypes DEF Finalize, Goto
<1>5. CASE Settle(c)
  <2>1. p \in Candidates /\ p.source \in Sources /\ p.effective \in Policy
    BY <1>5, TypeFacts, Types DEF Settle, At, Records, Remembers, Candidates
  <2>2. IsState(BaseState(p.source, p.effective))
    BY <2>1, BaseStateType
  <2>3. lkg # None /\ lkg.pending # None => IsState([lkg EXCEPT !.pending.reviewed = TRUE])
    <3>1. SUFFICES ASSUME lkg # None, lkg.pending # None
                   PROVE  IsState([lkg EXCEPT !.pending = [lkg.pending EXCEPT !.reviewed = TRUE]])
      OBVIOUS
    <3>2. lkg \in States /\ lkg.pending \in Candidates /\ Classed(lkg.pending)
      BY <1>0, <3>1, TypeFacts DEF States, IsState
    <3>3. IsCandidate([lkg.pending EXCEPT !.reviewed = TRUE])
      BY <3>1, <3>2 DEF IsCandidate, Candidates, Classed
    <3> QED BY <3>2, <3>3, PendingType
  <2>4. IsState(lkg') /\ loud' \in Nat
    <3> DEFINE marked == [lkg EXCEPT !.pending.reviewed = TRUE]
    <3>1. \/ lkg' = BaseState(p.source, p.effective) /\ loud' = 0
          \/ Settleable(c) /\ lkg' = marked /\ loud' = loud + 1
          \/ UNCHANGED <<lkg, loud>>
      BY <1>5 DEF Settle
    <3>2. Settleable(c) => IsState(marked)
      BY <2>3 DEF Settleable
    <3> HIDE DEF marked
    <3> QED BY <1>0, <2>2, <3>1, <3>2
  <2> QED BY <1>0, <1>5, <2>4, EndIsGood, WriteKeepsTypes DEF Settle
<1> QED BY <1>1, <1>2, <1>3, <1>4, <1>5 DEF Stop

(* Approvals and init: what is approved is what was shown, a policy. *)
LEMMA HumanKeepsTypes ==
  ASSUME TInv, NEW c \in Calls, Human(c)
  PROVE  TInv'
<1> DEFINE k == call[c]
           p == call[c].change
<1>0. /\ call \in [Calls -> Good] /\ gate \in Calls \cup {None} /\ IsState(lkg)
      /\ vouched \in Policy \cup {None} /\ loud \in Nat
  BY DEF TInv, TypeOK
<1>1. CASE Confirm(c)
  <2>1. [k EXCEPT !.pc = "inspect"] \in Good
    BY <1>1, TypeFacts DEF Confirm, At, Good, Records, Places, Remembers
  <2>2. [k EXCEPT !.source = src, !.pc = "create"] \in Good
    BY <1>1, TypeFacts, Types DEF Confirm, At, Good, Records, Places, Remembers
  <2> QED BY <1>0, <1>1, <2>1, <2>2, SetIsGood, EndIsGood, MoveKeepsTypes DEF Confirm, Goto
<1>2. CASE Decline(c)
  BY <1>2, EndIsGood, MoveKeepsTypes DEF Decline
<1>3. CASE Create(c)
  <2>1. k.source \in Sources /\ k.shown \in Policy
    BY <1>3, TypeFacts DEF Create, At, Records, Remembers
  <2>2. IsState(lkg') /\ vouched' \in Policy \cup {None}
    BY <1>0, <1>3, <2>1, BaseStateType DEF Create
  <2> QED BY <1>0, <1>3, <2>2, EndIsGood, WriteKeepsTypes DEF Create
<1>4. CASE Recheck(c)
  <2>1. [k EXCEPT !.pc = "approve"] \in Good
    BY <1>4, TypeFacts DEF Recheck, At, Good, Records, Places, Remembers
  <2> QED BY <1>0, <1>4, <2>1, SetIsGood, EndIsGood, MoveKeepsTypes DEF Recheck, Goto
<1>5. CASE Approve(c)
  <2>1. p.source \in Sources /\ p.effective \in Policy /\ k.shown \in Policy
    BY <1>5, TypeFacts, Types DEF Approve, At, Records, Remembers, Candidates
  <2>2. IsState(lkg') /\ vouched' \in Policy \cup {None} /\ loud' \in Nat
    BY <1>0, <1>5, <2>1, BaseStateType DEF Approve
  <2> QED BY <1>0, <1>5, <2>2, EndIsGood, WriteKeepsTypes DEF Approve
<1>6. CASE InitBaseline(c)
  <2>1. IsState(lkg') /\ vouched' \in Policy \cup {None}
    BY <1>0, <1>6, TypeFacts, BaseStateType DEF InitBaseline
  <2> QED BY <1>0, <1>6, <2>1, EndIsGood, WriteKeepsTypes DEF InitBaseline
<1> QED BY <1>1, <1>2, <1>3, <1>4, <1>5, <1>6 DEF Human

(* A call starts. *)
LEMMA StartKeepsTypes ==
  ASSUME TInv, NEW c \in Calls, Probe(c) \/ ShowCandidate(c) \/ ShowFirst(c) \/ Install(c)
  PROVE  TInv'
<1>0. /\ call \in [Calls -> Good] /\ gate \in Calls \cup {None} /\ IsState(lkg)
      /\ version \in 1..MaxVersion /\ src \in Sources
  BY DEF TInv, TypeOK
<1>1. ASSUME NEW kind \in {"stop", "status", "show", "init"}, NEW where \in {"inspect", "init"},
             Start(c, kind, where)
      PROVE  call' \in [Calls -> Good]
  <2>1. [Idle EXCEPT !.kind = kind, !.pc = where, !.ver = version] \in Good
    BY <1>0, IdleIsGood DEF Idle, Good, Records, Kinds, Places, Remembers
  <2> QED BY <1>0, <1>1, <2>1, SetIsGood DEF Start
<1>2. CASE Probe(c) \/ ShowCandidate(c)
  BY <1>0, <1>1, <1>2, MoveKeepsTypes DEF Probe, ShowCandidate
<1>3. CASE ShowFirst(c)
  <2>1. Effective[version][src] \in Policy
    BY <1>0, <1>3, ReadIsPolicy DEF ShowFirst
  <2> QED BY <1>0, <1>3, <2>1, ShownIsGood, SetIsGood, MoveKeepsTypes DEF ShowFirst
<1>4. CASE Install(c)
  <2>1. call' \in [Calls -> Good]
    BY <1>0, <1>1, <1>4 DEF Install
  <2>2. src' \in Sources /\ hook' \in BOOLEAN
    BY <1>0, <1>4, ControlPlaneAssumption DEF Install
  <2> QED BY <1>4, <2>1, <2>2 DEF Install, TInv, TypeOK, ghosts, Good, IsState, Classed
<1> QED BY <1>2, <1>3, <1>4

(* What happens from outside. *)
LEMMA EventKeepsTypes ==
  ASSUME TInv,
         \/ \E c \in Calls : Die(c) \/ LockTimesOut(c)
         \/ \E s \in Sources : Edit(s) \/ ApproveMain(s)
         \/ Upgrade \/ Delete
  PROVE  TInv'
<1>0. /\ call \in [Calls -> Good] /\ gate \in Calls \cup {None} /\ IsState(lkg)
      /\ version \in 1..MaxVersion /\ src \in Sources /\ events \in 0..MaxEvents
  BY DEF TInv, TypeOK
<1>1. ASSUME Event
      PROVE  events' \in 0..MaxEvents
  BY <1>0, <1>1, ControlPlaneAssumption DEF Event
<1>2. ASSUME NEW c \in Calls, Die(c) \/ LockTimesOut(c)
      PROVE  TInv'
  <2>1. events' \in 0..MaxEvents
    BY <1>1, <1>2 DEF Die, LockTimesOut
  <2>2. call' \in [Calls -> Good] /\ gate' \in Calls \cup {None}
    BY <1>0, <1>2, EndIsGood, FailsIsGood DEF Die, LockTimesOut, At
  <2> QED BY <1>2, <2>1, <2>2 DEF Die, LockTimesOut, TInv, TypeOK, ghosts, Good, IsState, Classed
<1>3. ASSUME NEW s \in Sources, Edit(s)
      PROVE  TInv'
  BY <1>0, <1>1, <1>3 DEF Edit, TInv, TypeOK, ghosts, Good, IsState, Classed
<1>4. ASSUME NEW s \in Sources, ApproveMain(s)
      PROVE  TInv'
  <2>1. main' \in Policy
    BY <1>0, <1>4, ReadIsPolicy DEF ApproveMain
  <2> QED BY <1>0, <1>1, <1>4, <2>1 DEF ApproveMain, TInv, TypeOK, ghosts, Good, IsState, Classed
<1>5. CASE Upgrade
  <2>1. version < MaxVersion /\ version' = version + 1
    BY <1>5 DEF Upgrade
  <2>2. version' \in 1..MaxVersion
    <3>1. MaxVersion \in Nat
      BY ControlPlaneAssumption
    <3> QED BY <1>0, <2>1, <3>1
  <2> QED BY <1>0, <1>1, <1>5, <2>2 DEF Upgrade, TInv, TypeOK, ghosts, Good, IsState, Classed
<1>6. CASE Delete
  BY <1>0, <1>1, <1>6 DEF Delete, TInv, TypeOK, Good, IsState, Classed
<1> QED BY <1>2, <1>3, <1>4, <1>5, <1>6

(* The type invariant is inductive. *)
LEMMA TypeStep == TInv /\ [Next]_vars => TInv'
<1> SUFFICES ASSUME TInv, [Next]_vars PROVE TInv'
  OBVIOUS
<1>1. CASE UNCHANGED vars
  BY <1>1 DEF vars, TInv, TypeOK, world, ghosts, Good, IsState, Classed
<1>2. CASE Next
  BY <1>2, ResolveKeepsTypes, StopKeepsTypes, HumanKeepsTypes, StartKeepsTypes, EventKeepsTypes
     DEF Next
<1> QED BY <1>1, <1>2

(* It holds in a fresh checkout. *)
LEMMA TypeInit == Init => TInv
<1> SUFFICES ASSUME Init PROVE TInv
  OBVIOUS
<1>1. src \in Sources /\ version \in 1..MaxVersion /\ main \in Policy \cup {None}
  BY ControlPlaneAssumption DEF Init
<1>2. call \in [Calls -> Good]
  BY IdleIsGood DEF Init
<1>3. call \in [Calls -> Records]
  BY <1>2 DEF Good
<1>4. events \in 0..MaxEvents /\ loud \in Nat
  <2>1. MaxEvents \in Nat
    BY ControlPlaneAssumption
  <2> QED BY <2>1 DEF Init
<1>5. /\ hook \in BOOLEAN /\ lkg = None /\ gate = None /\ vouched = None
      /\ passed \subseteq Policy \X Sources \X Policy
  BY DEF Init
<1> QED BY <1>1, <1>2, <1>3, <1>4, <1>5 DEF TInv, TypeOK, IsState

(* No invalid configuration is ever the policy in force, vouched for or     *)
(* reviewed under, and the other types (schema.ts, control-plane.ts).       *)
THEOREM TypeCorrect == Spec => []TypeOK
<1>1. TInv => TypeOK
  BY DEF TInv
<1> QED BY <1>1, TypeInit, TypeStep, PTL DEF Spec

-----------------------------------------------------------------------------
(* The order of policies. *)

(* Whatever analysePolicyChange lets through is at least as strict.         *)
LEMMA AdoptableIsStricter ==
  ASSUME NEW a \in Policy, NEW b \in Policy,
         Classify(a, b) \in {"equivalent", "strengthening"}
  PROVE  AtLeast(b, a)
<1>1. /\ a.mode \in 0..2 /\ b.mode \in 0..2 /\ a.soft \in 0..2 /\ b.soft \in 0..2
  BY DEF Policy
<1>2. CASE a = b
  BY <1>1, <1>2 DEF AtLeast
<1>3. CASE a # b
  <2> DEFINE Settings == {"mode", "soft", "writable", "denied", "rest"}
  <2>1. \A path \in Settings : path \in DOMAIN a
    BY DEF Policy
  <2>2. \A path \in Settings : a[path] # b[path] => SafeStrengthening(path, a, b)
    BY <1>3, <2>1 DEF Classify, ChangedPaths
  <2>3. b.mode >= a.mode
    BY <1>1, <2>2 DEF SafeStrengthening
  <2>4. b.soft >= a.soft
    BY <1>1, <2>2 DEF SafeStrengthening
  <2>5. b.writable \subseteq a.writable
    BY <2>2 DEF SafeStrengthening
  <2>6. a.denied \subseteq b.denied
    BY <2>2 DEF SafeStrengthening
  <2>7. b.rest = a.rest
    BY <2>2 DEF SafeStrengthening
  <2> QED BY <2>3, <2>4, <2>5, <2>6, <2>7 DEF AtLeast
<1> QED BY <1>2, <1>3

(* Strictness adds up. *)
LEMMA Stricter ==
  ASSUME NEW a \in Policy, NEW b \in Policy, NEW c \in Policy
  PROVE  /\ AtLeast(a, a)
         /\ AtLeast(c, b) /\ AtLeast(b, a) => AtLeast(c, a)
<1>1. /\ a.mode \in 0..2 /\ b.mode \in 0..2 /\ c.mode \in 0..2
      /\ a.soft \in 0..2 /\ b.soft \in 0..2 /\ c.soft \in 0..2
  BY DEF Policy
<1> QED BY <1>1 DEF AtLeast

-----------------------------------------------------------------------------
(* What is true of the policy in force.  The arguments are the state's      *)
(* variables: sr for src, v for version, s for lkg, ps for passed.          *)

(* The candidate is what this version makes of its source. *)
Current(s, v) ==
  s # None /\ s.pending # None
    => s.pending.effective \in {Invalid, Effective[v][s.pending.source]}

Honest(s, ps) ==
  s # None /\ s.pending # None /\ s.pending.class # "invalid" =>
    /\ s.pending.class = Classify(s.config, s.pending.effective)
    /\ s.pending.reviewed
         => <<s.config, s.pending.source, s.pending.effective>> \in ps

Covered(s, who) == s # None => who \in Policy /\ AtLeast(s.config, who)

(* A candidate that is about to be recorded next to the policy a. *)
Fresh(p, a, v) ==
  /\ p.class # "invalid" => p.class = Classify(a, p.effective)
  /\ p.effective \in {Invalid, Effective[v][p.source]}
  /\ ~p.reviewed

(* What call k may rely on where it is. *)
Knows(k, sr, v, s, ps) ==
  /\ k.pc # "idle" => k.ver = v
  /\ k.pc \in {"load", "clear", "persist"} => s # None
  /\ k.pc = "adopt" => k.approved.config = k.policy /\ k.approved.pending = None
  /\ k.pc \in {"approved", "first"} /\ k.source \notin ProjectSources
       => sr \notin ProjectSources
  /\ k.pc = "bootstrap" => sr \notin ProjectSources
  /\ k.pc = "persist" => Fresh(k.change, k.approved.config, v)
  /\ k.pc \in {"finalize", "settle"}
       => <<k.policy, k.change.source, k.change.effective>> \in ps
  /\ k.pc = "settle" => k.change.effective = Effective[v][k.change.source]
  /\ k.pc \in {"recheck", "approve"} => k.change.effective = k.shown
  /\ k.pc \in {"probe", "review", "finalize", "settle"} /\ k.change # None => Current(s, v)

(* The inductive invariant of the checkout without the windows. *)
VInv ==
  /\ TInv
  /\ \A c \in Calls : Knows(call[c], src, version, lkg, passed)
  /\ Honest(lkg, passed)
  /\ Covered(lkg, vouched)

(* A call that does not run relies on nothing. *)
LEMMA IdleKnows ==
  ASSUME NEW sr, NEW v, NEW s, NEW ps
  PROVE  Knows(Idle, sr, v, s, ps)
BY DEF Knows, Idle

(* What a call knows stays true while others work. *)
LEMMA KnowsStays ==
  ASSUME NEW k, NEW sr, NEW sr1, NEW v, NEW s, NEW s1, NEW ps, NEW ps1,
         Knows(k, sr, v, s, ps),
         k.pc \in {"approved", "first", "bootstrap"} /\ sr \notin ProjectSources
           => sr1 \notin ProjectSources,
         s # None => s1 # None,
         Current(s, v) => Current(s1, v),
         ps \subseteq ps1
  PROVE  Knows(k, sr1, v, s1, ps1)
BY DEF Knows

(* What is true of the state stays true while the code passes. *)
LEMMA HonestStays ==
  ASSUME NEW s, NEW ps, NEW ps1, Honest(s, ps), ps \subseteq ps1
  PROVE  Honest(s, ps1)
BY DEF Honest

(* Nothing wrong is recorded of a candidate where there is none. *)
LEMMA BaseIsTrue ==
  ASSUME NEW x \in Sources, NEW e \in Policy, NEW v, NEW ps
  PROVE  Current(BaseState(x, e), v) /\ Honest(BaseState(x, e), ps)
BY BaseStateType DEF Current, Honest

(* Only the call that is set moves. *)
LEMMA SetMeans ==
  ASSUME TInv, NEW c \in Calls, NEW k, Set(c, k)
  PROVE  call'[c] = k /\ \A d \in Calls \ {c} : call'[d] = call[d]
BY DEF TInv, Set

(* A step of call c keeps the invariant if it leaves to c what c knows, and *)
(* to the others what they do.                                              *)
LEMMA StepKeeps ==
  ASSUME VInv, TInv', NEW c \in Calls,
         \A d \in Calls \ {c} : call'[d] = call[d],
         Knows(call'[c], src', version', lkg', passed'),
         UNCHANGED <<src, version>>, passed \subseteq passed',
         lkg # None => lkg' # None,
         Current(lkg, version) => Current(lkg', version),
         Honest(lkg', passed'), Covered(lkg', vouched')
  PROVE  VInv'
<1>1. ASSUME NEW d \in Calls \ {c}
      PROVE  Knows(call'[d], src', version', lkg', passed')
  <2>1. Knows(call[d], src, version, lkg, passed)
    BY DEF VInv
  <2>2. Knows(call[d], src, version, lkg', passed')
    BY <2>1, KnowsStays
  <2> QED BY <2>2
<1> QED BY <1>1 DEF VInv

(* The same for a step that only moves c. *)
LEMMA MoveKeeps ==
  ASSUME VInv, TInv', NEW c \in Calls,
         \A d \in Calls \ {c} : call'[d] = call[d],
         Knows(call'[c], src, version, lkg, passed),
         UNCHANGED <<world, lkg, ghosts>>
  PROVE  VInv'
<1>1. UNCHANGED <<src, version, lkg, vouched, passed>>
  BY DEF world, ghosts
<1>2. Honest(lkg', passed') /\ Covered(lkg', vouched')
      /\ Knows(call'[c], src', version', lkg', passed')
      /\ (Current(lkg, version) => Current(lkg', version))
  BY <1>1 DEF VInv
<1> QED BY <1>1, <1>2, StepKeeps

(* What a call may rely on where a step leads it: it ends. *)
LEMMA EndMeans ==
  ASSUME TInv, NEW c \in Calls, End(c), NEW sr, NEW v, NEW s, NEW ps
  PROVE  /\ \A d \in Calls \ {c} : call'[d] = call[d]
         /\ Knows(call'[c], sr, v, s, ps)
BY SetMeans, IdleKnows DEF End

(* It goes on to record an invalid candidate. *)
LEMMA FailsMeans ==
  ASSUME TInv, NEW c \in Calls, Fails(c), call[c].pc \in {"clear", "persist"},
         NEW sr, NEW v, NEW s, NEW ps, call[c].ver = v, s # None
  PROVE  /\ \A d \in Calls \ {c} : call'[d] = call[d]
         /\ Knows(call'[c], sr, v, s, ps)
<1> DEFINE k == call[c]
           p == Candidate(k.source, Invalid, None)
           next == [k EXCEPT !.change = p, !.pc = "persist"]
<1>1. k \in Records /\ k.source \in Sources
  BY TypeFacts DEF Records, Remembers
<1>2. p.effective = Invalid /\ p.class = "invalid" /\ ~p.reviewed
  BY <1>1, CandidateType
<1>3. Set(c, next)
  BY DEF Fails
<1> HIDE DEF p
<1>4. Knows(next, sr, v, s, ps)
  BY <1>1, <1>2 DEF Knows, Fresh, Records
<1> HIDE DEF next
<1> QED BY <1>3, <1>4, SetMeans

(* It knows what is pending, and a human's candidate is the one shown. *)
LEMMA ResolvedMeans ==
  ASSUME TInv, NEW c \in Calls, NEW p, NEW policy, Resolved(c, p, policy),
         NEW sr, NEW v, NEW s, NEW ps, call[c].ver = v, p # None => Current(s, v)
  PROVE  /\ \A d \in Calls \ {c} : call'[d] = call[d]
         /\ Knows(call'[c], sr, v, s, ps)
<1> DEFINE k == [call[c] EXCEPT !.source = None, !.approved = None, !.change = p,
                                !.policy = policy]
           shown == [Idle EXCEPT !.kind = "approve", !.pc = "shown", !.ver = k.ver,
                                 !.shown = p.effective]
<1>1. call[c] \in Records
  BY TypeFacts
<1>2. CASE k.kind = "stop" /\ Set(c, [k EXCEPT !.pc = "probe"])
  <2>1. Knows([k EXCEPT !.pc = "probe"], sr, v, s, ps)
    BY <1>1 DEF Knows, Records
  <2> QED BY <1>2, <2>1, SetMeans
<1>3. CASE Set(c, shown)
  <2>1. Knows(shown, sr, v, s, ps)
    BY <1>1 DEF Knows, Records, Idle
  <2> HIDE DEF shown
  <2> QED BY <1>3, <2>1, SetMeans
<1>4. CASE Confirmed(p, k.shown) /\ Set(c, [k EXCEPT !.pc = "recheck"])
  <2>1. Knows([k EXCEPT !.pc = "recheck"], sr, v, s, ps)
    BY <1>1, <1>4 DEF Knows, Records, Confirmed
  <2> QED BY <1>4, <2>1, SetMeans
<1>5. CASE End(c)
  BY <1>5, EndMeans
<1> QED BY <1>2, <1>3, <1>4, <1>5 DEF Resolved

-----------------------------------------------------------------------------
(* Every step keeps the invariant. *)

(* The parts of the invariant for a call at work. *)
LEMMA KnowsFacts ==
  ASSUME VInv, NEW c \in Calls
  PROVE  Knows(call[c], src, version, lkg, passed) /\ Honest(lkg, passed) /\ Covered(lkg, vouched)
BY DEF VInv

(* A resolution records candidates; only at first contact it makes policy. *)
LEMMA ResolveKeeps ==
  ASSUME VInv, NEW c \in Calls, Resolve(c)
  PROVE  VInv'
<1> DEFINE k == call[c]
<1>0. TInv /\ TInv' /\ k \in Records /\ src \in Sources
  BY ResolveKeepsTypes, TypeFacts DEF VInv
<1>00. Knows(k, src, version, lkg, passed) /\ Honest(lkg, passed) /\ Covered(lkg, vouched)
  BY KnowsFacts
<1>1. CASE Inspect(c)
  <2>1. Knows([k EXCEPT !.source = src, !.pc = "approved"], src, version, lkg, passed)
    BY <1>0, <1>00, <1>1 DEF Knows, Records, Inspect, At
  <2> QED BY <1>0, <1>1, <2>1, SetMeans, MoveKeeps DEF Inspect
<1>2. CASE ReadApproved(c)
  <2>1. lkg # None => Knows([k EXCEPT !.approved = lkg, !.pc = "load"], src, version, lkg, passed)
    BY <1>0, <1>00, <1>2 DEF Knows, Records, ReadApproved, At
  <2>2. Knows([k EXCEPT !.pc = "first"], src, version, lkg, passed)
    BY <1>0, <1>00, <1>2 DEF Knows, Records, ReadApproved, At
  <2> QED BY <1>0, <1>2, <2>1, <2>2, SetMeans, EndMeans, MoveKeeps DEF ReadApproved, Goto
<1>3. CASE FirstContact(c)
  <2>1. ASSUME Inherits(k.ver)
        PROVE  Knows([k EXCEPT !.approved = BaseState(src, Read(c)), !.policy = main,
                               !.pc = "adopt"], src, version, lkg, passed)
    <3>1. Read(c) = main /\ k.pc = "first"
      BY <1>3, <2>1 DEF Inherits, Read, FirstContact, At
    <3> QED BY <1>0, <1>00, <3>1 DEF Knows, Records, BaseState
  <2>2. k.source \notin ProjectSources
          => Knows([k EXCEPT !.pc = "bootstrap"], src, version, lkg, passed)
    BY <1>0, <1>00, <1>3 DEF Knows, Records, FirstContact, At
  <2> QED BY <1>0, <1>3, <2>1, <2>2, SetMeans, EndMeans, MoveKeeps DEF FirstContact, Goto
<1>4. CASE Adopt(c)
  <2> DEFINE s == IF lkg = None THEN k.approved ELSE lkg
             next == [k EXCEPT !.approved = s, !.policy = None, !.pc = "load"]
  <2>1. /\ k.pc = "adopt" /\ k.approved \in States /\ k.policy \in Policy
        /\ k.approved.config = k.policy /\ k.approved.pending = None
    BY <1>0, <1>00, <1>4, TypeFacts DEF Knows, Adopt, At, Records, Remembers
  <2>2. lkg' = s /\ Set(c, next) /\ UNCHANGED <<src, version, passed>>
    BY <1>4 DEF Adopt, world
  <2>3. s # None
    BY <2>1, Types
  <2>4. Current(lkg, version) => Current(s, version)
    BY <2>1 DEF Current
  <2>5. Honest(s, passed)
    BY <1>00, <2>1 DEF Honest
  <2>6. Covered(lkg', vouched')
    BY <1>00, <1>4, <2>1, Stricter DEF Adopt, Covered
  <2>7. Knows(next, src, version, s, passed)
    BY <1>0, <1>00, <2>1, <2>3 DEF Knows, Records
  <2> HIDE DEF s, next
  <2>8. /\ \A d \in Calls \ {c} : call'[d] = call[d]
        /\ call'[c] = next
    BY <1>0, <2>2, SetMeans
  <2> QED BY <1>0, <2>2, <2>3, <2>4, <2>5, <2>6, <2>7, <2>8, StepKeeps
<1>5. CASE Bootstrap(c)
  <2>1. CASE End(c) /\ UNCHANGED <<lkg, vouched>>
    BY <1>0, <1>5, <2>1, EndMeans, MoveKeeps DEF Bootstrap, world, ghosts
  <2>2. CASE /\ lkg # None \/ Loads(Read(c))
             /\ lkg' = IF lkg = None THEN BaseState(src, Read(c)) ELSE lkg
             /\ vouched' = IF lkg = None /\ src \notin ProjectSources THEN Read(c) ELSE vouched
             /\ Set(c, [k EXCEPT !.approved = lkg', !.pc = "load"])
             /\ UNCHANGED gate
    <3> DEFINE s == IF lkg = None THEN BaseState(src, Read(c)) ELSE lkg
               next == [k EXCEPT !.approved = s, !.pc = "load"]
    <3>1. k.pc = "bootstrap" /\ src \notin ProjectSources
      BY <1>00, <1>5 DEF Bootstrap, At, Knows
    <3>2. lkg = None => /\ Read(c) \in Policy /\ s \in States
                        /\ Current(s, version) /\ Honest(s, passed) /\ s.config = Read(c)
      BY <1>0, <2>2, TypeFacts, BaseStateType, BaseIsTrue
    <3>3. s # None /\ lkg' = s /\ Set(c, next) /\ UNCHANGED <<src, version, passed>>
      BY <1>5, <2>2, <3>2, Types DEF Bootstrap, world
    <3>4. Covered(lkg', vouched')
      BY <1>00, <2>2, <3>1, <3>2, <3>3, Stricter DEF Covered
    <3>5. Honest(s, passed) /\ (Current(lkg, version) => Current(s, version))
      BY <1>00, <3>2
    <3> HIDE DEF s
    <3>6. Knows(next, src, version, s, passed)
      BY <1>0, <1>00, <3>1, <3>3 DEF Knows, Records
    <3> HIDE DEF next
    <3>7. (\A d \in Calls \ {c} : call'[d] = call[d]) /\ call'[c] = next
      BY <1>0, <3>3, SetMeans
    <3> QED BY <1>0, <3>3, <3>4, <3>5, <3>6, <3>7, StepKeeps
  <2> QED BY <1>5, <2>1, <2>2 DEF Bootstrap
<1>6. CASE Load(c)
  <2> DEFINE found == IF src = k.source THEN Read(c) ELSE Invalid
             p == Candidate(k.source, found, k.approved.config)
             next == [k EXCEPT !.change = p, !.pc = "persist"]
  <2>1. k.pc = "load" /\ k.source \in Sources /\ k.ver = version /\ lkg # None
    BY <1>0, <1>00, <1>6, TypeFacts DEF Load, At, Records, Remembers, Knows
  <2>2. found \in Policy \cup {Invalid}
    BY <1>0, TypeFacts
  <2>3. Fresh(p, k.approved.config, version)
    BY <2>1, <2>2, CandidateType DEF Fresh, Read
  <2>4. Goto(c, "clear") \/ Set(c, next)
    BY <1>6 DEF Load
  <2> HIDE DEF p
  <2>5. Knows(next, src, version, lkg, passed)
    BY <1>0, <2>1, <2>3 DEF Knows, Records
  <2>6. Knows([k EXCEPT !.pc = "clear"], src, version, lkg, passed)
    BY <1>0, <2>1 DEF Knows, Records
  <2> HIDE DEF next
  <2>7. UNCHANGED <<world, lkg, ghosts>>
    BY <1>6 DEF Load
  <2>8. /\ \A d \in Calls \ {c} : call'[d] = call[d]
        /\ Knows(call'[c], src, version, lkg, passed)
    BY <1>0, <2>4, <2>5, <2>6, SetMeans DEF Goto
  <2> QED BY <1>0, <2>7, <2>8, MoveKeeps
<1>7. CASE Clear(c)
  <2>1. /\ k.pc = "clear" /\ k.ver = version /\ lkg # None /\ lkg \in States
        /\ UNCHANGED <<src, version, vouched, passed>>
    BY <1>0, <1>00, <1>7, TypeFacts DEF Clear, At, Knows, world
  <2> DEFINE cleared == [lkg EXCEPT !.pending = None]
  <2>2. /\ cleared # None /\ cleared.pending = None /\ cleared.config = lkg.config
    BY <2>1, Types DEF States
  <2>3. Current(cleared, version) /\ Honest(cleared, passed) /\ Covered(cleared, vouched)
    BY <1>00, <2>1, <2>2 DEF Current, Honest, Covered
  <2>4. \/ lkg' = lkg /\ \E policy : Resolved(c, None, policy)
        \/ lkg' = cleared /\ \E policy : Resolved(c, None, policy)
        \/ lkg' = lkg /\ Fails(c)
    BY <1>7 DEF Clear
  <2> HIDE DEF cleared
  <2>5. /\ \A d \in Calls \ {c} : call'[d] = call[d]
        /\ Knows(call'[c], src, version, lkg', passed)
    BY <1>0, <2>1, <2>2, <2>4, ResolvedMeans, FailsMeans
  <2> QED BY <1>0, <1>00, <2>1, <2>2, <2>3, <2>4, <2>5, StepKeeps
<1>8. CASE Persist(c)
  <2>1. /\ k.pc = "persist" /\ k.ver = version /\ lkg # None /\ lkg \in States
        /\ k.change \in Candidates /\ Fresh(k.change, k.approved.config, version)
        /\ UNCHANGED <<src, version, vouched, passed>>
    BY <1>0, <1>00, <1>8, TypeFacts DEF Persist, At, Knows, world, Records, Remembers
  <2> DEFINE next == Carried(k.change, lkg.pending)
             recorded == [lkg EXCEPT !.pending = next]
  <2>2. \/ /\ StillApproved(lkg, k.approved.config) /\ lkg' = recorded
           /\ Resolved(c, next, k.approved.config)
        \/ lkg' = lkg /\ Fails(c)
        \/ lkg' = lkg /\ End(c)
    BY <1>8, <2>1 DEF Persist
  <2>3. /\ next \in Candidates /\ next.source = k.change.source
        /\ next.effective = k.change.effective /\ next.class = k.change.class
        /\ next.reviewed => SameCandidate(k.change, lkg.pending) /\ lkg.pending.reviewed
    BY <1>0, <2>1 DEF Carried, Candidates, States, SameCandidate, Fresh
  <2>4. recorded # None /\ recorded.pending = next /\ recorded.config = lkg.config
    <3> HIDE DEF next
    <3> QED BY <2>1, <2>3, Types DEF States
  <2>5. Current(recorded, version) /\ Covered(recorded, vouched)
    BY <1>00, <2>1, <2>3, <2>4 DEF Current, Covered, Fresh
  <2>6. StillApproved(lkg, k.approved.config) => Honest(recorded, passed)
    <3>1. SUFFICES ASSUME StillApproved(lkg, k.approved.config), next.class # "invalid"
                   PROVE  /\ next.class = Classify(lkg.config, next.effective)
                          /\ next.reviewed
                               => <<lkg.config, next.source, next.effective>> \in passed
      BY <2>4 DEF Honest
    <3>2. lkg.config = k.approved.config
      BY <3>1 DEF StillApproved
    <3>3. next.class = Classify(lkg.config, next.effective)
      BY <2>1, <2>3, <3>1, <3>2 DEF Fresh
    <3>4. ASSUME next.reviewed
          PROVE  <<lkg.config, next.source, next.effective>> \in passed
      <4>1. /\ lkg.pending # None /\ lkg.pending.reviewed
            /\ lkg.pending.source = next.source /\ lkg.pending.effective = next.effective
        BY <2>3, <3>4 DEF SameCandidate
      <4>2. Classed(lkg.pending) /\ Classed(k.change) /\ k.change # None
        BY <1>0, <2>1, TypeFacts, Types DEF TInv, IsState, Remembers, IsCandidate
      <4>3. lkg.pending.class # "invalid"
        BY <2>3, <3>1, <4>1, <4>2 DEF Classed
      <4> QED BY <1>00, <2>1, <4>1, <4>3 DEF Honest
    <3> QED BY <3>3, <3>4
  <2> HIDE DEF recorded, next
  <2>7. /\ \A d \in Calls \ {c} : call'[d] = call[d]
        /\ Knows(call'[c], src, version, lkg', passed)
    BY <1>0, <2>1, <2>2, <2>5, ResolvedMeans, FailsMeans, EndMeans
  <2> QED BY <1>0, <1>00, <2>1, <2>2, <2>4, <2>5, <2>6, <2>7, StepKeeps
<1> QED BY <1>1, <1>2, <1>3, <1>4, <1>5, <1>6, <1>7, <1>8 DEF Resolve

(* A stop adopts a stricter candidate, or marks one the code passed with. *)
LEMMA StopKeeps ==
  ASSUME VInv, NEW c \in Calls, Stop(c)
  PROVE  VInv'
<1> DEFINE k == call[c]
           p == call[c].change
<1>0. TInv /\ TInv' /\ k \in Records
  BY StopKeepsTypes, TypeFacts DEF VInv
<1>00. Knows(k, src, version, lkg, passed) /\ Honest(lkg, passed) /\ Covered(lkg, vouched)
  BY KnowsFacts
<1>1. CASE Skip(c) \/ Defer(c) \/ EndReview(c)
  BY <1>0, <1>1, EndMeans, MoveKeeps DEF Skip, Defer, EndReview
<1>2. CASE TakeGate(c)
  <2>1. Knows([k EXCEPT !.pc = "review"], src, version, lkg, passed)
    BY <1>0, <1>00, <1>2 DEF Knows, Records, TakeGate, At
  <2> QED BY <1>0, <1>2, <2>1, SetMeans, MoveKeeps DEF TakeGate, Goto
<1>3. CASE PassReview(c)
  <2>1. /\ k.pc = "review" /\ p # None
        /\ passed' = passed \cup {<<k.policy, p.source, p.effective>>}
        /\ UNCHANGED <<src, version, lkg, vouched>>
    BY <1>3 DEF PassReview, At, world
  <2>2. Knows([k EXCEPT !.pc = "finalize"], src, version, lkg, passed')
    BY <1>0, <1>00, <2>1 DEF Knows, Records
  <2>3. Honest(lkg, passed')
    BY <1>00, <2>1, HonestStays
  <2>4. /\ \A d \in Calls \ {c} : call'[d] = call[d]
        /\ call'[c] = [k EXCEPT !.pc = "finalize"]
    BY <1>0, <1>3, SetMeans DEF PassReview, Goto
  <2> QED BY <1>0, <1>00, <2>1, <2>2, <2>3, <2>4, StepKeeps
<1>4. CASE Finalize(c)
  <2>1. Observed(c) => Knows([k EXCEPT !.pc = "settle"], src, version, lkg, passed)
    BY <1>0, <1>00, <1>4 DEF Knows, Records, Finalize, At, Observed, Read
  <2> QED BY <1>0, <1>4, <2>1, SetMeans, EndMeans, MoveKeeps DEF Finalize, Goto
<1>5. CASE Settle(c)
  <2>1. /\ k.pc = "settle" /\ p \in Candidates /\ p.effective \in Policy /\ k.ver = version
        /\ p.effective = Effective[version][p.source]
        /\ <<k.policy, p.source, p.effective>> \in passed
        /\ Current(lkg, version)
    BY <1>0, <1>00, <1>5, TypeFacts, Types
       DEF Settle, At, Knows, Records, Remembers, Candidates
  <2>2. UNCHANGED <<src, version, vouched, passed>> /\ End(c)
    BY <1>5 DEF Settle, world
  <2>3. ASSUME Settleable(c)
        PROVE  /\ lkg # None /\ lkg \in States /\ lkg.config = k.policy
               /\ lkg.pending # None /\ lkg.pending \in Candidates
               /\ lkg.pending.source = p.source
               /\ lkg.pending.class # "invalid" => lkg.pending.effective = p.effective
    <3>1. /\ lkg # None /\ lkg \in States /\ lkg.config = k.policy
          /\ lkg.pending # None /\ lkg.pending \in Candidates
          /\ lkg.pending.source = p.source
      BY <1>0, <2>3, TypeFacts DEF Settleable, States
    <3>2. Classed(lkg.pending)
      BY <1>0, <3>1 DEF TInv, IsState
    <3> QED BY <2>1, <3>1, <3>2 DEF Current, Classed
  <2>4. CASE Settleable(c) /\ Adoptable(lkg.pending) /\ lkg' = BaseState(p.source, p.effective)
    <3>1. lkg.pending.class \in {"equivalent", "strengthening"}
      BY <2>4 DEF Adoptable
    <3>2. /\ lkg.config \in Policy
          /\ Classify(lkg.config, p.effective) \in {"equivalent", "strengthening"}
      BY <1>00, <2>3, <2>4, <3>1 DEF Honest, States
    <3>3. AtLeast(p.effective, lkg.config)
      BY <2>1, <3>2, AdoptableIsStricter
    <3>4. p.source \in Sources
      BY <2>1 DEF Candidates
    <3>5. Covered(lkg', vouched')
      BY <1>00, <2>1, <2>2, <2>3, <2>4, <3>2, <3>3, <3>4, BaseStateType, Stricter DEF Covered
    <3>6. lkg' # None /\ Current(lkg', version) /\ Honest(lkg', passed)
      BY <2>1, <2>4, <3>4, BaseStateType, BaseIsTrue, Types
    <3> QED BY <1>0, <2>2, <3>5, <3>6, EndMeans, StepKeeps
  <2>5. CASE Settleable(c) /\ lkg' = [lkg EXCEPT !.pending.reviewed = TRUE]
    <3> DEFINE marked == [lkg.pending EXCEPT !.reviewed = TRUE]
    <3>1. lkg' = [lkg EXCEPT !.pending = marked]
      BY <2>5
    <3>2. /\ marked \in Candidates /\ marked.source = p.source
          /\ marked.class = lkg.pending.class /\ marked.effective = lkg.pending.effective
      BY <2>3, <2>5 DEF Candidates
    <3> HIDE DEF marked
    <3>3. lkg' # None /\ lkg'.config = k.policy /\ lkg'.pending = marked
      BY <2>3, <2>5, <3>1, <3>2, Types DEF States
    <3>4. Current(lkg', version)
      BY <2>1, <2>3, <2>5, <3>2, <3>3 DEF Current
    <3>5. Honest(lkg', passed)
      BY <1>00, <2>1, <2>3, <2>5, <3>2, <3>3 DEF Honest
    <3>6. Covered(lkg', vouched')
      BY <1>00, <2>2, <2>3, <2>5, <3>3 DEF Covered
    <3> QED BY <1>0, <2>2, <3>3, <3>4, <3>5, <3>6, EndMeans, StepKeeps
  <2>6. CASE UNCHANGED lkg
    BY <1>0, <1>00, <2>2, <2>6, EndMeans, StepKeeps
  <2> QED BY <1>5, <2>4, <2>5, <2>6 DEF Settle
<1> QED BY <1>1, <1>2, <1>3, <1>4, <1>5 DEF Stop

(* What a human approves is what the human was shown. *)
LEMMA HumanKeeps ==
  ASSUME VInv, NEW c \in Calls, Human(c)
  PROVE  VInv'
<1> DEFINE k == call[c]
           p == call[c].change
<1>0. TInv /\ TInv' /\ k \in Records /\ src \in Sources
  BY HumanKeepsTypes, TypeFacts DEF VInv
<1>00. Knows(k, src, version, lkg, passed) /\ Honest(lkg, passed) /\ Covered(lkg, vouched)
  BY KnowsFacts
<1>1. CASE Confirm(c)
  <2>1. Knows([k EXCEPT !.pc = "inspect"], src, version, lkg, passed)
    BY <1>0, <1>00, <1>1 DEF Knows, Records, Confirm, At
  <2>2. Knows([k EXCEPT !.source = src, !.pc = "create"], src, version, lkg, passed)
    BY <1>0, <1>00, <1>1 DEF Knows, Records, Confirm, At
  <2> QED BY <1>0, <1>1, <2>1, <2>2, SetMeans, EndMeans, MoveKeeps DEF Confirm, Goto
<1>2. CASE Decline(c)
  BY <1>0, <1>2, EndMeans, MoveKeeps DEF Decline
(* A policy x that somebody vouches for is written as e. *)
<1>3. ASSUME NEW x \in Sources, NEW e \in Policy,
             lkg' = BaseState(x, e), vouched' = e, End(c), UNCHANGED <<src, version, passed>>
      PROVE  VInv'
  <2>1. lkg' # None /\ Current(lkg', version) /\ Honest(lkg', passed)
    BY <1>3, BaseStateType, BaseIsTrue, Types
  <2>2. Covered(lkg', vouched')
    BY <1>3, BaseStateType, Stricter DEF Covered
  <2> QED BY <1>0, <1>3, <2>1, <2>2, EndMeans, StepKeeps
<1>4. ASSUME UNCHANGED <<src, version, passed, lkg, vouched>>, End(c)
      PROVE  VInv'
  BY <1>0, <1>00, <1>4, EndMeans, StepKeeps
<1>5. CASE Create(c)
  <2>1. k.source \in Sources /\ k.shown \in Policy
    BY <1>0, <1>5, TypeFacts DEF Create, At, Records, Remembers
  <2> QED BY <1>3, <1>4, <1>5, <2>1 DEF Create, world
<1>6. CASE Recheck(c)
  <2>1. Knows([k EXCEPT !.pc = "approve"], src, version, lkg, passed)
    BY <1>0, <1>00, <1>6 DEF Knows, Records, Recheck, At
  <2> QED BY <1>0, <1>6, <2>1, SetMeans, EndMeans, MoveKeeps DEF Recheck, Goto
<1>7. CASE Approve(c)
  <2>1. p.source \in Sources /\ p.effective \in Policy /\ k.shown = p.effective
    BY <1>0, <1>00, <1>7, TypeFacts, Types
       DEF Approve, At, Records, Remembers, Candidates, Knows
  <2> QED BY <1>3, <1>4, <1>7, <2>1 DEF Approve, world
<1>8. CASE InitBaseline(c)
  <2>1. Loads(Read(c)) => Read(c) \in Policy
    BY <1>0, TypeFacts
  <2> QED BY <1>0, <1>3, <1>4, <1>8, <2>1 DEF InitBaseline, world
<1> QED BY <1>1, <1>2, <1>5, <1>6, <1>7, <1>8 DEF Human

(* A call starts: it reads the version that is installed. *)
LEMMA StartKeeps ==
  ASSUME Windows = {}, VInv, NEW c \in Calls,
         Probe(c) \/ ShowCandidate(c) \/ ShowFirst(c) \/ Install(c)
  PROVE  VInv'
<1>0. TInv /\ TInv'
  BY StartKeepsTypes DEF VInv
<1>1. ASSUME NEW kind, NEW where \in {"inspect", "init"}, Start(c, kind, where),
             NEW sr, NEW s, NEW ps
      PROVE  /\ \A d \in Calls \ {c} : call'[d] = call[d]
             /\ Knows(call'[c], sr, version, s, ps)
  <2> DEFINE k == [Idle EXCEPT !.kind = kind, !.pc = where, !.ver = version]
  <2>1. Knows(k, sr, version, s, ps)
    BY DEF Knows, Idle
  <2>2. Set(c, k)
    BY <1>1 DEF Start
  <2> HIDE DEF k
  <2> QED BY <1>0, <2>1, <2>2, SetMeans
<1>2. CASE Probe(c) \/ ShowCandidate(c)
  BY <1>0, <1>1, <1>2, MoveKeeps DEF Probe, ShowCandidate
<1>3. CASE ShowFirst(c)
  <2> DEFINE k == [Idle EXCEPT !.kind = "approve", !.pc = "shown", !.ver = version,
                               !.shown = Effective[version][src]]
  <2>1. Knows(k, src, version, lkg, passed)
    BY DEF Knows, Idle
  <2>2. Set(c, k) /\ UNCHANGED <<world, lkg, ghosts>>
    BY <1>3 DEF ShowFirst
  <2> HIDE DEF k
  <2> QED BY <1>0, <2>1, <2>2, SetMeans, MoveKeeps
<1>4. CASE Install(c)
  <2>1. UNCHANGED <<version, lkg, vouched, passed>>
    BY <1>4 DEF Install, ghosts
  <2>2. ASSUME NEW d \in Calls
        PROVE  \/ call'[d] = call[d]
               \/ Knows(call'[d], src', version', lkg', passed')
    BY <1>0, <1>1, <1>4, <2>1 DEF Install
  <2>3. ASSUME NEW d \in Calls,
               call[d].pc \in {"approved", "first", "bootstrap"}, src \notin ProjectSources
        PROVE  src' \notin ProjectSources
    BY <1>4, <2>3 DEF Install, MayAppear, May
  <2>4. ASSUME NEW d \in Calls
        PROVE  Knows(call[d], src', version', lkg', passed')
    <3>1. Knows(call[d], src, version, lkg, passed)
      BY KnowsFacts
    <3>2. Knows(call[d], src', version, lkg, passed)
      BY <2>3, <3>1, KnowsStays
    <3> QED BY <2>1, <3>2
  <2>5. Honest(lkg', passed') /\ Covered(lkg', vouched')
    BY <2>1 DEF VInv
  <2> QED BY <1>0, <2>2, <2>4, <2>5 DEF VInv
<1> QED BY <1>2, <1>3, <1>4

(* What happens from outside, as long as it happens at no bad moment. *)
LEMMA EventKeeps ==
  ASSUME Windows = {}, VInv,
         \/ \E c \in Calls : Die(c) \/ LockTimesOut(c)
         \/ \E s \in Sources : Edit(s) \/ ApproveMain(s)
         \/ Upgrade \/ Delete
  PROVE  VInv'
<1>0. TInv /\ TInv'
  BY EventKeepsTypes DEF VInv
<1>00. /\ \A c \in Calls : Knows(call[c], src, version, lkg, passed)
       /\ Honest(lkg, passed) /\ Covered(lkg, vouched)
  BY DEF VInv
<1>1. ASSUME NEW c \in Calls, Die(c) \/ LockTimesOut(c)
      PROVE  VInv'
  <2>1. UNCHANGED <<src, version, lkg, vouched, passed>>
    BY <1>1 DEF Die, LockTimesOut, ghosts
  <2>2. Knows(call[c], src, version, lkg, passed)
    BY <1>00
  <2>3. /\ \A d \in Calls \ {c} : call'[d] = call[d]
        /\ Knows(call'[c], src, version, lkg, passed)
    <3>1. CASE Die(c)
      BY <1>0, <3>1, EndMeans DEF Die
    <3>2. CASE LockTimesOut(c)
      <4>1. /\ Fails(c) /\ call[c].pc \in {"clear", "persist"}
            /\ call[c].ver = version /\ lkg # None
        BY <2>2, <3>2 DEF LockTimesOut, At, Knows
      <4>2. \A d \in Calls \ {c} : call'[d] = call[d]
        BY <1>0, <4>1, SetMeans DEF Fails
      <4>3. Knows(call'[c], src, version, lkg, passed)
        BY <1>0, <4>1, FailsMeans
      <4> QED BY <4>2, <4>3
    <3> QED BY <1>1, <3>1, <3>2
  <2> QED BY <1>0, <1>00, <2>1, <2>3, StepKeeps
<1>2. ASSUME NEW s \in Sources, Edit(s)
      PROVE  VInv'
  <2>1. UNCHANGED <<version, lkg, call, vouched, passed>> /\ src' = s
    BY <1>2 DEF Edit, ghosts
  <2>2. ASSUME NEW d \in Calls
        PROVE  Knows(call[d], s, version, lkg, passed)
    <3>1. call[d].pc \in {"approved", "first", "bootstrap"} => s \notin ProjectSources
      BY <1>2 DEF Edit, MayAppear, May
    <3>2. Knows(call[d], src, version, lkg, passed)
      BY <1>00
    <3> QED BY <3>1, <3>2, KnowsStays
  <2> QED BY <1>0, <1>00, <2>1, <2>2 DEF VInv
<1>3. ASSUME NEW s \in Sources, ApproveMain(s)
      PROVE  VInv'
  <2>1. UNCHANGED <<src, version, lkg, call, vouched, passed>>
    BY <1>3 DEF ApproveMain, ghosts
  <2> QED BY <1>0, <1>00, <2>1 DEF VInv
<1>4. CASE Upgrade
  <2>1. UNCHANGED <<src, lkg, call, vouched, passed>> /\ \A c \in Calls : call[c].pc = "idle"
    BY <1>4 DEF Upgrade, ghosts, May, At
  <2>2. \A c \in Calls : Knows(call[c], src, version', lkg, passed)
    BY <1>00, <2>1 DEF Knows
  <2> QED BY <1>0, <1>00, <2>1, <2>2 DEF VInv
<1>5. CASE Delete
  <2>1. /\ UNCHANGED <<src, version, call, vouched, passed>> /\ lkg' = None
        /\ \A c \in Calls : call[c].approved = None
    BY <1>5 DEF Delete, May
  <2>2. \A c \in Calls : call[c].pc \notin {"load", "clear", "persist"}
    BY <1>0, <2>1, TypeFacts DEF Remembers
  <2>3. \A c \in Calls : Knows(call[c], src, version, None, passed)
    BY <1>00, <2>2 DEF Knows, Current
  <2>4. Honest(None, passed) /\ Covered(None, vouched)
    BY DEF Honest, Covered
  <2> QED BY <1>0, <2>1, <2>3, <2>4 DEF VInv
<1> QED BY <1>1, <1>2, <1>3, <1>4, <1>5

(* The invariant is inductive without the windows. *)
LEMMA VStep == Windows = {} /\ VInv /\ [Next]_vars => VInv'
<1> SUFFICES ASSUME Windows = {}, VInv, [Next]_vars PROVE VInv'
  OBVIOUS
<1>1. CASE UNCHANGED vars
  <2>1. TInv'
    BY TypeStep DEF VInv
  <2>2. UNCHANGED <<src, version, lkg, call, vouched, passed>>
    BY <1>1 DEF vars, world, ghosts
  <2> QED BY <2>1, <2>2 DEF VInv
<1>2. CASE Next
  BY <1>2, ResolveKeeps, StopKeeps, HumanKeeps, StartKeeps, EventKeeps DEF Next
<1> QED BY <1>1, <1>2

(* It holds in a fresh checkout. *)
LEMMA VInit == Init => VInv
<1> SUFFICES ASSUME Init PROVE VInv
  OBVIOUS
<1>1. \A c \in Calls : Knows(call[c], src, version, lkg, passed)
  BY IdleKnows DEF Init
<1>2. Honest(lkg, passed) /\ Covered(lkg, vouched)
  BY DEF Init, Honest, Covered
<1> QED BY <1>1, <1>2, TypeInit DEF VInv

-----------------------------------------------------------------------------
(* In a checkout without the windows, the policy in force is what a human   *)
(* vouched for last, or stricter (resolveControlPlaneConfig, approve,       *)
(* bootstrap and the finalization of a review, in any order).               *)
THEOREM PolicyIsVouched == ASSUME Windows = {} PROVE Spec => []InForceIsVouched
<1>1. VInv => InForceIsVouched
  BY Types DEF VInv, Covered, InForceIsVouched
<1> QED BY <1>1, VInit, VStep, PTL DEF Spec

(* There, what is recorded of a candidate is true: approvals and adoptions  *)
(* rely on its class and its mark.                                          *)
THEOREM CandidateIsHonest == ASSUME Windows = {} PROVE Spec => []PendingIsHonest
<1>1. VInv => PendingIsHonest
  BY DEF VInv, Honest, PendingIsHonest
<1> QED BY <1>1, VInit, VStep, PTL DEF Spec
(* There, the policy in force is only replaced after the code has passed    *)
(* under it, with exactly the candidate that replaces it: by an adoption    *)
(* after the review, or by a human who approves what was marked.            *)
THEOREM PassedFirst == ASSUME Windows = {} PROVE Spec => ChangeFollowsPass
<1> DEFINE Follows == lkg # None /\ lkg' # None /\ lkg'.config # lkg.config
                        => <<lkg.config, lkg'.source, lkg'.config>> \in passed
<1>1. ASSUME VInv, [Next]_vars
      PROVE  [Follows]_vars
  <2> SUFFICES ASSUME lkg # None, lkg' # None, lkg'.config # lkg.config
               PROVE  <<lkg.config, lkg'.source, lkg'.config>> \in passed
    OBVIOUS
  <2>1. TInv /\ Honest(lkg, passed) /\ lkg \in States
    BY TypeStep, <1>1 DEF VInv, TInv, TypeOK
  <2>2. PICK c \in Calls : Clear(c) \/ Persist(c) \/ Settle(c) \/ Approve(c)
    BY <1>1 DEF Next, Resolve, Stop, Human, Inspect, ReadApproved, FirstContact, Adopt, Bootstrap,
       Load, Skip, TakeGate, Defer, PassReview, EndReview, Finalize, Confirm, Decline, Create,
       Recheck, InitBaseline, Probe, ShowCandidate, ShowFirst, Install, Die, LockTimesOut,
       Edit, ApproveMain, Upgrade, Delete, vars
  <2> DEFINE p == call[c].change
  <2>3. Knows(call[c], src, version, lkg, passed)
    BY <1>1, KnowsFacts
  <2>4. ASSUME NEW q, lkg' = [lkg EXCEPT !.pending = q]
        PROVE  FALSE
    BY <2>1, <2>4 DEF States
  <2>5. CASE Clear(c)
    BY <2>4, <2>5 DEF Clear
  <2>6. CASE Persist(c)
    BY <2>4, <2>6 DEF Persist
  <2>7. CASE Settle(c)
    <3>1. <<call[c].policy, p.source, p.effective>> \in passed
      BY <2>3, <2>7 DEF Settle, At, Knows
    <3>2. CASE Settleable(c) /\ lkg' = BaseState(p.source, p.effective)
      BY <3>1, <3>2 DEF Settleable, BaseState
    <3>3. CASE lkg' = [lkg EXCEPT !.pending.reviewed = TRUE]
      BY <2>1, <3>3 DEF States
    <3>4. CASE UNCHANGED lkg
      BY <3>4
    <3> QED BY <2>7, <3>2, <3>3, <3>4 DEF Settle
  <2>8. CASE Approve(c)
    <3>1. p \in Candidates /\ p.effective # Invalid /\ Classed(p) /\ p # None
      BY <2>1, <2>8, TypeFacts DEF Approve, At, Records, Remembers, IsCandidate
    <3>2. StillPending(c) /\ lkg' = BaseState(p.source, p.effective)
      BY <2>8 DEF Approve
    <3>3. /\ lkg.pending # None /\ lkg.pending.reviewed /\ lkg.pending.class # "invalid"
          /\ lkg.pending.source = p.source /\ lkg.pending.effective = p.effective
      BY <3>1, <3>2 DEF StillPending, SameCandidate, Classed
    <3>4. <<lkg.config, p.source, p.effective>> \in passed
      BY <2>1, <3>3 DEF Honest
    <3> QED BY <3>2, <3>4 DEF BaseState
  <2> QED BY <2>2, <2>5, <2>6, <2>7, <2>8
<1> QED BY <1>1, VInit, VStep, PTL DEF Spec, ChangeFollowsPass

-----------------------------------------------------------------------------
(* The notice: once it has been given, the candidate is marked. *)
NInv ==
  /\ loud \in {0, 1}
  /\ loud = 1 => lkg # None /\ lkg.pending # None /\ lkg.pending.reviewed

(* Only the settling of an unmarked candidate gives a notice. *)
LEMMA NoticeStep == TInv /\ NInv /\ [Next]_vars => NInv'
<1> SUFFICES ASSUME TInv, NInv, [Next]_vars PROVE NInv'
  OBVIOUS
<1>1. CASE UNCHANGED <<lkg, loud>>
  BY <1>1 DEF NInv
<1>2. ASSUME NEW c \in Calls, Adopt(c) \/ Bootstrap(c) \/ Create(c) \/ InitBaseline(c)
      PROVE  NInv'
  <2>1. loud' = loud /\ (lkg # None => lkg' = lkg)
    BY <1>2 DEF Adopt, Bootstrap, Create, InitBaseline
  <2> QED BY <2>1 DEF NInv
<1>3. ASSUME NEW c \in Calls, Clear(c)
      PROVE  NInv'
  BY <1>1, <1>3 DEF Clear, NInv
<1>4. ASSUME NEW c \in Calls, Persist(c)
      PROVE  NInv'
  <2> DEFINE k == call[c]
             current == IF lkg = None THEN k.approved ELSE lkg
             next == Carried(k.change, current.pending)
  <2>1. /\ current \in States /\ k.change \in Candidates
        /\ lkg # None => lkg \in States
    BY <1>4, TypeFacts DEF Persist, At, Records, Remembers
  <2>2. CASE /\ lkg' = [current EXCEPT !.pending = next]
             /\ loud' = IF SameCandidate(next, current.pending) THEN loud ELSE 0
    <3>1. next \in Candidates /\ current.pending \in Candidates \cup {None}
      BY <2>1 DEF Carried, Candidates, States, SameCandidate
    <3>2. lkg' \in States /\ lkg'.pending = next
      <4> HIDE DEF current, next
      <4> QED BY <2>1, <2>2, <3>1 DEF States
    <3>3. SameCandidate(next, current.pending) => next.reviewed = current.pending.reviewed
      BY <2>1, <3>1 DEF Carried, SameCandidate, Candidates
    <3> QED BY <2>2, <3>1, <3>2, <3>3, Types DEF NInv, SameCandidate
  <2>3. CASE UNCHANGED <<lkg, loud>>
    BY <1>1, <2>3
  <2> QED BY <1>4, <2>2, <2>3 DEF Persist
<1>5. ASSUME NEW c \in Calls, Settle(c)
      PROVE  NInv'
  <2>1. CASE loud' = 0
    BY <2>1 DEF NInv
  <2>2. CASE /\ Settleable(c) /\ ~lkg.pending.reviewed
             /\ lkg' = [lkg EXCEPT !.pending.reviewed = TRUE] /\ loud' = loud + 1
    <3>1. lkg # None /\ lkg \in States /\ lkg.pending \in Candidates
      BY <2>2, <1>5, TypeFacts DEF Settleable, States
    <3> DEFINE marked == [lkg.pending EXCEPT !.reviewed = TRUE]
    <3>2. marked \in Candidates /\ marked.reviewed /\ lkg' = [lkg EXCEPT !.pending = marked]
      BY <2>2, <3>1 DEF Candidates
    <3> HIDE DEF marked
    <3>3. lkg' # None /\ lkg'.pending # None /\ lkg'.pending.reviewed
      BY <3>1, <3>2, Types DEF States
    <3> QED BY <2>2, <3>3 DEF NInv
  <2> QED BY <1>1, <1>5, <2>1, <2>2 DEF Settle
<1>6. ASSUME NEW c \in Calls, Approve(c)
      PROVE  NInv'
  BY <1>6 DEF Approve, NInv
<1>7. CASE Delete
  <2>1. loud' = 0
    BY <1>7 DEF Delete
  <2> QED BY <2>1 DEF NInv
<1> QED
  BY <1>1, <1>2, <1>3, <1>4, <1>5, <1>6, <1>7
     DEF Next, Resolve, Stop, Human, Inspect, ReadApproved, FirstContact, Load, Skip, TakeGate,
         Defer, PassReview, EndReview, Finalize, Confirm, Decline, Recheck, Probe, ShowCandidate,
         ShowFirst, Install, Die, LockTimesOut, Edit, ApproveMain, Upgrade, vars, ghosts

(* A candidate costs the agent one blocking notice, also with the windows   *)
(* open: whoever records it again keeps its mark (finalizeControlPlaneReview*)
(* and persistPending).                                                     *)
THEOREM OneNotice == Spec => []NoticeOnce
<1>1. Init => NInv
  BY DEF Init, NInv
<1>2. NInv => NoticeOnce
  BY DEF NInv, NoticeOnce
<1> QED BY <1>1, <1>2, TypeInit, TypeStep, NoticeStep, PTL DEF Spec
=============================================================================

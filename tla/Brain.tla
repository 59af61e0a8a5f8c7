------------------------------- MODULE Brain -------------------------------
(***************************************************************************)
(* The project's memory, src/core/brain: after a review the proposals of   *)
(* its reviewers are curated, and what several providers agree on becomes  *)
(* a note that later reviewers are shown.  One review asks few providers,  *)
(* so agreement is looked for over the reviews of a session (the pool) and *)
(* over sessions (the candidates).  A curator gives up the lock of a store *)
(* between its steps, is abandoned at its timeout and dies with its        *)
(* process.  Notes about false positives are in Learning.                  *)
(***************************************************************************)
EXTENDS Naturals, Sequences, FiniteSets, SequencesExt, FiniteSetsExt, TLC

CONSTANTS
    Memories,      \* the scenes: what reviewers may propose, and the bounds
    Near, Same,    \* pairs of texts whose embeddings are as close as GROUP_THRESHOLD, DEDUP_THRESHOLD
    MaxPromotions, \* MAX_PROMOTIONS
    TtlDays, MaxCands, \* crossRunCandidates: ttlDays, maxEntries
    StaleAfter, ArchiveAfter,    \* 90 and 270 days
    Overlap,       \* may `review-plan`, which takes no lock, curate while a gate does?
    NoNote

\* KNOWN_PROVIDERS.  A name is the sequence of its parts between hyphens.
KnownProviders == {<<"claude", "code">>, <<"openrouter">>, <<"codex">>, <<"gemini">>}

\* Texts are compared by the angle between their embeddings.  A proposal says how sure
\* its reviewer is, who has a provider and a persona of any name; no two providers have
\* names of the same first part.
ASSUME BrainAssumption ==
    /\ Same \subseteq Near /\ StaleAfter <= ArchiveAfter /\ MaxCands \in Nat
    /\ \A pair \in Near : <<pair[2], pair[1]>> \in Near
    /\ \A m \in Memories : \A said \in m.offers :
          /\ said \in Seq(ToSet(said))
          /\ \A p \in ToSet(said) :
                /\ <<p.text, p.text>> \in Near /\ p.sure \in Nat /\ {p.diff, p.loose} \subseteq BOOLEAN
                /\ {p.by.provider, p.by.persona} \subseteq Seq(STRING) \ {<<>>}
                /\ \A known \in KnownProviders : Head(known) = Head(p.by.provider) => known = p.by.provider

VARIABLES
    memory,   \* the scene, fixed
    session,  \* state.session_id
    today,    \* the clock
    pools,    \* proposals/pool/<run>.jsonl
    cands,    \* candidates.jsonl, in the order of its lines
    notes,    \* brain.json, in the order of its entries
    job,      \* the curator of the gate and that of a plan review
    reviews,  \* how many reviews there were
    voices,   \* history: what was proposed, by whom
    muffled   \* history: something was dropped that agreement might have needed

brainVars == <<memory, session, today, pools, cands, notes, job, reviews, voices, muffled>>

Curators == {"gate", "plan"}
Resting == [pc |-> "resting", run |-> 0, nth |-> 0, now |-> 0, said |-> <<>>, groups |-> <<>>,
            made |-> 0, view |-> {}, matched |-> {}, dup |-> NoNote]
Alike(a, b) == <<a, b>> \in Near
Alone(k) == Overlap \/ \A other \in Curators : other # k => job[other].pc = "resting"

(***************************************************************************)
(* Proposals and groups of them.  A proposal has one item of evidence,     *)
(* stamped with the reviewer that made it; `web` is a page that could be   *)
(* fetched, `diff` says that it was read off the diff.                     *)
(***************************************************************************)

\* A reviewer is known by its provider's name and its persona's, hyphened.
ReviewerId(r) == r.provider \o r.persona

\* providerOf: the known provider the id begins with, or all of it but its last part.
ProviderOf_Reviewer(r) == ReviewerId(r)
ProviderOf(r) ==
    IF \E known \in KnownProviders : IsPrefix(known, ReviewerId(r))
    THEN CHOOSE known \in KnownProviders : IsPrefix(known, ReviewerId(r))
    ELSE IF Len(ReviewerId(r)) > 1 THEN Front(ReviewerId(r)) ELSE ReviewerId(r)

\* What of s stands in the places I, in order.
Picked(s, I) ==
    LET upTo[n \in 0 .. Len(s)] ==
          IF n = 0 THEN <<>> ELSE IF n \in I THEN Append(upTo[n - 1], s[n]) ELSE upTo[n - 1]
    IN  upTo[Len(s)]

ProvidersIn(said) == {ProviderOf(said[i].by) : i \in DOMAIN said}
Observed(said) == Picked(said, {i \in DOMAIN said : ~said[i].web})
FromDiff(said) == \E i \in DOMAIN said : said[i].diff

\* A proposal joins the first group one of whose members it is near to.
Fits(groups, p) == {g \in DOMAIN groups : \E i \in DOMAIN groups[g] : Alike(groups[g][i].text, p.text)}
Group(groups, p) ==
    IF Fits(groups, p) = {} THEN Append(groups, <<p>>)
    ELSE [groups EXCEPT ![Min(Fits(groups, p))] = Append(@, p)]
Grouped(said) ==
    LET groups[n \in 0 .. Len(said)] == IF n = 0 THEN <<>> ELSE Group(groups[n - 1], said[n])
    IN  groups[Len(said)]

\* The first of the most confident members stands for the group.
Rep(group) ==
    group[Min({i \in DOMAIN group : \A j \in DOMAIN group : group[j].sure <= group[i].sure})]

Matching(view, group) == {c \in view : Alike(c.text, Rep(group).text)}

\* quorumOk, with a voice for each candidate of an earlier run.
QuorumOk(group, matched) ==
    LET need == IF FromDiff(group) THEN 3 ELSE 2
        pages == Len(group) - Len(Observed(group))
    IN  \/ pages >= need - 1
        \/ /\ Len(Observed(group)) + Cardinality(matched) >= need
           /\ Cardinality(ProvidersIn(group) \cup {c.provider : c \in matched}) >= need

\* persistSingleProviderCandidate and addOrMerge: the one voice of a group that got
\* nowhere waits for another one, unless its provider waits already.
Persisted(c, group) ==
    LET by == ProvidersIn(Observed(group))
        waits == \E i \in DOMAIN cands : cands[i].provider \in by /\ Alike(cands[i].text, Rep(group).text)
    IN  IF Cardinality(by) # 1 \/ waits THEN cands
        ELSE Append(cands, [text |-> Rep(group).text, provider |-> CHOOSE p \in by : TRUE,
                            run |-> c.run, nth |-> c.nth, at |-> c.now])

(***************************************************************************)
(* A review hands its reviewers' proposals to a curator.                   *)
(***************************************************************************)

\* proposalSignature
Signed_Text(p) == p.text
Signed(p) == <<p.text, p.by>>
SignedIn(pool, p) == \E i \in DOMAIN pool : Signed(pool[i]) = Signed(p)

\* readAll and appendIter: any proposal is written, unless one like it can be read or
\* was written before it; only what fits the schema can be read.
ReadAll(pool) == Picked(pool, {i \in DOMAIN pool : ~pool[i].loose})
AppendIter(pool, said) ==
    pool \o Picked(said, {i \in DOMAIN said : ~SignedIn(ReadAll(pool) \o SubSeq(said, 1, i - 1), said[i])})

\* If none can be read, the review's own are used.
Cumulative(pool, said) == IF ReadAll(pool) # <<>> THEN ReadAll(pool) ELSE said

Collect(k, said) ==
    /\ job[k].pc = "resting" /\ Alone(k)
    /\ reviews < memory.reviews /\ said \in memory.offers
    /\ k = "plan" => memory.plan
    /\ LET run == IF k = "gate" THEN session ELSE memory.sessions + 1 + reviews
           stored == AppendIter(IF run \in DOMAIN pools THEN pools[run] ELSE <<>>, said)
           heard == Cumulative(stored, said)
       IN  /\ pools' = [r \in DOMAIN pools \cup {run} |-> IF r = run THEN stored ELSE pools[r]]
           /\ job' = [job EXCEPT ![k] = [Resting EXCEPT !.pc = "decay", !.run = run, !.nth = reviews,
                                                          !.now = today, !.said = heard]]
           /\ voices' = voices \cup {[text |-> p.text, by |-> p.by.provider, diff |-> p.diff] : p \in ToSet(said)}
           /\ muffled' = (muffled \/ \E p \in ToSet(said) : p.loose)
    /\ reviews' = reviews + 1
    /\ UNCHANGED <<memory, session, today, cands, notes>>

(***************************************************************************)
(* The curator, one access of a store at a time.                           *)
(***************************************************************************)

Move(k, change) == job' = [job EXCEPT ![k] = change]
NextGroup(c) == [c EXCEPT !.pc = "weigh", !.groups = Tail(@), !.matched = {}, !.dup = NoNote]

\* decayPass: candidates that were confirmed become active, what nobody refers to
\* goes stale and then to the archive, and what is referred to again comes back.
Aged(note, now) ==
    LET age == now - note.last
        confirmed == note.status = "candidate" /\ note.refs >= 3 /\ Cardinality(note.reviewers) >= 2
        back == note.status = "stale" /\ age <= StaleAfter
    IN  [note EXCEPT !.status = IF age > StaleAfter THEN "stale" ELSE IF confirmed \/ back THEN "active" ELSE @]
Archived(note, now) == now - note.last > ArchiveAfter

DecayNotes(k) ==
    /\ job[k].pc = "decay"
    /\ notes' = LET aged == [i \in DOMAIN notes |-> Aged(notes[i], job[k].now)]
                IN  Picked(aged, {i \in DOMAIN notes : ~Archived(aged[i], job[k].now)})
    /\ muffled' = (muffled \/ Len(notes') < Len(notes))
    /\ Move(k, [job[k] EXCEPT !.pc = "fetch"])
    /\ UNCHANGED <<memory, session, today, pools, cands, reviews, voices>>

\* Sorted by age; of the same age, as they were.
OldestFirst(line) ==
    {[i \in DOMAIN line |-> line[o[i]]] : o \in
        {o \in Bijection(DOMAIN line, DOMAIN line) : \A i, j \in DOMAIN line :
            i < j => line[o[i]].at < line[o[j]].at \/ (line[o[i]].at = line[o[j]].at /\ o[i] < o[j])}}

\* enrichProposal: a citation whose page can be fetched becomes a page, another one
\* stays what a reviewer said.  Then the candidates are pruned.
Fetch(k, got) ==
    /\ job[k].pc = "fetch"
    /\ got \subseteq {i \in DOMAIN job[k].said : job[k].said[i].cited}
    /\ \E line \in OldestFirst(Picked(cands, {i \in DOMAIN cands : job[k].now - cands[i].at <= TtlDays})) :
          cands' = SubSeq(line, IF Len(line) > MaxCands THEN Len(line) - MaxCands + 1 ELSE 1, Len(line))
    /\ muffled' = (muffled \/ Len(cands') < Len(cands))
    /\ Move(k, [job[k] EXCEPT !.pc = "embed",
                  !.said = [i \in DOMAIN @ |-> [text |-> @[i].text, by |-> @[i].by, diff |-> @[i].diff, sure |-> @[i].sure,
                                                wide |-> @[i].wide, web |-> i \in got]]])
    /\ UNCHANGED <<memory, session, today, pools, notes, reviews, voices>>

\* The proposals are embedded and grouped, and the candidates of other runs read, once.
Embed(k) ==
    /\ job[k].pc = "embed"
    /\ Move(k, [job[k] EXCEPT !.pc = "weigh", !.groups = Grouped(job[k].said), !.view = ToSet(cands)])
    /\ UNCHANGED <<memory, session, today, pools, cands, notes, reviews, voices, muffled>>

\* Without embeddings everything is put off.
EmbedFails(k) ==
    /\ job[k].pc = "embed" /\ memory.trouble
    /\ Move(k, Resting) /\ muffled' = TRUE
    /\ UNCHANGED <<memory, session, today, pools, cands, notes, reviews, voices>>

\* The gates of a group, in the order of the code, up to the quorum.
LimitReached(c) == c.made >= MaxPromotions
Dropped(c) ==
    LET group == Head(c.groups)
    IN  IF LimitReached(c) THEN "waits"
        ELSE IF Rep(group).wide THEN "gone"
        ELSE IF QuorumOk(group, Matching(c.view, group)) THEN "no" ELSE "waits"

\* Two providers said it, or it has a page, and it gets nowhere all the same.
Neglected(view, group) ==
    \/ Observed(group) = <<>>
    \/ \E p, q \in ProvidersIn(group) \cup {c.provider : c \in Matching(view, group)} : p # q

Weigh(k) ==
    LET c == job[k]
        group == Head(c.groups)
    IN  /\ c.pc = "weigh" /\ c.groups # <<>>
        /\ IF Dropped(c) = "no" THEN Move(k, [c EXCEPT !.pc = "look", !.matched = Matching(c.view, group)])
                                ELSE Move(k, NextGroup(c))
        /\ cands' = IF Dropped(c) = "waits" THEN Persisted(c, group) ELSE cands
        /\ muffled' = (muffled \/ Dropped(c) = "gone" \/ (Dropped(c) = "waits" /\ Neglected(c.view, group)))
        /\ UNCHANGED <<memory, session, today, pools, notes, reviews, voices>>

Finish(k) ==
    /\ job[k].pc = "weigh" /\ job[k].groups = <<>>
    /\ Move(k, Resting)
    /\ UNCHANGED <<memory, session, today, pools, cands, notes, reviews, voices, muffled>>

SameNotes(text) == {i \in DOMAIN notes : <<notes[i].text, text>> \in Same}

Look(k) ==
    LET c == job[k]
        text == Rep(Head(c.groups)).text
    IN  /\ c.pc = "look"
        /\ Move(k, IF \E i \in DOMAIN notes : notes[i].status = "active" /\ notes[i].text = text THEN NextGroup(c)
                   ELSE IF SameNotes(text) # {} THEN [c EXCEPT !.pc = "bump", !.dup = notes[Min(SameNotes(text))].id]
                   ELSE [c EXCEPT !.pc = IF memory.judge THEN "ask" ELSE "add"])
        /\ UNCHANGED <<memory, session, today, pools, cands, notes, reviews, voices, muffled>>

Bump(k) ==
    LET c == job[k]
    IN  /\ c.pc = "bump"
        /\ notes' = [i \in DOMAIN notes |->
                       IF notes[i].id # c.dup THEN notes[i]
                       ELSE [notes[i] EXCEPT !.refs = @ + 1, !.last = c.now, !.reviewers = @ \cup ProvidersIn(Head(c.groups))]]
        /\ Move(k, NextGroup([c EXCEPT !.made = @ + 1]))
        /\ UNCHANGED <<memory, session, today, pools, cands, reviews, voices, muffled>>

\* The judge's answer takes seconds; nothing is looked up again after it.
Ask(k, accept) ==
    /\ job[k].pc = "ask"
    /\ Move(k, IF accept THEN [job[k] EXCEPT !.pc = "add"] ELSE NextGroup(job[k]))
    /\ muffled' = (muffled \/ ~accept)
    /\ UNCHANGED <<memory, session, today, pools, cands, notes, reviews, voices>>

\* addAllocatingId
Add(k) ==
    LET c == job[k]
        group == Head(c.groups)
        note == [id |-> Max({0} \cup {notes[i].id : i \in DOMAIN notes}) + 1, text |-> Rep(group).text, status |-> "candidate",
                 refs |-> 1, reviewers |-> ProvidersIn(group), last |-> c.now, diff |-> FromDiff(group),
                 web |-> Len(Observed(group)) < Len(group)]
    IN  /\ c.pc = "add"
        /\ notes' = Append(notes, note)
        /\ Move(k, [c EXCEPT !.pc = "spend", !.made = @ + 1])
        /\ UNCHANGED <<memory, session, today, pools, cands, reviews, voices, muffled>>

\* deleteByIds: the candidates that helped a note are used up.
Spend(k) ==
    /\ job[k].pc = "spend"
    /\ cands' = Picked(cands, {i \in DOMAIN cands : cands[i] \notin job[k].matched})
    /\ Move(k, NextGroup(job[k]))
    /\ UNCHANGED <<memory, session, today, pools, notes, reviews, voices, muffled>>

(***************************************************************************)
(* What happens around it.                                                 *)
(***************************************************************************)

\* The process ends, by itself after the curator's timeout or by a kill.
Cut(k) ==
    /\ job[k].pc # "resting" /\ memory.trouble
    /\ Move(k, Resting)
    /\ muffled' = (muffled \/ job[k].pc # "spend" \/ Tail(job[k].groups) # <<>>)
    /\ UNCHANGED <<memory, session, today, pools, cands, notes, reviews, voices>>

\* A pass, or a commit that ends an escalation, clears the session's pool.
ClearPool ==
    /\ session \in DOMAIN pools
    /\ pools' = [r \in DOMAIN pools \ {session} |-> pools[r]]
    /\ UNCHANGED <<memory, session, today, cands, notes, job, reviews, voices, muffled>>

\* handleReset: a session start takes every pool away, if need be without the lock.
StartSession ==
    /\ session < memory.sessions
    /\ session' = session + 1 /\ pools' = <<>>
    /\ UNCHANGED <<memory, today, cands, notes, job, reviews, voices, muffled>>

RevokeNote(i) ==
    /\ memory.revokes /\ i \in DOMAIN notes
    /\ notes' = RemoveAt(notes, i) /\ muffled' = TRUE
    /\ UNCHANGED <<memory, session, today, pools, cands, job, reviews, voices>>

Pass(t) ==
    /\ t \in 1 .. memory.days - today
    /\ today' = today + t
    /\ UNCHANGED <<memory, session, pools, cands, notes, job, reviews, voices, muffled>>

BrainInit ==
    /\ memory \in Memories
    /\ session = 1 /\ today = 0 /\ pools = <<>> /\ cands = <<>> /\ notes = <<>>
    /\ job = [k \in Curators |-> Resting]
    /\ reviews = 0 /\ voices = {} /\ muffled = FALSE

BrainNext ==
    \/ \E k \in Curators, said \in memory.offers : Collect(k, said)
    \/ \E k \in Curators : DecayNotes(k)
    \/ \E k \in Curators : \E got \in SUBSET DOMAIN job[k].said : Fetch(k, got)
    \/ \E k \in Curators : Embed(k)
    \/ \E k \in Curators : EmbedFails(k)
    \/ \E k \in Curators : Weigh(k)
    \/ \E k \in Curators : Finish(k)
    \/ \E k \in Curators : Look(k)
    \/ \E k \in Curators : Bump(k)
    \/ \E k \in Curators, accept \in BOOLEAN : Ask(k, accept)
    \/ \E k \in Curators : Add(k)
    \/ \E k \in Curators : Spend(k)
    \/ \E k \in Curators : Cut(k)
    \/ ClearPool
    \/ StartSession
    \/ \E i \in DOMAIN notes : RevokeNote(i)
    \/ \E t \in 1 .. memory.days : Pass(t)

BrainSpec == BrainInit /\ [][BrainNext]_brainVars

(***************************************************************************)
(* What the memory promises.                                               *)
(***************************************************************************)

\* Texts that are connected by near ones.
Texts == {p[1] : p \in Near}
Closed(S) == \A s \in S, u \in Texts : Alike(s, u) => u \in S
Linked(a, b) == \A S \in SUBSET Texts : Closed(S) /\ a \in S => b \in S

\* What a note says was put forward by two different providers, or by one that
\* could show a page for it, however often one provider repeats itself, through
\* whichever persona, in one review or over several (curator.ts:quorumOk).
NotesAreShared ==
    \A i \in DOMAIN notes :
        LET heard == {v.by : v \in {w \in voices : Linked(w.text, notes[i].text)}}
        IN  notes[i].web \/ Cardinality(heard) >= IF notes[i].diff THEN 3 ELSE 2

\* Two providers that say alike are heard, in whatever reviews and order they say it,
\* if nothing that the code may do to a proposal came between.  It needs texts that are
\* near to the same one to be near to each other: else a candidate of a group of one
\* provider, which stands for it by one text, is not found for the other texts.
AgreementIsKept ==
    (~muffled /\ \A k \in Curators : job[k].pc = "resting") =>
        \A v, w \in {u \in voices : ~u.diff} :
            v.by # w.by /\ Alike(v.text, w.text) => \E i \in DOMAIN notes : Linked(notes[i].text, v.text)
=============================================================================

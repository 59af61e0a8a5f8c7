------------------------------- MODULE Panel -------------------------------
(***************************************************************************)
(* One review after another, as src/core/orchestrator.ts runs them: what   *)
(* ends a review early (triage, the deterministic checks, the content      *)
(* ledger, the cache), the panel with its slots, fallbacks and last        *)
(* resorts, the deadline that cuts it off, and what a provider's failure   *)
(* leaves behind in quota-cooldowns.json for the reviews to come.          *)
(*                                                                         *)
(* What the reviewers find is a free choice here; what becomes of their    *)
(* findings is in Verdict, what the loop makes of the result in            *)
(* LoopDriver.                                                             *)
(***************************************************************************)
EXTENDS Naturals, Sequences, FiniteSets, SequencesExt, FiniteSetsExt

CONSTANTS
    Configs,      \* the configurations to look at: slots, providers, options, and the
                  \* reviews asked for (`inputs`, as they begin) in the environments they
                  \* meet (`envs`: configuration, brain, ledgers, lore, conventions, ...)
    PromoEnvs,    \* environments in which a canon promotion waits for a human
    LastResort,   \* LAST_RESORT_ORDER
    Retrying,     \* providers whose adapter runs a failed review again
    Tty,          \* providers that say nothing of a quota when not on a terminal
    Backoff,      \* BACKOFF_SCHEDULE_MS, in ticks
    Reprobe,      \* REPROBE_INTERVAL_MS, in ticks
    StaleAfter,   \* BACKOFF_STREAK_STALE_MS, in ticks
    Reset,        \* the reset times a provider may name, in ticks
    Null

ASSUME PanelAssumption ==
    /\ Backoff \in Seq(Nat \ {0}) /\ Backoff # <<>>
    /\ Reprobe \in Nat \ {0} /\ StaleAfter \in Nat \ {0} /\ Reset \subseteq Nat \ {0}
    /\ LastResort \in Seq({LastResort[n] : n \in DOMAIN LastResort})

VARIABLES
    config,   \* the configuration, fixed
    cd,       \* quota-cooldowns.json: provider -> cooldown or Null
    cache,    \* cache/reviews: key -> verdict
    ledger,   \* state.pass_ledger: what a full panel has passed, or Null
    rev,      \* the review that runs
    slot,     \* its reviewer slots
    out,      \* the result of the last review
    earned,   \* history: what a panel has passed, with nothing left to decide
    blamed    \* history: providers that failed in this review by themselves

vars == <<config, cd, cache, ledger, rev, slot, out, earned, blamed>>
history == <<earned, blamed>>

Slots == DOMAIN config.slots
Providers == config.enabled \cup config.listed

(***************************************************************************)
(* Cooldowns.  Times are distances: `left` until the reset, `age` since it *)
(* was recorded.                                                           *)
(***************************************************************************)

\* Attempted although capped: a reset that was parsed may be wrong.
SkipUntil(e) ==
    /\ e # Null
    /\ e.left > 0
    /\ e.source = "parsed" => e.age < Reprobe

\* An entry that no longer changes anything is as good as none.
Spent(e) == e.left = 0 /\ (e.source = "default" => e.age > StaleAfter)

Older(e) ==
    IF e = Null THEN Null
    ELSE LET o == [e EXCEPT !.left = IF @ = 0 THEN 0 ELSE @ - 1,
                            !.age = IF @ > StaleAfter THEN @ ELSE @ + 1]
         IN  IF Spent(o) THEN Null ELSE o

Record(left) == [left |-> left, age |-> 0, source |-> "parsed", strikes |-> 0]

\* recordBackoff.  The counter stops where the schedule does.
RecordBackoff(e) ==
    LET prior == IF e # Null /\ e.source = "default" /\ e.age <= StaleAfter THEN e.strikes ELSE 0
        now == IF prior < Len(Backoff) THEN prior + 1 ELSE prior
    IN  [left |-> Backoff[now], age |-> 0, source |-> "default", strikes |-> now]

\* cooldownEffectFor: what a finished run implies for its provider; `fair` if a
\* timeout, or an error that took as long, would be the provider's own.  An error
\* that came fast says nothing.
Effects(p, status, fair, left) ==
    CASE status = "ok"     -> <<[p |-> p, kind |-> "clear", left |-> 0]>>
      [] status = "parsed" -> <<[p |-> p, kind |-> "parsed", left |-> left]>>
      [] status = "quota"  -> <<[p |-> p, kind |-> "default", left |-> 0]>>
      [] status = "timeout" /\ fair -> <<[p |-> p, kind |-> "default", left |-> 0]>>
      [] OTHER -> <<>>

\* applyCooldownEffects: however many slots a provider served, one effect of its
\* runs counts, the first of the strongest kind.
Own(s, p, kind) == {n \in DOMAIN slot[s].eff : slot[s].eff[n].p = p /\ slot[s].eff[n].kind = kind}
Had(p, kind) == {s \in Slots : Own(s, p, kind) # {}}
FirstReset(p) ==
    LET s == Min(Had(p, "parsed")) IN slot[s].eff[Min(Own(s, p, "parsed"))].left

Applied_EverySlot(p) ==
    CASE Cardinality(Had(p, "default")) > 1 -> RecordBackoff(RecordBackoff(cd[p]))
      [] Cardinality(Had(p, "default")) = 1 -> RecordBackoff(cd[p])
      [] Had(p, "default") = {} /\ Had(p, "parsed") # {} -> Record(FirstReset(p))
      [] Had(p, "default") = {} /\ Had(p, "parsed") = {} /\ Had(p, "clear") # {} -> Null
      [] OTHER -> cd[p]
Applied(p) ==
    CASE Had(p, "clear") # {} -> Null
      [] Had(p, "clear") = {} /\ Had(p, "parsed") # {} -> Record(FirstReset(p))
      [] Had(p, "clear") = {} /\ Had(p, "parsed") = {} /\ Had(p, "default") # {} -> RecordBackoff(cd[p])
      [] OTHER -> cd[p]

(***************************************************************************)
(* The review.                                                             *)
(***************************************************************************)

CacheKey_NoScope == [c |-> rev.c, form |-> rev.form, env |-> rev.env, scope |-> "full"]
CacheKey == [c |-> rev.c, form |-> rev.form, env |-> rev.env, scope |-> rev.scope]
Promotion == rev.env \in PromoEnvs

Idle == [pc |-> "idle", c |-> Null, form |-> Null, env |-> Null, scope |-> "full", review |-> TRUE,
         incomplete |-> FALSE, due |-> FALSE, tight |-> FALSE, budget |-> "ample", aborted |-> FALSE]

NoSlot == [pc |-> "absent", p |-> Null, status |-> "none", at |-> 0, clamped |-> FALSE,
           left |-> 0, again |-> FALSE, eff |-> <<>>, asked |-> {}]

\* Configurations name providers they have, and reviews start as they are asked for.
ASSUME ConfigsAssumption ==
    \A c \in Configs :
        /\ DOMAIN c.slots \subseteq Nat
        /\ \A s \in DOMAIN c.slots : c.slots[s].fallback \in Seq(c.enabled \cup c.listed)
        /\ \A i \in c.inputs :
              i = [Idle EXCEPT !.pc = "triage", !.c = i.c, !.form = i.form, !.review = i.review,
                               !.incomplete = i.incomplete, !.due = i.due, !.tight = i.tight, !.scope = i.scope]
        /\ Null \notin [c : {i.c : i \in c.inputs}, env : c.envs, scope : {i.scope : i \in c.inputs}]

NoVerdict == [verdict |-> "none", source |-> "none", quotaLocked |-> FALSE, infraFailed |-> FALSE]

Result(v, s) == [NoVerdict EXCEPT !.verdict = v, !.source = s]

Init ==
    /\ config \in Configs
    /\ cd = [p \in config.enabled \cup config.listed |-> Null]
    /\ cache = <<>>
    /\ ledger = Null
    /\ rev = Idle
    /\ slot = [s \in DOMAIN config.slots |-> NoSlot]
    /\ out = NoVerdict
    /\ earned = {}
    /\ blamed = {}

\* Between two reviews; a cached verdict may go out of date.
Tick ==
    /\ rev.pc = "idle"
    /\ cd' = [p \in Providers |-> Older(cd[p])]
    /\ \/ UNCHANGED cache
       \/ \E k \in DOMAIN cache : cache' = [j \in DOMAIN cache \ {k} |-> cache[j]]
    /\ UNCHANGED <<config, ledger, rev, slot, out, history>>

\* The gate has collected a diff.
Begin ==
    /\ rev.pc = "idle"
    /\ rev' \in config.inputs
    /\ out' = NoVerdict
    /\ UNCHANGED <<config, cd, cache, ledger, slot, history>>

End(r) ==
    /\ out' = r
    /\ rev' = Idle
    /\ slot' = [s \in Slots |-> NoSlot]
    /\ blamed' = {}

\* writeReport, and the end of the review: nothing is reported once the gate has given up.
Conclude(r) ==
    /\ ~rev.aborted
    /\ End(r)

Reject ==
    /\ rev.pc \notin {"idle", "panel"}
    /\ rev.aborted
    /\ End(Result("ABORTED", "none"))
    /\ UNCHANGED <<config, cd, cache, ledger, earned>>

\* Triage finds nothing to review.
SkipPass ==
    /\ rev.pc = "triage" /\ ~rev.review /\ ~rev.incomplete
    /\ Conclude(Result("PASS", "skipped"))
    /\ UNCHANGED <<config, cd, cache, ledger, earned>>

\* ... in a diff that may hide something.
SkipIncomplete ==
    /\ rev.pc = "triage" /\ ~rev.review /\ rev.incomplete
    /\ Conclude([Result("ERROR", "skipped") EXCEPT !.infraFailed = TRUE])
    /\ UNCHANGED <<config, cd, cache, ledger, earned>>

ChecksFail ==
    /\ rev.pc = "triage" /\ rev.review /\ config.checks
    /\ Conclude(Result("FAIL", "checks"))
    /\ UNCHANGED <<config, cd, cache, ledger, earned>>

\* The checks pass, and everything is read that the review depends on.
Gather ==
    /\ rev.pc = "triage" /\ rev.review
    /\ \E e \in config.envs : rev' = [rev EXCEPT !.pc = "lookup", !.env = e]
    /\ UNCHANGED <<config, cd, cache, ledger, slot, out, history>>

LookupAllowed == config.cache /\ ~rev.due

\* The pass ledger knows the content of the files, however the diff is printed.
LedgerHit ==
    /\ LookupAllowed /\ ~rev.incomplete
    /\ ledger = [c |-> rev.c, env |-> rev.env, scope |-> rev.scope]

Cached ==
    /\ LookupAllowed /\ ~rev.incomplete   \* an incomplete diff has its marker, hence a key of its own
    /\ CacheKey \in DOMAIN cache /\ cache[CacheKey] = "PASS"

ServeLedger ==
    /\ rev.pc = "lookup" /\ LedgerHit
    /\ Conclude(Result("PASS", "content-cache"))
    /\ UNCHANGED <<config, cd, cache, ledger, earned>>

ServeCache ==
    /\ rev.pc = "lookup" /\ ~LedgerHit /\ Cached
    /\ Conclude(Result("PASS", "cache"))
    /\ UNCHANGED <<config, cd, cache, ledger, earned>>

(***************************************************************************)
(* The panel.  The slots run in parallel; cooldowns are read as they were  *)
(* when it began, and written once, when all slots are through.            *)
(***************************************************************************)

Usable(p) == p \in config.registered /\ p \in config.available
Cooled(p) == SkipUntil(cd[p])

\* Whom a slot may ask after its primary: the declared fallbacks, then anybody of
\* LastResort that is enabled and was not declared.
Ladder(s) == config.slots[s].fallback \o LastResort
MayAsk_DeclaredOnly(s, n) ==
    LET p == Ladder(s)[n]  declared == config.slots[s].fallback IN
    /\ Usable(p)
    /\ n > Len(declared) => declared = <<>> /\ config.failover /\ p \in config.enabled /\ p # config.slots[s].primary
    /\ ~Cooled(p)
MayAsk(s, n) ==
    LET p == Ladder(s)[n]  declared == config.slots[s].fallback IN
    /\ Usable(p)
    /\ n > Len(declared) => /\ config.failover /\ p \in config.enabled
                            /\ p # config.slots[s].primary /\ p \notin ToSet(declared)
    /\ ~Cooled(p)

Running(p, at, base) ==
    [base EXCEPT !.pc = "run", !.p = p, !.at = at, !.clamped = (rev.budget = "clamped"),
                 !.again = p \in Retrying, !.asked = @ \cup {p}]

\* After a run that was not ok: the next of the ladder, unless there is no time left.
Rest(s, at) == {n \in DOMAIN Ladder(s) : n > at /\ MayAsk(s, n)}
FailOver(s, sl) ==
    LET rest == Rest(s, sl.at) IN
    IF sl.status # "ok" /\ ~rev.aborted /\ rev.budget # "none" /\ rest # {}
    THEN Running(Ladder(s)[Min(rest)], Min(rest), sl)
    ELSE [sl EXCEPT !.pc = "done", !.at = 0, !.left = 0, !.clamped = FALSE, !.again = FALSE]

\* A slot's start: no time, or capped with somebody to fall back to, or a run.
Launched(s) ==
    LET p == config.slots[s].primary
        base == [NoSlot EXCEPT !.p = p]
    IN  IF p \notin config.enabled \/ p \notin config.registered THEN NoSlot
        ELSE IF rev.budget = "none" THEN [base EXCEPT !.pc = "done", !.status = "unbudgeted"]
        ELSE IF Cooled(p) /\ config.slots[s].fallback # <<>>
             THEN FailOver(s, [base EXCEPT !.status = "quota"])
        ELSE Running(p, 0, base)

\* Quarantined reviewers stay out, unless nobody else is left.
Launch ==
    /\ rev.pc = "lookup" /\ ~LedgerHit /\ ~Cached
    /\ \E q \in config.quarantine :
          slot' = [s \in Slots |-> IF s \in q /\ q # Slots THEN NoSlot ELSE Launched(s)]
    /\ rev' = [rev EXCEPT !.pc = "panel"]
    /\ UNCHANGED <<config, cd, cache, ledger, out, history>>

\* Time passes: the windows of what starts now are cut short, then nothing starts
\* any more, then the gate aborts what still runs.
Elapse ==
    /\ rev.pc # "idle" /\ config.deadline
    /\ \/ rev.budget = "ample" /\ rev' = [rev EXCEPT !.budget = "clamped"]
       \/ rev.budget = "clamped" /\ rev' = [rev EXCEPT !.budget = "none"]
       \/ rev.budget = "none" /\ ~rev.aborted /\ rev' = [rev EXCEPT !.aborted = TRUE]
    /\ UNCHANGED <<config, cd, cache, ledger, slot, out, history>>

\* The gate has shortened the time this run had.
GateCut(s) == slot[s].clamped \/ rev.tight

\* A reviewer's process ends by itself, or its window does.
EndRun(s) ==
    /\ slot[s].pc = "run"
    /\ \/ \E st \in {"ok", "quota", "fast"} :
             /\ slot' = [slot EXCEPT ![s].pc = "ended", ![s].status = st]
             /\ blamed' = IF st = "quota" THEN blamed \cup {slot[s].p} ELSE blamed
       \/ \E left \in Reset :
             /\ slot' = [slot EXCEPT ![s].pc = "ended", ![s].status = "parsed", ![s].left = left]
             /\ blamed' = blamed \cup {slot[s].p}
       \/ /\ slot' = [slot EXCEPT ![s].pc = "ended", ![s].status = "timeout"]
          /\ blamed' = IF GateCut(s) THEN blamed ELSE blamed \cup {slot[s].p}
       \/ /\ slot[s].p \in Tty     \* its own time limit, taken from the same window
          /\ slot' = [slot EXCEPT ![s].pc = "ended", ![s].status = "quota"]
          /\ blamed' = IF GateCut(s) THEN blamed ELSE blamed \cup {slot[s].p}
    /\ UNCHANGED <<config, cd, cache, ledger, rev, out, earned>>

\* The abort kills its process group.
KillRun(s) ==
    /\ slot[s].pc = "run" /\ rev.aborted
    /\ \E st \in {"timeout", "fast"} : slot' = [slot EXCEPT ![s].pc = "ended", ![s].status = st]
    /\ UNCHANGED <<config, cd, cache, ledger, rev, out, history>>

\* The adapter of some providers asks once more after an error.
RetryRun(s) ==
    /\ slot[s].pc = "ended" /\ slot[s].again /\ slot[s].status \in {"timeout", "fast"} /\ ~rev.aborted
    /\ slot' = [slot EXCEPT ![s].pc = "run", ![s].again = FALSE]
    /\ UNCHANGED <<config, cd, cache, ledger, rev, out, history>>

\* The adapter answers: what the run implies is noted, with the abort as it stands now.
Returned(s) ==
    /\ slot[s].pc = "ended"
    /\ ~(slot[s].again /\ slot[s].status \in {"timeout", "fast"} /\ ~rev.aborted)
    /\ LET fair == ~rev.aborted /\ ~slot[s].clamped /\ ~rev.tight
           effs == Effects(slot[s].p, slot[s].status, fair, slot[s].left)
       IN  slot' = [slot EXCEPT ![s] = FailOver(s, [slot[s] EXCEPT !.eff = @ \o effs])]
    /\ UNCHANGED <<config, cd, cache, ledger, rev, out, history>>

Settled == {s \in Slots : slot[s].pc = "done"}
OkRuns == {s \in Settled : slot[s].status = "ok"}

\* All slots are through.
Collect ==
    /\ rev.pc = "panel"
    /\ \A s \in Slots : slot[s].pc \in {"done", "absent"}
    /\ cd' = [p \in Providers |-> Applied(p)]
    /\ rev' = [rev EXCEPT !.pc = "judge"]
    /\ UNCHANGED <<config, cache, ledger, slot, out, history>>

\* Nobody gave a usable review.
NoReview ==
    /\ rev.pc = "judge" /\ OkRuns = {}
    /\ Conclude([Result("ERROR", "panel") EXCEPT
                 !.quotaLocked = Settled # {} /\ \A s \in Settled : slot[s].status \in {"quota", "parsed"},
                 !.infraFailed = \E s \in Settled : slot[s].status # "unbudgeted"])
    /\ UNCHANGED <<config, cd, cache, ledger, earned>>

\* The findings are judged.  A pass is remembered unless it leaves something to
\* decide; the ledger, kept by the driver, wants a full panel and the full scope.
Cacheable(v) == config.cache /\ ~rev.incomplete /\ ~Promotion /\ ~rev.due /\ v \in {"PASS", "SOFT-PASS"}
LedgerEligible(v) == v = "PASS" /\ ~rev.incomplete /\ rev.scope = "full" /\ ~Promotion /\ ~rev.due
FullCoverage == OkRuns = Slots

Judge ==
    /\ rev.pc = "judge" /\ OkRuns # {}
    /\ \E v \in {"PASS", "SOFT-PASS", "FAIL"} :
          /\ Conclude(Result(v, "panel"))
          /\ cache' = IF Cacheable(v) THEN [k \in DOMAIN cache \cup {CacheKey} |-> IF k = CacheKey THEN v ELSE cache[k]]
                      ELSE cache
          /\ ledger' = IF LedgerEligible(v) /\ FullCoverage
                       THEN [c |-> rev.c, env |-> rev.env, scope |-> rev.scope] ELSE ledger
          /\ earned' = IF v = "PASS" /\ ~rev.incomplete /\ ~Promotion
                       THEN earned \cup {[c |-> rev.c, env |-> rev.env, scope |-> rev.scope]} ELSE earned
    /\ UNCHANGED <<config, cd>>

\* The process is killed: what the panel has learned of its providers is lost.
Kill ==
    /\ rev.pc # "idle" /\ config.deadline
    /\ End(Result("ABORTED", "none"))
    /\ UNCHANGED <<config, cd, cache, ledger, earned>>

InReview ==
    \/ SkipPass \/ SkipIncomplete \/ ChecksFail \/ Gather \/ ServeLedger \/ ServeCache
    \/ Launch \/ Collect \/ NoReview \/ Judge \/ Reject
    \/ \E s \in Slots : EndRun(s) \/ KillRun(s) \/ RetryRun(s) \/ Returned(s)

Next == Tick \/ Begin \/ InReview \/ Elapse \/ Kill

\* A reviewer's process has a time limit, and everything else in a review is code.
\* Reviews are asked for, and time goes on between them.
Fairness == WF_vars(InReview) /\ WF_vars(Begin) /\ SF_vars(Tick)

Spec == Init /\ [][Next]_vars /\ Fairness

(***************************************************************************)
(* Correctness.                                                            *)
(***************************************************************************)

Cooldown == [left : Nat, age : 0 .. StaleAfter + 1, source : {"parsed", "default"}, strikes : 0 .. Len(Backoff)]
RunStatuses == {"none", "ok", "quota", "parsed", "fast", "timeout", "unbudgeted"}

\* Every variable has its type; a slot that runs has a provider the panel may use.
TypeOK ==
    /\ config \in Configs
    /\ cd \in [Providers -> Cooldown \cup {Null}]
    /\ \A k \in DOMAIN cache : cache[k] \in {"PASS", "SOFT-PASS"}
    /\ rev.pc \in {"idle", "triage", "lookup", "panel", "judge"}
    /\ rev.aborted => rev.budget = "none"
    /\ \A s \in Slots : slot[s].pc \in {"absent", "run", "ended", "done"} /\ slot[s].status \in RunStatuses
    /\ \A s \in Slots : slot[s].pc = "run" => slot[s].p \in config.registered
    /\ blamed \subseteq Providers

Strikes(e) == IF e = Null THEN 0 ELSE e.strikes

\* A provider is put on cooldown only for failures of its own.  However many slots it
\* serves and whatever becomes of each run, one review takes it at most one step along
\* the backoff schedule, and not at all if one of its runs was good, if the gate has cut
\* its window short or if the deadline abort has killed it, in whatever order abort and
\* end are seen (applyCooldownEffects, effectFor, orchestrator.ts:577).
StrikesAreFairStep ==
    \A p \in Providers :
        /\ Strikes(cd'[p]) <= Strikes(cd[p]) + 1
        /\ rev.pc = "panel" /\ cd'[p] # cd[p] /\ cd'[p] # Null
              => p \in blamed /\ \A s \in Slots : slot[s].status = "ok" => slot[s].p # p
StrikesAreFair == [][StrikesAreFairStep]_vars

\* A pass that no reviewer has just given was given before, by a panel that had
\* nothing left to decide, to the same content, scope and environment; and a
\* review that claims an outage of its reviewers has asked one, or knows one to be
\* capped (cache.ts, the pass ledger, allReviewersInfraFailed).
VerdictIsGroundedStep ==
    /\ out'.source \in {"cache", "content-cache"} /\ out' # out
          => [c |-> rev.c, env |-> rev.env, scope |-> rev.scope] \in earned
    /\ out'.infraFailed /\ rev.pc = "judge"
          => \E s \in Slots : slot[s].asked # {} \/ Cooled(config.slots[s].primary)
VerdictIsGrounded == [][VerdictIsGroundedStep]_vars

\* While there is time, a slot gives up only when everybody it may ask has been
\* asked: its fallbacks, and every enabled provider of LastResort that is not
\* capped (the failover loops of the panel).
NobodyLeftToAsk ==
    rev.pc = "panel" /\ config.failover /\ rev.budget # "none" =>
        \A s \in Slots : slot[s].pc = "done" /\ slot[s].status # "ok" =>
            \A p \in (ToSet(LastResort) \cap config.enabled) \cup ToSet(config.slots[s].fallback) :
                Usable(p) /\ ~Cooled(p) => p \in slot[s].asked

=============================================================================

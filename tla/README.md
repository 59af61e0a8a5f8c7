# reviewgate in TLA+

reviewgate stands between a coding agent and the end of its turn. The agent's
host runs three hooks: one after each edit (*trigger*), one when the agent wants
to stop (*gate*), one when a session starts, resumes or compacts (*reset*). The
gate collects the work since the last review, has a panel of reviewers look at
it, and lets the agent stop, tells it to go on, or hands over to a human. It is
a short-lived process each time, so everything it knows between two stops is in
files under `.reviewgate/`, which several sessions and their asynchronous hooks
share. What can go wrong is therefore mostly a matter of order: who reads or
removes which file when, what was captured and what was recorded, what survives
a process that is killed, what is booked twice when it is read again.

Beside the gate there is a second program in the repository, which measures the
gate's policy: benchmarks that are replayed with a pass switched off (`bench`), a
rig that records whole sessions (`rig`), and a publication that classifies the
passes (`stats policy`). It runs for hours, writes into directories that others
may write into, and must not accept a measurement that is not what it says.

Paths below are relative to the repository root; line numbers are in
`PROJECT.json`, which maps each definition to the code it translates.

## 1. The system

| part | keeps | operations | hard because | correct when |
|---|---|---|---|---|
| advisory lock, `src/utils/flock.ts` | lock file, steal mutex, level-2 mutex | acquire, reclaim a dead holder's lock, release | three files, check-then-act on each, deaths anywhere, pids reused | one holder; a live holder keeps its file; dead holders are reclaimed |
| hooks, `src/hooks/handlers.ts`, `src/cli/commands/gate.ts` | `dirty.flag`, `deferred.flag`, gate lock | trigger, stop probe, deferral, review base, snapshot, belt, reap, reset | triggers take no lock, resets may go on without it, git answers at different moments, hooks are killed | no work drops out of the next review; nobody is told "nothing to review" over unreviewed work |
| loop driver, `src/core/loop-driver.ts` | `state.json`, `pending.json`, `decisions/<n>.jsonl` | re-arm (paths A and B), ladder of escalations, review, outcomes, deferrals | ten counters with different resets; a dozen reasons to stop; the world changes during the review | the loop ends, nothing is dropped, a pass is earned, a human is told in time |
| control plane, `src/config/control-plane.ts` | last-known-good policy, pending candidate | resolve, finalize, approve, bootstrap, inherit | files edited by anyone at any time; approvals cross processes | no policy weakens without a human who saw it |
| reviewer panel, `src/core/orchestrator.ts`, `quota-cooldown.ts`, `cache.ts` | cooldowns, cache, ledger of passes | run slots, fail over, abort at the deadline, serve from the cache | parallel reviewers, timeouts, quotas, one provider in several slots | one outage, one strike; nobody who could review is left out; a served pass was earned |
| adapters and processes, `src/providers`, `src/utils/spawn.ts` | - | call, retry, probe, kill, drain, parse | an end is a race of process, pipes, four limits and a helper that outlives its parent | every call ends; what is taken for a review is whole, and a FAIL is not taken for a pass |
| verdict, `src/core/aggregator.ts` and the filters | - (pure) | cluster, demote, decide | twenty passes in a row, each with its exceptions | judgments alone do not take a critical finding out of the verdict |
| what a review covers, `gate.ts`, `reviewed-snapshot.ts`, `session-manifest.ts` | the reviewed snapshot, the ledger, the session's baseline | capture until two readings agree, scope, serve, attribute | others write during the capture; unlocked read-modify-write by parallel hooks | a review covers one state the tree had; own work is never taken for someone else's |
| learning, `src/core/fp-ledger`, `reputation`, `agent-lessons` | three stores fed from the same answers | absorb, promote, decay, pin, revoke | the gate may die between any two stores; answers are read again at each stop | each answer counts once, and its last version counts |
| brain, `src/core/brain` | notes, candidates, a pool of proposals | curate, promote, enrich, fade | agreement is looked for over reviews, without a lock held throughout | a note was agreed on; an agreement becomes a note |
| lore, `src/core/lore` | pages, approvals, reminders, claims | guard, absorb, approve, verify | answers are found again by a finding's number; caps, claims and cooldowns between two stops | what is told as approved was vouched for; a green stop owes no question |
| audit log, `src/audit` | a file per gate and day, hash chains, traces | append, refer to a trace, prune, verify | failing disks, prunes that stop half-way, midnight | an honest log verifies |
| benchmark, `src/cli/commands/bench.ts` | captured calls, results | run a baseline, replay it with passes off, judge | parallel reviewers, retries, duplicate slots, a ceiling of calls | an accepted benchmark compared like with like |
| rig, `src/rig` | tape, manifest, replay sink | record, harvest, replay a branch | a gate records while the driver polls; gates die; envelopes are too large | what says it is exact is complete; a report is counted once; a branch is its own |
| policy statistics, `src/stats/policy`, `stats.ts` | one attempt's directory | assemble, stage, link, verify, mark, clean up; classify | no lock over the sources; directories removed and made again; links of another one | an accepted measurement is whole; a refused one leaves nothing; a deletion loses nothing |
| state store, `src/core/state-store.ts` | `state.json` on disk | load, recover, update under a lock | one temporary file for locked and unlocked writers | a reader sees a whole state; no update is lost |

The rest (configuration loading, research, reports, hosts and installers, most
operator commands) is sequential, textual or offline; `PROJECT.json` lists each
with the reason it is left out or reduced.

How they interact: a host process calls a hook; the trigger writes `dirty.flag`;
the gate probes, takes the gate lock (through `flock`), resolves the policy in
force, loads `state.json`, decides the review base from the flag, takes a verified
snapshot of diff and tree, and calls the driver; the driver books what the agent
answered to the last report (learning, lore), climbs its ladder, calls the panel,
which calls the adapters, judges their findings, curates their proposals and
asks about lore, and records the outcome with locked updates of `state.json`
before it removes the flag by rename, compare and put-back. The reset wipes and
reseeds all of these. Every step leaves its event in the audit log.

## 2. The modules

| module | models | extends or uses |
|---|---|---|
| `Mutex` | what a lock promises: one holder, which must have asked | - |
| `FileLock` | `flock.ts`, every file operation a step | `Mutex` (refinement) |
| `StopGate` | the three hooks of several sessions, every access to a shared file a step | the lock as `Mutex` promises it |
| `LoopDriver` | the driver and the part of the gate that leads to it, one session, a step per decision | - |
| `ControlPlane` | which policy the gate is under: resolution, adoption, approval, every access to a shared file a step | - |
| `Panel` | one review after another: early ends, slots, fallbacks, deadline, cooldowns, cache | - |
| `Reviewer` | one call of an adapter and the process behind it, event by event | - |
| `Catalog` | what each policy pass may do, as the catalogue lists it apart from the passes; no state | - |
| `Verdict` | what becomes of the findings of one review, a step per pass, and what is recorded of it | `Catalog` |
| `Scope` | what a capture reads, what is reviewed, served and attributed | - |
| `Audit` | the files of the audit log, a step per write that can fail | - |
| `Learning` | the three stores, the answers they are fed from, notes on false positives | - |
| `Brain` | pool, candidates, curators and notes | - |
| `Lore` | pages, approvals, reminders, claims, and the answers of the agent | - |
| `Bench`, `Publication`, `Rig`, `Classify` | the measuring of policies | - |
| `MCReviewers`, `MCScope`, `MCPolicy` | several of these side by side, for one run of TLC each | `Reviewer`, `Brain`, `Lore`; `Scope`, `Audit`; `Bench`, `Publication`, `Rig`, `Classify` |
| other `MC...` | values for TLC | the module |
| `..._proofs` | theorems: of `FileLock`, `LoopDriver`, `StopGate`, `ControlPlane`; `Learning_proofs` also of `Brain`, `Scope_proofs` also of `Audit`, `Reviewers_proofs` of `Panel`, `Reviewer`, `Verdict` and `Lore`, `Policy_proofs` of `Bench`, `Publication`, `Rig` and `Classify` | the modules and `TLAPS` |

Where a run looks at several modules, an initial state chooses one of them and
leaves the others off: they share no variable and are put into one run to be
checked in one go, not to be composed.

`StopGate` and `LoopDriver` look at the same gate from two sides. `StopGate` has
all the interleavings and a review reduced to *passes, fails, gives no verdict,
hands over*; `LoopDriver` has all of the review's bookkeeping, and of the
interleavings only what can happen while the panel runs. Both keep the history
variable `owed`: the work no review has passed and no human was told of. What the
panel does in between is in `Panel` (whom it asks), `Reviewer` (what an answer is)
and `Verdict` (what a finding is worth); what the capture in front of it sees is in
`Scope`.

### FileLock

`file[l]` is the content of a lock file: the call whose token it holds. `pc`,
`on` say which operation a call does next on which of the three files. `Create`
and `Contend` are `tryCreate` (a hard link appears complete or not at all);
`Look`, `TryAgain` and `GiveUp` are the retry loop; `Read` and `Probe` are the two
halves of `isReclaimable`, with the pid in hand in between; `Move` and `Settle`
are the two halves of `reclaimIfDead` (rename away, look, put back with a link);
`CheckToken` and `Unlink` the two of `releaseOwned`. `Exit` ends a process anywhere and
leaves its files; `ReusePid` gives the pid to another process.

### LoopDriver

`st` is `state.json`; `rows` and `fps` its per-round histories (signatures, false
positives). `flag`, `pending` and `dec` are the dirty flag's base, the last
report and the decision lines. `head`, `tree` and `edits` are counters: each edit
makes a tree nobody has seen, a commit a clean one. `run` is what the gate
captured. A stop is `Skip` (the probe) or `Gather`, then one of `NothingToReview`,
`Reprompt`, `EndLoop`, `PutOffEnd`, `StartReview`; a review ends in `Pass`, `Fail`,
`Error`, `QuotaLocked`, `InfraFailed` or `TimedOut`. `Rung` is the ladder in the
order of the code; `PathA` and `PathB` are the two re-arming paths. The agent and
other processes `Edit`, `Commit` and `Decide`, also while the panel runs.

A signature stands for its finding, with a fixed severity, region and owner; a
rejected decision line is rewritten in place, where the code appends another one
and reads the last valid; `waived`, `st.quota` and `st.incomplete` stop at the first
value beyond their cap. Not in it: region memory, low-value acknowledgements,
`rejectRateCountsAllRejects = false`, rebased histories, a missing
`ESCALATION.md`, a repository without commits.

### StopGate

One action per access of a shared file that another hook could see half done:
the trigger reads the flag and HEAD (`TriggerRead`), then writes (`TriggerWrite`);
the probe reads flags and state, then HEAD, then the tree (`Probe`, `ProbeHead`,
`ProbeTree`); the gate takes the lock or defers (`TakeLock`, `Contend`), turns a
deferred marker into a flag before it removes it (`Consume`, `Unmark`), loads or
recreates the state (`Setup`), fixes the review's base (`Gather`), takes the
snapshot and the belt's flag or stays closed (`Snapshot`, `KeepClosed`), reads the
flag again and re-arms (`Drive`), gets a verdict (`Pass`, `Fail`, `HandOver`,
`NoVerdict`), and reaps the flag in two steps (`Reap`, `Settle`). A session start
reads what is to survive (`Reset`, `Wipe`), removes the flag, the deferral and the state
one after the other (`Unflag`, `Undefer`, `Unstate`), seeds, hashes and saves (`Seed`,
`SeedTree`, `Save`), with the lock or without. `Kill` ends any hook anywhere.

A flag has a base and a stamp, `since`: `base_ts`, half a minute before the trigger that
began the batch, or `NoScoping` in the flags the gate makes up. A review shows what was
committed after the base, and of the untracked files those not older than the stamp
(`InDiff`); the tree's fingerprint knows no stamp. The time of a file is the number of its
edit, and `Stamps` are the times a new batch may be stamped with: none later than
the last edit or than an unreviewed new file in the tree, unless `late stamp` is
among the `Races`. Every edit makes a new file, the kind a stamp can leave out: a change
of a file that git tracks is always in the diff, so a model with such edits would have
fewer ways to lose work.

Every edit is made with an editing tool; the diff and the tree's fingerprint are
one step here (`Scope` has the rounds); the probe's reading of flags and state is
one step; a flag that does not parse, the setup deadlines and the quota latch are
left out.

### ControlPlane

`lkg` is `control-plane.json`: the approved policy and, when the configuration
files say something else, the candidate. `src` is what is in those files, all
layers as one value; `Effective[v][src]` is what version `v` of the program makes
of it, `Invalid` if it does not load. `call[c]` is a stop, a status command, an
approval or an `init`, with the place it has come to and what it has read.

A stop is armed or not (`Probe`), resolves the policy in force (`Inspect`,
`ReadApproved`, at first contact `FirstContact`, `Adopt`, `Bootstrap`, then `Load`,
and `Clear` or `Persist` under the control-plane lock), is through if nothing
forces a review (`Skip`) or takes the gate lock (`TakeGate`, `Defer`), and, when the
code has passed (`PassReview`), looks at the configuration once more (`Finalize`)
and adopts a stricter candidate or marks another one as reviewed (`Settle`). A
human is shown what there is to approve (`ShowCandidate`, `ShowFirst`), answers
(`Confirm`, `Decline`), and the answer is checked against the files and then under
the lock (`Create`, `Recheck`, `Approve`). `Install` and `InitBaseline` are `init`.
From outside the files are edited or deleted, the program is upgraded, the main
checkout of a worktree approves something else, calls die and locks time out.

`SafeStrengthening` has the four settings the code has an order for; `rest` is
everything else. A section under the control-plane lock is one step. The first
twelve digits of a fingerprint stand for the policy. Not in it: a state of an
older schema or with a wrong fingerprint, the report, `control-plane.flag` (it
only makes `Clear` look again, which it may always do).

### Panel, Reviewer, Verdict

In `Panel` a review passes through `triage`, `lookup`, `panel` and `judge`. `slot[s]`
is a reviewer slot with its place in the chain (`at` in `Ladder`), the provider that runs, how
its run ended and what that implies for the provider's cooldown (`eff`). Cooldowns
are read as they were when the panel began and written once, when all slots are
through (`Collect`). `Elapse` takes the review from ample time to windows cut short,
to no new start, to the abort. `earned` and `blamed` are history: what a panel has
passed, and who failed by himself. The key of the cache leaves out reputation,
quarantine and clusters; "timeout" stands for timeouts and slow errors. Two
processes that write `quota-cooldowns.json` at once (`review-plan` beside a gate) are
not modelled: the store takes no lock for its read-modify-write.

`Reviewer` is one call: `child` the process, `pipe` what `spawnSafely` knows of it (its
timers, whether it has been killed, what it still waits for), `heard` what has been
read, `try` the attempt. A program prints one of a few kinds of text in three
lengths; it can end, be cut off at its end, hang, be killed by its time limit, the
idle watchdog, the gate's deadline or the output cap, and leave a helper that holds
the pipes. HTTP adapters have a request instead. A program that has finished with
exit 0 while its time limit fires first counts as a timeout; a run killed at the
output cap is an error. `complete()`, preflights and cost are left out.

`Verdict` takes one review's findings through the passes of `orchestrator.ts` and
`aggregator.ts` in the order of the code, one action per pass. What a pass reads in
a text is a free choice of the findings it matches; whom it protects and what it
does to the rest is the code's. `Cluster` merges; from there on `fs` has one
representative per cluster. `effects` and `raw` record what lowered a finding and
what it was. Files and wordings are numbers, for their order; deterministic
findings and excluded paths are not inputs. Every pass is a `Pass`: whom it matches,
on what ground it spares one (`none` if on no ground), what it makes of the rest; a pass in
`setting.ablated` matches and changes nothing, as in a measurement. The recorder of
`policy/trace.ts` is `telemetryError`: it is set for good by a transition, a ground or an
ablation that `Catalog` (translated from `policy/catalog.ts`, not from the passes) does not
know (`Recordable`), by a signature in two clusters (`LinksTwice`, as `linkFinal` throws),
and by a trace that its schema refuses at the end (`Accepted`).

### Scope, Audit

`Scope` has the contents of the files (`tree`, `base` at HEAD), one gate and its
captures: `ReadDiff`, `ReadHash`, `ReadFiles` in rounds until two agree, then
`ListDirty`, and the review is `Serve`d by the ledger, has `Nothing` to do, or
`Review`s and `Record`s. `StartRead`, `StartList`, `StartWrite` are the session start's
baseline; `TriggerRead` and `TriggerWrite` the triggers' unlocked update of the
manifest, which may write an old one back. A content is the name of who wrote it,
so "own" and "other" can be told apart in what was shown. `older` are the untracked files from
before the batch's `base_ts`: not in the diff (`LeftOut`), and in the fingerprint. What a
capture left out for that is in `gate.out`. What the prompts, hashes
and size limits do is data. A file is untracked if HEAD has none: `git add` without a
commit and `git rm --cached`, which change git's index alone, are not among the steps.

In `Audit` each gate has one logger, which chooses a day once; files are per logger
and day. `PruneOne` removes one file at a time and may stop anywhere;
`AppendFails` leaves nothing or part of a line; `LinkTrace` and `TraceWritten` are
the two names a trace has for a moment. A logger that crosses midnight keeps its
day: the model assumes that a gate lasts less than a day.

### Learning, Brain, Lore

`Learning`: `dec` is the agent's answers per round, `ledger`, `rep` and `lessons` the
three stores, `brain` the notes for known false positives. A stop reads the last
report and books it store by store (`gate.pc` goes through them), and may be killed
between any two; the next stop reads the same answers again. The agent may flip an
answer, a human may pin, unpin and revoke, the clock runs in half-lives, a new cycle
or session starts the counting anew. `learnt` and `rated` are history. Not
modelled: pairing after its timeout, the recovery of a corrupted ledger (which loses
`seq`), few-shot examples.

`Brain`: `pool` is what the reviews of a session proposed, `cands` what waits for
another provider, `notes` what reviewers are told; `job[k]` is a curator, which reads,
groups, looks for a note near its text and writes, with the stores' locks taken for
single steps. Texts are near or the same by two relations that need not be
transitive (one is within the other, and near is symmetric). Names are sequences of parts between hyphens; a
reviewer's id is its provider's and its persona's, and `ProviderOf` takes the provider back
out of it as `curator.ts` does: the known provider it begins with, or else all but the last
part. Voices and `muffled` are
history: what was said, and whether the code dropped something on purpose that an agreement
would have needed (too wide, rejected, expired, beyond a limit, cut off). Calls of `Brain`, `Reviewer` and `Lore`
share a run and no state.

`Lore`: a page is what is on disk, whether it is canon, and when it was verified;
`ask` is what the open report asks, `book` the approvals, claims and cooldowns.
`visit` is a gate: it absorbs the last answers, decides what it asks, reviews, reports,
and updates its state. `word` is history: what was vouched for, by whom. The anchors of
every page reach the diff, their order is a fixed rank, a challenge is a record of the
page.

### Bench, Publication, Rig, Classify

`Bench` runs profile after profile, case after case; `calls[a]` is an agent (a slot or the
critic), `capture` the entries of the baseline, `told` history: each call with its number,
prompt and answer. Calls are numbered when they are made, captured when answered, and
sorted by their number (`ByOrdinal`) when the baseline ends. `Publication` is the directory of one
attempt at a time: `root` is a number of its own for each directory that was made, `files`
what is in it, with who made it (the code compares device and inode) and what it was
derived from. One file stands for all copies of sources, one for result, report and
snapshot. `Rig` is a driver that polls while gates review, block, are killed or time out, escalate
and begin another cycle, whose rounds have the names of the last one's; `tape`, `sink` and
`manifest` (with policy replay or of an older schema) are the artifacts, `harvested` the result,
`replay` the two branches of `rig ablate`. An envelope gets lost because it is too large
("overflow": a marker stays), because sanitizing changed it ("lossy"), because a tree moved
while it was read ("unread": nothing stays) or its call is not on the cassette ("untaped");
`CaptureFails` says which of these happen. `Classify` computes the class of every pass from observed errors;
authority, bindings and thresholds are inputs.

Left out: the attestation of dogfood rows (`policy-attest`), edits of the corpora beyond
`Commit` and `Edit`, preflights, statistics that change no class, cost and recall tables,
cassettes outside the rig, artifacts that change before the harvest.

## 3. What is checked

| run | question | bounds | distinct states |
|---|---|---|---|
| `file_lock` | does the protocol implement a lock that survives deaths? | 3 calls, 2 rounds of the steal mutex, fair | 21 thousand |
| `loop` | do work and findings leave only by a pass or to a human? | 3 findings, cap 2 or 1, 2 edits, 1 commit, each outage | 2.2 million |
| `loop_live` | are outages bounded, and does the agent get away? | 2 findings, 2 edits, 1 commit, fair | 185 thousand |
| `gate` | is unreviewed work always in the next review's scope? | 2 sessions, 2 edits, 1 commit, 1 kill, 1 reset | 9.3 million |
| `gate_live` | is everything reviewed or handed over in the end? | 2 sessions, 1 edit, 1 commit, 1 kill, fair | 223 thousand |
| `control` | is the policy in force always one a human vouched for, or stricter? | 2 calls, 4 contents of the files, 2 versions, 2 events, a worktree | 4.2 million |
| `panel` | who is asked, who is blamed, what is served? | 3 installations, 2 slots, 2 steps of backoff | 4.5 million |
| `verdict` | what can still take a finding out of the verdict? is the trace of it whole? | pairs and triples, 4 configurations, one with passes switched off | 4.0 million |
| `learning` | does each answer count once, in its last version? | 5 scenes, 2 providers, 2 or 3 rounds | 6.6 million |
| `scope` | does a review cover what the gate believes it covers? does an honest log verify? | 9 scenes, 2 files; 2 loggers, 4 days, 2 events each | 4.5 million |
| `policy` | is what is accepted, exact or deletable what it says? | 5 benchmarks; 2 + 2 callers, 4 troubles; 2 turns, 3 reviews; 5 families of studies | 2.4 million |
| `reviewers` | does every call end and is a review whole? what does memory make of it, and what is told of lore? | 6 adapters; 8 scenes of memory, 2 to 4 reviews; 4 scenes of lore, 3 rounds | 1.5 million |

**Why these bounds.** *FileLock*: three calls are a dead holder and two reclaimers,
one of which then is the live holder the other could rob. *LoopDriver*:
`HardCap(2) = 4` rounds are enough for each window of the convergence and
recurrence tests to be full and then to slide; three findings of different
severity, owner and region are needed where they are counted and compared.
`Loop.cfg` is cut off by `LatchKeepsFlag` (below). *StopGate*: two sessions are one to
review and one to interfere; the second edit is the one whose trigger meets an
existing flag; a third session would only be a second interferer. *ControlPlane*: two
calls are one that decides and one that changes what it decided on; the four
contents are one of each class (no project file, stricter, looser, one that does not
load), and the second version makes of the looser one what is approved. *Panel*: two
slots that are each other's way out are the least in which a provider fails twice
in one review; the schedule of two steps has a first, a last and a repeated one.
*Verdict*: two findings meet or do not; three in a row are the least for which it
matters who is taken first. *Learning*: the second round is the one in which an
answer to the first is read again, the third the one in which an entry that went
comes back. *Scope*: the second file is the one outside the change; three re-readings
are the code's own number, and at most two writes fall into a capture, since a third can
go unnoticed (section 4). *Audit*: four days are a day older than
retention at both ends. *Bench*: repeats, retries, duplicate slots, a critic, a
ceiling, each in a benchmark of its own. *Publication*: two callers of each kind are
one to be in the way of the other; four troubles are the root removed, made again,
and something else at each side. *Rig*: the second turn is the one a late report
could be counted in. *Brain*: the limits are one promotion and two candidates, so
both are met; unit of time 90 days, `ArchiveAfter = 3`. *Lore*: room for one reminder a
day, two pages that want it. Hooks, callers and loggers are interchangeable, and runs
without a temporal property use that as symmetry.

**Fairness.** `FileLock`: the host schedules every process, so every call that
can take a step takes one; nothing makes a process end or a call give up.
`LoopDriver`: the agent ends every turn, the gate's set-up and its review run
under deadlines (the self-deadline of `src/core/loop-driver.ts`), so a stop and a
return happen; nothing is assumed of the agent's edits and decisions.
`StopGate`: triggers and session starts run to their end unless killed. Three
strong assumptions are made and named in the module: a lock that is free again
and again is got, a disk on which the flag cannot be written is not full for
ever, and reviews do not fail to give a verdict for ever (which is what
`DefersBounded` shows of the driver).
`Panel`: a reviewer's process has a time limit and everything else in a review is
code; reviews are asked for and time goes on between them.
`Reviewer`: what `spawnSafely` and the adapter do themselves happens: a timer that is set
fires, a killed process is gone, the step after it is taken; nothing is assumed of the
program, of its helper or of the server.

**Deadlock** is checked where a system that stops is an error (`panel`, `policy`); in
the other runs calls end, the bounds end the agents' work, and an idle checkout is a
proper final state.

### Properties

Each property of a run has a mutant of the code that breaks it; the mutated operators
stand next to the ones they replace and are named after the mistake
(`Chain_DeclaredOnly`, `Key_NoScope`, `OwnedWith_Latest`, ...).

*FileLock.* `ImplementsMutex`; `DeadLockReclaimed`: unless the level-2 mutex was left
behind or a pid was reused, a dead holder's lock is got again.

*LoopDriver.* `GreenIsEarned`: "no code changes" or a pass is only said when all
the work there was when the gate looked was in a review that passed, or was
handed over, and no blocking finding is undecided. `StandDownIsTold`: the gate
stands down only over work the human was told of. `NoFindingDropped`: no commit,
timeout, outage or re-armed cycle loses an undecided finding. `DefersBounded`: an
outage lets only `quotaDeferMaxConsecutive + infraDeferMaxConsecutive` stops in a row
go unreviewed. `LetsAgentGo`: the forced turns end. With `infraDeferMaxConsecutive = 0`
it fails: a timeout and an outage in turn reset each other's streak, and the gate
blocks for ever.

*StopGate.* `WorkTracked`: whatever is unreviewed is in the scope of the next
stop. `LetGoIsEarned`: nobody is let go over work of its own that is owed. `WorkSettles`.

*ControlPlane.* `InForceIsVouched`: the policy in force is the one a human vouched
for last (at first contact without a project file: the user's own) or at least as
strict in everything. `ChangeFollowsPass`: a policy is only replaced after the code
has passed under it with exactly this candidate.

*Panel.* `NobodyLeftToAsk`: while there is time, a slot gives up only when everybody it
may ask has been asked. `StrikesAreFair`: one review takes a provider at most one step
along the backoff schedule, and not at all for a good run or a window the gate cut
short. `VerdictIsGrounded`: a pass that is served was earned for the same content,
scope and environment; a claimed outage was seen.

*Verdict.* `CriticalStaysOpen`: judgments of value, however many agree, leave a critical
finding open. `ClaimedFixIsChecked`: a fix that was claimed and did not help fails the
review. `OrderDoesNotMatter`: clusters do not depend on the order of the reviewers,
ties of findings that have no word in common included.
`TraceIsWhole`: the recorder's trace is lost exactly when a signature lies in two
clusters; the passes do nothing the catalogue does not know, and spare nobody on a ground
it does not know.

*Scope, Audit.* `CaptureIsOneState`: what the panel is shown, what will stand for
"reviewed", and what later reviews are compared with are one state of the tree.
A file that is not shown is as in the base, or untracked and older than the batch.
`LedgerServesPassed`: what is let through without a review has passed one, at full
scope and all together. `OwnWorkIsReviewed`, `OwnWorkNotDisowned`: a session's work is not
put down as somebody else's, by the scope or by the agent. `HonestReadsWhole`.

*Learning.* `OneVotePerRound`: a round counts once against a provider, however often it
is read (that a reputation event is on the side the last answer put it, `LastWordCounts`, is
proved and not run).
`BookedIsHeard`: whatever a stop adds to a store is what the agent said of that very
report in the end.

*Reviewer, Brain, Lore.* `ReviewIsWhole`, `BlockingIsHeard`, `ReviewEnds`; `NotesAreShared`: a
note was put forward by two providers (three if it was read off the diff), or by one
with a page to show, however often one repeats itself; `AgreementIsKept`: two that say
alike are heard; `ToldIsVouched`: what is told as approved was vouched for by the human;
`GreenSaysAll`: a pass leaves neither a promotion nor a reminder unsaid.

*Policy.* `SameAnswers`: in an accepted benchmark each profile was asked and told what
the baseline was. `AcceptedIsWhole`: an accepted measurement is whole for as long as its
attempt is there. `RefusedLeavesNothing`. `ExactIsComplete`: a harvest that says exact has
every policy run of the turns. `CountedWhereWritten`: a report counts in the turn that
wrote it. `BranchesAreTheirOwn`. `NothingIsLost`: what the group of a deletion candidate was
seen to lose is kept by a pass that stays.

## 4. Where the code disagrees with its comments, and where a hypothesis is needed

The runs above pass under named constants that say which situations do not occur.
Each one is a situation the code does not rule out; giving the constant another
value in the run's `.cfg` or `MC` module shows what then breaks.

*Lock* (`ExitInProbe`). `isReclaimable` reads a pid, awaits, and probes it. If the
holder releases and exits in between, the probe finds a dead pid while a third
call has created the lock; the live lock is renamed away, and before it is linked
back another call can create it (`flock.ts:75`, `:78`, against the comments at 115
and 149; five calls are needed). All other deaths are harmless.

*The quota latch and a second escalation* (`LatchKeepsFlag`, a constraint of
`Loop.cfg`). Only an escalation whose own reason is the latch keeps the flag; one
for another reason, while the latch holds, removes it (`loop-driver.ts:2888`,
against its comment at 2883).

*A commit nobody flagged* (`UnseenCommits`). A turn commits from a shell and then
edits with a tool: the trigger takes the new HEAD for its base (`handlers.ts:161`),
the review starts there, and its pass records the HEAD as reviewed. A test
(`gate-skip-lock.test.ts:67`) and a comment (`gate.ts:778`) say that such commits
are reviewed. With `{"gathered", "reviewing"}` `StandDownIsTold` fails as well: HEAD
is read when the human is told, the tree with the diff, and an edit committed in
between makes both match at the next stop.

This has a root that returns in `StopGate`: **a flag's base takes precedence over
the last reviewed HEAD** (`gatherReviewContext`), **and a new flag takes the current
HEAD for its base** (`handleTrigger`). Whatever makes a trigger find no flag while
committed work is unreviewed loses that work. The second root is that **a
review leaves out untracked files older than its flag's stamp** (`utils/git.ts:318`)
**and the fingerprint recorded with its verdict has them** (`workingTreeStateHash`, whose comment
says "hash scope ≡ diff scope", `utils/git.ts:388`). The constant `Races` names twelve
situations. With `Races = {}` `WorkTracked` and `LetGoIsEarned` hold; adding any one
of them to `Gate.cfg` breaks one of the two:

| situation | broken | how |
|---|---|---|
| `unflagged commit` | `WorkTracked` | a session start (also a resume or a compaction) removes the flag of uncommitted edits, which are then committed before the next edit |
| `reset over commits` | `WorkTracked` | a session start takes another session's unreviewed commits for reviewed; a stop deferred to it promised a review |
| `reset in review` | `LetGoIsEarned` | a session start without the lock removes the flag between the snapshot and the driver's reading it: "no code changes" over a diff in hand |
| `trigger in setup` | `WorkTracked` | the driver takes a flag newer than the snapshot for the one it reviews, and reaps it (three edits are needed) |
| `trigger in reap` | `WorkTracked` | the trigger finds no flag while it is set aside, and its own replaces the one put back (three edits) |
| `kill in reap` | `WorkTracked` | the flag set aside stays under a name nobody looks for |
| `early commit` | `WorkTracked` | an edit is committed before its trigger resolves HEAD: the commit becomes the base of its own batch |
| `kill in reset` | `WorkTracked` | the state is left without its baselines: the next review covers the working tree only |
| `probe in reap` | `LetGoIsEarned` | the probe finds no flag while it is set aside |
| `commit in probe` | `LetGoIsEarned` | HEAD is read before a commit and the tree after it: both match the last review |
| `probe in reset` | `LetGoIsEarned` | the probe finds no flag, which a session start has removed, and a state it has yet to remove; after a FAIL the state matches the tree, so work that did not pass is let go |
| `late stamp` | `WorkTracked` | a new file's trigger was more than half a minute late, or was killed, or a session start removed its flag: the next batch is stamped later than the file, which no review shows and the next PASS records as reviewed |

*Control plane* (`Windows`). With `Windows = {}` `InForceIsVouched` holds; adding any
one of these to `Control.cfg` breaks it:

| situation | how |
|---|---|
| `upgrade in call` | a stop of the old version has a candidate reviewed; a call of the new version classifies the same bytes as stricter, or as no change; `finalizeControlPlaneReview` compares only the pending source's fingerprint, finds that class, and adopts what the old version makes of the bytes without the approval it needs |
| `config appears` | at first contact without a project file the policy is taken without asking; `bootstrapControlPlane` reads the files again under its lock and takes a project file that has appeared since |
| `deleted in resolve` | `persistPending` writes a missing state again as the call read it (`?? approved`), also if another policy was approved and deleted in between |

A comment in `gate.ts` (at `policyForcesReview`) says that the mark of an invalid
candidate is always null. It need not be: a stop whose candidate was valid marks
whatever is pending for the same bytes, and that is an invalid candidate if
another call saw the files change while it read them. Nothing depends on it, as
the code there checks the class as well.

*Panel and verdict.* `gemini.ts:212` asks its prompt on a terminal that a gate does
not have, against `orchestrator.ts:723` (constant `Tty`). A review of a subset of the
change is keyed like a full one (`orchestrator.ts:3301`, against 1452).
`aggregator.ts:998` can hide a verdict that the comment at 193 says is never lost.
Three adapters (`codex`, `openrouter`, `ollama`) take a FAIL without findings for a PASS
(`review-output.ts:382`), where the other three refuse such an output
(`mappingLooksLossy`). `spawn.ts` says that what was captured before the output cap is
useful; the adapters make an error of it.

*Capture and ownership* (`Bounded`, `Attended`, `GitFails`). An untracked file older than the
batch is in the fingerprint though not in the diff; that is why `CaptureIsOneState` speaks
of such files apart. A review covers one state if
at most two writes fall into a capture: a third that undoes the first two between
two readings goes unnoticed. A session's own work stays its own if the session had
started before it worked and its manifest does not expire meanwhile: an expired
manifest, a session start that arrives late and a stash take own edits for older
ones. The comment at `gate.ts:941` expects an exception where `utils/git.ts:567` gives
an empty list: a failing git makes own work somebody else's (`GitFails`).

*Learning* (`Windows`). A gate killed after the ledger was written ("recorded") or
after it was cleared ("cleared") leaves an answer that is later flipped in the store:
`BookedIsHeard` fails. A rejection that is taken back stays in the ledger
(`fp-ledger/store.ts:164`, against `decision-fold.ts:13`).

*Lore* (`GateDies`). The agent's answers are found again by a finding's number alone. A
gate killed between the report and the state (`orchestrator.ts:3163`) leaves a new
report with an old round's answers: "F-L01 approved" then approves another page
(`ToldIsVouched`). Killed in the review, the rejection is read again and sets a new
cooldown (`GreenSaysAll`), against the comment at `loop-driver.ts:2413`. The comment at
2396 says a timeout leaves `pending.json` alone; `handleIncompleteRun` removes it.

*Trace.* A measurement may switch off the pass for what was rejected, in the cycle or in a
region. Where such a pass matches a CRITICAL it would have spared it; ablated it records
"would apply" instead, which the trace's schema refuses (`policy-trace.ts:313`: "no material
transition exists"). The trace is gone and `rig/replay.ts:448` throws, where the design
(`docs/superpowers/specs/2026-08-09-policy-accountability-trace-design.md:349`, :379) has
the ablated pass say what it would have done; dropping the hypothesis of `TraceIsWhole`
shows it. A trace is also lost when a finding moved by the fact check leaves its
signature in two clusters. No decision depends on it.

*Rig and publication.* The comment at `replay-capture.ts:48` says a missing marker makes the
harvest incomplete; it does not if another round of the turn was captured
(`CaptureFails`, value "unread"). `ExactIsComplete` is run and proved for envelopes that are
too large or lossy, which leave something behind (`OnlyTold`). The comment in `harvest.ts` at 183 takes a run id alone
for the owner of a report. The design document of the policy measurement
(`docs/superpowers/specs/2026-08-11-policy-measurement-pruning-design.md:333`) asks that
*every* beneficial effect be reproduced by a pass that is kept; `assemble.ts:2203`,
`:2290` ask it of the group's losses, not of the member's own. An undisturbed exact
recording can be refused, a killed publisher leaves its lock and partial outputs: both
fail closed. A failure between linking a file and owning it leaves the file.

*State store.* `docs/architecture.md:134` calls `state.json` "locked, atomic"; the writers
in `initialise` and `loadOrRecover` take no lock and share one temporary name
(`state-store.ts:70`). Not modelled: see below.

*Benchmark* (`Distinct`). A request names a reviewer by provider and persona, not by slot
(`bench.ts:1801`). Where one reviewer fills two slots and may try
three times, a replay can give the one slot a failed attempt of the other: the rows list
final answers only, so the benchmark is accepted though a slot was told something else than
in the baseline. With two attempts each, as in the run's benchmark of twins, the final answers give
it away. `ReplaysTheBaseline` asks for one slot each.

*Brain* (`NamesResolve`, `NearTransitive`, `Overlap`). `providerOf` knows four providers;
of another's id it takes all before the last hyphen (`curator.ts:143`). `opencode` and `ollama`
are not among the four and a persona may have any name: "ollama-security" and
"ollama-code-quality" count as two providers, and one reaches alone the quorum that the comment
at 156 calls the constraint that resists collusion. `NotesAreShared` fails once a scene has
these two; the run's scenes and the theorems (`NamesResolve`) have known providers, or
personas without a hyphen. The pool is cumulative, so one pair of proposals counts again in each
iteration and reaches `refs >= 3` in one session (against `lifecycle.ts:11`); a stale
note is revived by `decayPass` without meeting the floors; a proposal that is not well
formed is dropped without a word. If two curators overlap (`Overlap`), `AgreementIsKept`
fails: a lost update of the candidates. It also fails for texts of which *a* is near *b* and
*b* near *c*, but *a* not near *c*: a group is compared with the candidates by the one
proposal that stands for it (`curator.ts:403`), while it was put together by any of them
(`curator.ts:280`), so a second provider that says *c* does not find the candidate for *a*
and *b* that is kept as *a*. The run's texts are near all round; the theorem asks it.

## 5. What is proved

The theorems hold for every number of calls, sessions, findings and stores and every
setting of the parameters that meets the modules' assumptions (`ASSUME`s named in the
modules; TLC evaluates them in the runs). A hypothesis beyond these is named with the
theorem.

| module | theorems | under |
|---|---|---|
| `FileLock_proofs` | `TypeCorrect`, `Exclusion`, `FilesFollowHolders`, `Refinement` | `ExitInProbe = FALSE` |
| `LoopDriver_proofs` | `TypeCorrect`, `LoopEnds`, `NothingDropped`, `OutagesBounded`, `Aligned`, `StandDownTold`; `GreenEarned` | `UnseenCommits = {}` for the last two, `[]LatchKeepsFlag` for `GreenEarned` |
| `StopGate_proofs` | `TypeCorrect`, `Serial`; `WorkStaysTracked`, `OnlyEarnedIsLetGo` | `Races = {}` for the last two |
| `ControlPlane_proofs` | `TypeCorrect`, `OneNotice`; `PolicyIsVouched`, `CandidateIsHonest`, `PassedFirst` | `Windows = {}` for the last three |
| `Reviewers_proofs` | `PanelTypes`, `NobodyIsLeftOut`, `Grounded`; `StrikesFair` (`Panel`) | `Tty = {}` for `StrikesFair` |
| | `OnlyWholeReviews`, `NothingBlockingIsLost` (`Reviewer`); `NobodyIsMergedAway`, `CriticalIsKept`, `FixesAreChecked`, `TraceKept`, `OrderIsIndifferent` (`Verdict`) | - |
| | `OnlyVouchedIsTold`; `NothingLeftUnsaid` (`Lore`) | `"written" \notin GateDies`; `GateDies \subseteq {"absorbed"}` |
| `Scope_proofs` | `OneState`, `ServedHasPassed`; `OwnStaysOwn`, `OwnIsNotDisowned`; `AuditTypes`, `LogsVerify` (`Audit`) | `Bounded`; `Attended`, and `~GitFails` for `OwnIsNotDisowned` |
| `Learning_proofs` | `LearningTypes`, `LastWordIsKept`, `VotesAreCountedOnce`; `OnlyTheHeardIsBooked` | `Windows = {}` for the last |
| | `NotesShared`; `AgreementKept` (`Brain`) | `NamesResolve`; and `~Overlap`, `NearTransitive` for `AgreementKept` |
| `Policy_proofs` | `AcceptedStaysWhole`, `RefusedIsGone` (`Publication`); `RigTypes`, `ExactMeansComplete`, `CountedInItsTurn`, `BranchesKeepApart` (`Rig`); `DeletionLosesNothing` (`Classify`) | `OnlyTold` (`CaptureFails \subseteq {"overflow", "lossy"}`) for `ExactMeansComplete` |
| | `ReplaysTheBaseline` (`Bench`) | `Distinct` (each reviewer is in one slot) |

The arguments, where the invariant is not the property:

*FileLock.* A holder is alone because its file names it (`HolderKeepsFile`), and its file
stays because whoever takes a file away takes a dead call's. The invariant follows a
reclaimer through its steps: it never works on the level-2 mutex (`OnReclaimed`); what it
is about to probe is alive, or is a dead call's and its file is still there
(`ProbeIsFresh`); what it is about to rename is a dead call's (`MoveIsSafe`); what it has
renamed was one (`OnlyDeadIsClaimed`); a process that is gone is in no section and takes no
step (`GoneIsGone`). `Refinement` shows that each step is one of `Mutex` or a stutter.

*LoopDriver.* What is sound of a state (rows as long as the cycle, watermarks within it, an
escalation announced with its HEAD); what holds while a review runs (no rung is in force,
so a round is left below the hard cap); that every open finding is one the next stop still
finds undecided, which carries `NoFindingDropped` through aborted reviews, where the report
is emptied; and the arithmetic that ties `waived` to the two streaks of deferrals. For
`GreenEarned`, `Covered`: work that is owed is behind a flag whose base is older, or was
done since the last gate; and a tree that was recorded as reviewed is older than all such
work, so the probe cannot mistake it. `StandDownTold` needs the same of what was announced.

*StopGate.* `Serial` rests on `LockHeld`: whoever is past `TakeLock` has the lock, and only
its own `End` releases it. `WorkStaysTracked` rests on `Tied`: the base of each flag, also
of one that is set aside, deferred, or in the hands of a trigger, is older than all the
work behind it, and so is its stamp (`Stamped`); work without a flag is not committed and in a
tree no review recorded; and whatever was done after the snapshot is behind a trigger that
has yet to write.

*ControlPlane.* The calls share one invariant, `Knows`: what a call may rely on where it is.
The two steps that replace the policy need more. An adoption goes by the class of whatever
is pending: that class is honest, and what is pending is what *this* version makes of its
source (`Current`), so it is what the call has observed. And `AdoptableIsStricter`: what
`analysePolicyChange` calls stricter is at least as strict, so strictness adds up along a
chain of adoptions.

*Panel.* Without a panel nothing is left of one (`Quiet`). While one runs, a slot has asked its
primary or knows that it is capped, and then asks whoever it may, in turn (`AllAsk`); each
strike that is noted has a failure behind it, and a good run is noted too (`AllNoted`), so the
one update at the end moves a cooldown at most one step. When the judge is reached, a run or
a cap explains each failure (`Explained`). What the cache and the ledger hold was earned
(`Remembered`).

*Verdict.* Before the clusters a critical finding that nobody disproved is CRITICAL, or WARN
and marked with what it was; a cluster is as severe as its worst member, by an invariant of
the clusters as they grow; afterwards each pass keeps this floor and the claims that are
pinned. `NobodyIsMergedAway` is that invariant's other half: each finding is in a cluster.
`TraceKept` sets every pass against its entry in the catalogue: what the findings can be at
that place of the pipeline (`TraceInv`) meets only transitions and grounds the entry lists.
After the clusters no pass changes names or members, so a signature that is in two clusters
then is so at the end, and the verdict is the one its reason calls for.
`OrderIsIndifferent`: only findings tied in every key of the sort (`Tied`) may change places
between two sorted orders, and any two such orders are linked by exchanges of neighbours. An
exchange leaves the clusters as they are, or exchanges two neighbouring clusters that are
rivals: of a wording without a word that counts and of opposite kinds, so that no later
finding could have joined either (`Paired`). This rests on `SimilarAssumption`: a wording that
is like any other is like itself. A sorted order exists, whatever the order of arrival.

*Reviewer, Lore.* `OnlyWholeReviews`: a file for codex's last message was written by the
attempt it is named for (`FilesAreOwn`), and whoever is probed has failed already
(`ProbeKeeps`), so a review that is taken is of this very run; that it ended well is in how a
run is classified. `Lore`: an open question stands for the page as it was guarded; what is in `book` as
approved has the word of the human for these very contents; and a page that passes unasked
has a claim or a cooldown that some earlier round told of.

*Scope, Audit.* `Counted`: of the writes a capture allows, those between two readings of a
file are counted by what the readings show (one if it changed, two if it changed and is
back), so two equal rounds have none between them. `SessionInv` and `ListedInv`: what is in
a baseline was there before the session worked, also in the old copy a trigger holds.
`LedgerInv`: each entry was recorded by a pass of that state. In `Audit` every file is a
chain whose last record is what its logger remembers, and a prune takes only whole files of
days that are over.

*Learning.* `RatedInv`: the side a reputation event stands on is the last answer a stop has
read to its report, and what a stop has read but not yet booked is what it still holds.
`VotesInv`: counts and rounds agree (`Agree`), what was taken out and what was put in
balance (`Balanced`), and an id that went is not given again. `HeardInv` carries the answers
through the stores that have yet to be written.

*Brain.* `BrainOk`: whatever a curator has read, grouped or found waiting was put forward by
the provider it is put down to, on a text that is linked to the one it stands by; a group
holds only linked texts, by an invariant of the groups as they grow. So the providers a
quorum counts were heard on the note's text. `Kept` is the converse: as long as nothing was
muffled, each voice has a note, a candidate of its own provider or a curator who holds it,
and of two voices that agree not both are left to wait. The step that could leave them so is
the one that puts a group off (`Weigh`); there the other voice's candidate would have been in
view (`InView`), and a group in which two providers agree is not put off.

*Publication.* `PubInv` takes the steps of all others at once (`Undisturbed`): a root that is
gone never comes back under its number, and an own file stays one's own. Each publisher is
then `Fine` by itself: what carries its name is its own or being linked (`Traced`), it has
got as far as its place says (`Progress`), and it knows what it has read as long as the root
is the one it holds (`Knows`, `Holds`).

*Rig, Classify.* `Rig`: the sink's entries are of runs that did take place, a manifest names
each of the turn's runs or says that one is missing, and a branch's directory has the name
of the branch. `Classify`: the members of a group are compared on the same bench, so a loss
of one of them is seen by the comparison that lets the pass go.

*Bench.* In every profile history is in order (`InCase`, `Lawful`): case by case, attempt after
attempt until one is final, the critic once all slots are done, each number given to one call
that is pending or answered. When the baseline ends, its sorted entries hold each of its calls
under its number; a replay that met no mismatch and left no entry was told by the same
entries. Two lawful histories of a benchmark in which each number has the same agent and answer
are one (`OneHistory`): at the least number where they differed, both would have had the same
past, and the past decides what may be asked.

What is only model-checked, and why: `DeadLockReclaimed`, `LetsAgentGo`, `WorkSettles`,
`ReviewEnds` are liveness under fairness, which the prover does not reach.
The situations the hypotheses exclude stay with TLC where a run has them: slots of one
reviewer (`SameAnswers`), and the values of the constants in the tables of section 4.

## 6. What is not modelled

`PROJECT.json` lists every component with its reason. The ones that keep state: the
state store's file operations (one unlocked temporary name; `LoopDriver` and `StopGate`
take its updates as atomic), parts of the configuration (read once per process), research
and its cache (advice to the prompts), reports and host installers (files written once,
for people). Text, prompts, schemas and statistics that change no decision are data. What
each module leaves out is said with it in section 2.

## 7. Plan

What is left: the state store's file operations with their one temporary name (the one hazard
without a property), region memory and low-value acknowledgements in the driver, clusters of
false positives, the numbers of the policy measurement.

------------------------------- MODULE MCPanel -------------------------------
\* Three small installations for Panel.  Two slots share two providers and a last
\* resort; one slot lives with the cache and the pass ledger; one slot has a
\* provider nobody can run.
EXTENDS Panel

CONSTANTS codex, claude, gemini

Plain == [Idle EXCEPT !.pc = "triage", !.c = "c1", !.form = "raw"]

Base == [slots |-> <<[primary |-> codex, fallback |-> <<claude>>]>>,
         enabled |-> {codex, claude}, listed |-> {claude}, registered |-> {codex, claude, gemini},
         available |-> {codex, claude, gemini}, checks |-> FALSE, cache |-> FALSE, failover |-> TRUE,
         deadline |-> TRUE, quarantine |-> {{}}, inputs |-> {Plain}, envs |-> {"now"}]

\* Two reviewers, each the other's way out, and a deadline.
Shared == [Base EXCEPT
    !.slots = <<[primary |-> codex, fallback |-> <<claude>>], [primary |-> claude, fallback |-> <<>>]>>]

\* One reviewer, and everything that can make a verdict be served or refused.
Served == [Base EXCEPT
    !.slots = <<[primary |-> codex, fallback |-> <<>>]>>, !.enabled = {codex}, !.listed = {},
    !.cache = TRUE, !.checks = FALSE, !.failover = FALSE, !.envs = {"now", "promo"}, !.deadline = FALSE,
    !.inputs = {Plain, [Plain EXCEPT !.form = "other"], [Plain EXCEPT !.c = "c2"], [Plain EXCEPT !.scope = "delta"],
                [Plain EXCEPT !.due = TRUE], [Plain EXCEPT !.incomplete = TRUE], [Plain EXCEPT !.review = FALSE],
                [Plain EXCEPT !.review = FALSE, !.incomplete = TRUE]}]

\* A fallback that is configured and not there, a last resort, checks that fail, a
\* small diff.
Broken == [Base EXCEPT
    !.slots = <<[primary |-> claude, fallback |-> <<gemini>>]>>, !.listed = {gemini},
    !.registered = {claude, codex}, !.checks = TRUE, !.quarantine = {{}, {1}},
    !.inputs = {Plain, [Plain EXCEPT !.tight = TRUE]}]

PanelConfigs == {Shared, Served, Broken}
Order == <<claude, codex, gemini>>
Schedule == <<1, 2>>
=============================================================================

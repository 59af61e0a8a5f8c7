------------------------------ MODULE Catalog ------------------------------
(***************************************************************************)
(* What each policy pass may do, as src/core/policy/catalog.ts lists it    *)
(* apart from the passes themselves: which changes of a severity are its   *)
(* to make, and on what grounds it may leave a finding of which severity   *)
(* alone.  A trace that says anything else is not valid, and is not        *)
(* written.                                                                *)
(*                                                                         *)
(* A pass is named by the last part of its id.  The reason and the action  *)
(* of a change follow from the pass and the severities, and are left out.  *)
(***************************************************************************)
Blockers == {"CRITICAL", "WARN"}
Shown == {"CRITICAL", "WARN", "INFO"}

\* An entry: the changes <<before, after>>, and the grounds <<code, before>>.
CatalogEntry(changes, grounds) == [changes |-> changes, grounds |-> grounds]

Softened == {<<"CRITICAL", "WARN">>}
Silenced == Blockers \X {"INFO"}
OneStep == {<<"CRITICAL", "WARN">>, <<"WARN", "INFO">>}

FactLocationEntry == CatalogEntry(Shown \X {"INFO"} \cup {<<s, s>> : s \in Shown}, {})

SelfRefutationEntry == CatalogEntry(Silenced, {"security-correctness-floor", "deterministic-ground-truth"} \X Blockers)

HypotheticalEntry == CatalogEntry(Softened, {"security-correctness-floor", "deterministic-ground-truth"} \X {"CRITICAL"})

GroundingEntry == CatalogEntry(Softened, {"security-correctness-floor"} \X {"CRITICAL"})

RedactionEntry == CatalogEntry(Silenced, {"security-correctness-floor", "secret-evidence-backstop"} \X Blockers)

\* What is INFO already, the critic drops.
CriticEntry ==
    CatalogEntry(OneStep \cup {<<"INFO", "dropped">>},
                 ({"claimed-fixed-pin", "corroborated-unanimous", "corroborated-majority"} \X Shown)
                 \cup ({"high-precision-reviewer"} \X Blockers)
                 \cup {<<"self-refutation-visibility", "INFO">>, <<"critical-floor", "WARN">>,
                       <<"security-correctness-floor", "CRITICAL">>})

ScopeDiffEntry == CatalogEntry(Silenced, {"out-of-diff-blocking-hatch"} \X Blockers)

ScopeDeltaEntry ==
    CatalogEntry(Silenced, {"claimed-fixed-pin", "security-correctness-floor", "critical-floor",
                            "out-of-diff-blocking-hatch"} \X Blockers)

ScopeSessionEntry == CatalogEntry(Silenced, {"out-of-diff-blocking-hatch"} \X Blockers)

FpSignatureEntry == CatalogEntry(Silenced, {})

\* It never lowers a CRITICAL.
CycleRejectedEntry ==
    CatalogEntry({<<"WARN", "INFO">>},
                 {<<"critical-floor", "CRITICAL">>} \cup ({"security-correctness-floor"} \X Blockers))

FpClusterEntry == CatalogEntry(Silenced, {})

ConfidenceEntry ==
    CatalogEntry(OneStep, {<<"security-correctness-floor", "CRITICAL">>}
                          \cup ({"claimed-fixed-pin", "corroborated-unanimous", "corroborated-majority",
                                 "high-precision-reviewer"} \X Blockers))

ReputationEntry ==
    CatalogEntry(OneStep, {"claimed-fixed-pin", "security-floor", "correctness-demote-disabled",
                           "corroborated-unanimous", "corroborated-majority", "critical-floor"} \X Blockers)

RegionEntry ==
    CatalogEntry({<<"WARN", "INFO">>},
                 {"claimed-fixed-pin", "insufficient-distinct-rejections", "category-change", "severity-increase",
                  "critical-floor", "security-correctness-floor"} \X Blockers)

TestSecurityEntry == CatalogEntry(Silenced, {"mixed-category-cluster"} \X Blockers)

DocsCapEntry == CatalogEntry(Softened, {<<"security-correctness-floor", "CRITICAL">>})

EntryOf(pass) ==
    CASE pass = "fact-location" -> FactLocationEntry
      [] pass = "self-refutation" -> SelfRefutationEntry
      [] pass = "hypothetical" -> HypotheticalEntry
      [] pass \in {"grounding-token", "grounding-llm"} -> GroundingEntry
      [] pass = "redaction" -> RedactionEntry
      [] pass = "critic" -> CriticEntry
      [] pass = "scope.diff" -> ScopeDiffEntry
      [] pass = "scope.delta" -> ScopeDeltaEntry
      [] pass = "scope.session" -> ScopeSessionEntry
      [] pass = "fp-signature" -> FpSignatureEntry
      [] pass = "cycle-rejected" -> CycleRejectedEntry
      [] pass = "fp-cluster" -> FpClusterEntry
      [] pass = "confidence" -> ConfidenceEntry
      [] pass = "reputation" -> ReputationEntry
      [] pass = "region-rejected" -> RegionEntry
      [] pass = "test-security" -> TestSecurityEntry
      [] pass = "docs-cap" -> DocsCapEntry

\* What the schema of an evaluation accepts: a pass that is switched off must have some
\* change for what it found; one that spares a finding a ground, and one that lowers it
\* this very change.
MayBeSwitchedOff(pass, before) == \E t \in EntryOf(pass).changes : t[1] = before
MaySpare(pass, code, before) == <<code, before>> \in EntryOf(pass).grounds
MayLower(pass, before, after) == <<before, after>> \in EntryOf(pass).changes

=============================================================================

------------------------------ MODULE Promotion ------------------------------
(***************************************************************************)
(* The promotion gate of the corpus factory (promotion.py) and the         *)
(* governance evidence a governed package binds (governance.py): pure      *)
(* functions of the evidence, which decide whether a candidate may be      *)
(* attested, signed and carried to a site.                                 *)
(*                                                                         *)
(* Whatever may be absent is a set of at most one element: a report, and a *)
(* digest, which stands for the one value it is taken of.  A metric is     *)
(* "met" when it satisfies its threshold for its safety class, "short"     *)
(* when it does not, or Missing; which metrics and thresholds a class has  *)
(* is data (promotion.py: 51-134).  A count that is absent is negative.    *)
(***************************************************************************)
EXTENDS Corpus

Missing == "missing"

EvidenceSource == {"release_validity", "retrieval", "grounded_answer", "edge_profiles"}
SafetyClass == {"critical", "high", "standard", "advisory"}
MinimumCases == 50
SuitabilityField == {"policy_digest", "source_aggregate_digest", "document_aggregate_digest",
                     "case_aggregate_digest"}
BindingField == SuitabilityField \cup
    {"release_digest", "corpus_digest", "eval_set_digest", "model_digest",
     "embedding_model_digest", "chunker_digest"}

Values(f) == {f[x] : x \in DOMAIN f}

\* validate_governance_evidence: one event, mission and registry throughout; every
\* mission requirement, and no other, is COVERED; every classification that qualifies
\* one is in the lineage.  The lineage names the registry by its digest, the coverage
\* report by its identity.
GovernanceHolds(g) ==
    LET Required(requirements) ==
            {[id |-> r.id, category |-> r.category, safety |-> r.safety] : r \in requirements} IN
    /\ g.mission.event = g.event /\ g.registry.event = g.event
    /\ g.coverage.event = g.event /\ g.lineage.event = g.event
    /\ g.coverage.mission = g.mission.id
    /\ g.coverage.registry = g.registry.id /\ g.lineage.registry = g.registry
    /\ g.coverage.decision = "COVERED"
    /\ \A r \in g.coverage.requirements : r.status = "COVERED"
    /\ Required(g.coverage.requirements) = Required(g.mission.requirements)
    /\ \A r \in g.coverage.requirements : r.qualifying \subseteq g.lineage.classifications

\* What the signed manifest binds.
PackageGovernance(g) ==
    [profile |-> "governed-v1", event |-> g.event, mission |-> g.mission.id,
     registry |-> g.registry.id, coverage |-> g.coverage, lineage |-> g.lineage]

\* _validate_bindings: the four evidence sources name the same digests, all of them.
BindingHolds(e) ==
    \A field \in BindingField :
        /\ \A source \in EvidenceSource : e.binding[source][field] # {}
        /\ \A s, t \in EvidenceSource : e.binding[s][field] = e.binding[t][field]
Binding(e) == e.binding["retrieval"]

\* _suitability_layer: no failure, every requirement passes, and the digests it was
\* computed from are the promoted ones.
SuitabilityPasses(e) ==
    \E report \in e.suitability :
        /\ report.failures = {}
        /\ report.requirements # {} /\ FALSE \notin report.requirements
        /\ report.decision = "PASS"
        /\ \A field \in SuitabilityField : report.binding[field] = Binding(e)[field]

\* _coverage_layer: the report is the one that the release evidence names and the
\* package binds, for the same event, mission and registry, and covers everything.
CoveragePasses(e) ==
    \E report \in e.coverage, package \in e.release.package :
        /\ e.release.coverage = e.coverage
        /\ package.profile = "governed-v1"
        /\ package.event = report.event /\ package.mission = report.mission
        /\ package.registry = report.registry
        /\ package.coverage = report
        /\ \A judged \in e.suitability : judged.event = report.event
        /\ report.decision = "COVERED"
        /\ \A r \in report.requirements : r.status = "COVERED"

\* _release_layer: every check passed, every hard-gate count is zero.
ReleasePasses(e) ==
    /\ Values(e.release.checks) = {TRUE}
    /\ Values(e.release.counts) = {0}
    /\ e.release.passed

\* _check_thresholds over the metrics of one class.
ThresholdsMet(metrics) == Values(metrics) = {"met"}

\* A mistake to be caught: a class passes by its metrics alone.
ClassPassesByMetrics(class, result) == /\ result.cases >= MinimumCases
                                       /\ ThresholdsMet(result.metrics)

\* _safety_layer: each class on its own, so that no class hides another's failures; a
\* failed critical case blocks whatever the metrics say; three identical runs.
ClassPasses(class, result) ==
    /\ result.cases >= MinimumCases
    /\ ThresholdsMet(result.metrics)
    /\ result.listed
    /\ class = "critical" => result.failed = {}

SafetyPasses(layer) ==
    /\ layer.violations = 0
    /\ \A class \in SafetyClass : ClassPasses(class, layer.classes[class])
    /\ layer.runs = 3 /\ layer.identical

\* _answer_layer: every citation resolves.
AnswerPasses(e) == SafetyPasses(e.answer) /\ e.answer.lineage = "met"

\* _edge_layer: at least one declared profile, and each of them meets every threshold
\* and passed its package, index, restart and disconnected checks.
EdgePasses(e) ==
    /\ e.edge # {}
    /\ \A profile \in e.edge : /\ ThresholdsMet(profile.metrics)
                               /\ Values(profile.checks) = {TRUE}
                               /\ profile.latency # Missing

\* evaluate_promotion under governed-v1, with every layer evaluated.
Promoted(e) ==
    /\ BindingHolds(e)
    /\ SuitabilityPasses(e)
    /\ CoveragePasses(e)
    /\ ReleasePasses(e)
    /\ SafetyPasses(e.retrieval)
    /\ AnswerPasses(e)
    /\ EdgePasses(e)
==============================================================================

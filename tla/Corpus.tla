-------------------------------- MODULE Corpus --------------------------------
(***************************************************************************)
(* The judgements on the contents of a corpus that precede a release:      *)
(* coverage of a mission by classified evidence (coverage.py) and          *)
(* suitability of the document inventory for an event policy               *)
(* (suitability.py).  Both are pure functions of reviewed records.         *)
(*                                                                         *)
(* A place stands for a geography, language and audience together; a       *)
(* document is compared with the whole product of places and channels.  A  *)
(* window without an end ends later than every time.  Malformed records    *)
(* are left out: each of them is a failure or an error by itself.          *)
(***************************************************************************)
EXTENDS Integers, FiniteSets

SafetyRank == [advisory |-> 0, standard |-> 1, high |-> 2, critical |-> 3]
Family == {"positive", "boundary", "no_answer"}

\* _active_at: from the start, and before the end.
ActiveAt(window, t) == window.from <= t /\ t < window.until

\* _find_conflicts: a contested document, or two values of one fact.
Facts(documents) == UNION {d.facts : d \in documents}
Conflicted(documents) ==
    \/ \E d \in documents : d.contested
    \/ \E f, g \in Facts(documents) : f.fact = g.fact /\ f.value # g.value

------------------------------------------------------------------------------
(* plan_mission_coverage: corpus c has a mission, a registry of sources,          *)
(* classifications of documents, and the documents acquired so far.               *)

\* A source that may contribute at all.
Usable(source, t) == /\ source.enabled /\ source.approved
                     /\ source.redistribution # "prohibited"
                     /\ ActiveAt(source.window, t)

\* What a classification needs of each source it names.
SourceSupports(source, item, mission, r) ==
    /\ source.vertical = mission.vertical
    /\ r.category \in source.classes
    /\ SafetyRank[source.risk] >= SafetyRank[r.safety]
    /\ mission.places \subseteq source.places
    /\ source.authority = item.authority

Related(c, r) == {item \in c.classifications : r.category \in item.categories}

\* Every trust and scope gate, for one classification.
Qualifying(c, r) ==
    {item \in Related(c, r) :
        /\ item.verified
        /\ item.redistribution \notin {"prohibited", "unknown"}
        /\ ActiveAt(item.window, c.at)
        /\ SafetyRank[item.safety] >= SafetyRank[r.safety]
        /\ c.mission.places \subseteq item.places
        /\ c.mission.channels \subseteq item.channels
        /\ \A s \in item.sources : \E source \in c.registry.sources :
              /\ source.id = s /\ Usable(source, c.at)
              /\ SourceSupports(source, item, c.mission, r)}

\* What is still missing: intents, sources, or any evidence.
Gap(c, r) ==
    LET qualifying == Qualifying(c, r) IN
    \/ ~ r.intents \subseteq UNION {item.intents : item \in qualifying}
    \/ Cardinality(UNION {item.sources : item \in qualifying}) < r.minimumSources
    \/ qualifying = {}

\* The documents of related classifications, qualifying or not, may not conflict.
RequirementStatus(c, r) ==
    LET named == {item.document : item \in Related(c, r)} IN
    CASE Conflicted({d \in c.documents : d.id \in named}) -> "CONFLICTED"
      [] Gap(c, r) -> "GAP"
      [] OTHER -> "COVERED"

\* The report; a corpus of another event or mission is refused without one.
MissionCoverage(c) ==
    LET status == {RequirementStatus(c, r) : r \in c.mission.requirements} IN
    [event |-> c.mission.event, mission |-> c.mission.id, registry |-> c.registry.id,
     at |-> c.at,
     requirements |-> {[id |-> r.id, category |-> r.category, safety |-> r.safety,
                        status |-> RequirementStatus(c, r),
                        qualifying |-> {item.id : item \in Qualifying(c, r)}] :
                       r \in c.mission.requirements},
     decision |-> IF "CONFLICTED" \in status THEN "CONFLICTS"
                  ELSE IF "GAP" \in status THEN "GAPS" ELSE "COVERED"]

------------------------------------------------------------------------------
(* evaluate_suitability: assessment a has a policy, source records, documents,    *)
(* evaluation cases, a time, and how far that time can be trusted.                *)

\* _authority_entry and _index_sources: one entry authorizes it, and as far as it reaches.
Registered(a, source) ==
    \E authority \in a.policy.authorities :
        /\ {authority} = {other \in a.policy.authorities :
                            /\ source.id \in other.sources
                            /\ source.publisher \in other.publishers
                            /\ source.authority = other.class}
        /\ source.subjects \subseteq authority.subjects
        /\ source.places \subseteq authority.places
Index(a) == {source \in a.sources : Registered(a, source)}

\* _citation_lineage_errors: every citation names a registered source and its evidence.
LineageHolds(a, d) ==
    /\ d.citations # {}
    /\ \A cite \in d.citations \cup UNION {f.citations : f \in d.facts} :
          \E source \in Index(a) : source.id = cite.source /\ source.digest = cite.digest

Sources(a, d) == {source \in Index(a) : \E cite \in d.citations : cite.source = source.id}

\* The documents that answer a requirement, before the age of their sources is judged.
Current(a, r) ==
    {d \in a.documents :
        /\ d.event = a.policy.event /\ LineageHolds(a, d)
        /\ SafetyRank[d.safety] >= SafetyRank[r.safety]
        /\ d.id \in r.documents \/ \E f \in d.facts : f.fact \in r.facts
        /\ d.approved /\ ~d.contested
        /\ ActiveAt(d.window, a.at) /\ a.at <= d.reviewDue
        /\ \A source \in Sources(a, d) : /\ source.authority \in r.allowed
                                         /\ ActiveAt(source.window, a.at)}

\* _within_maximum_age.
Fresh(source, a, r) == 0 <= a.at - source.verified /\ a.at - source.verified <= r.maximumAge

\* _evaluate_requirement: enough documents, facts, sources and evaluation cases for every
\* place and channel, and no source that is too old.
RequirementSuitable(a, r) ==
    LET current == Current(a, r)
        candidates == {d \in current : \A source \in Sources(a, d) : Fresh(source, a, r)}
        Cases(family, place, channel) ==
            {k \in a.cases : /\ k.requirement = r.id /\ k.approved /\ k.family = family
                             /\ k.place = place /\ k.channel = channel} IN
    /\ r.safety = "critical" => a.confidence = "trusted"
    /\ candidates # {} /\ candidates = current
    /\ Cardinality(candidates) >= r.minimumDocuments
    /\ r.documents \subseteq {d.id : d \in candidates}
    /\ r.facts \subseteq {f.fact : f \in Facts(candidates)}
    /\ Cardinality(UNION {Sources(a, d) : d \in candidates}) >= r.minimumSources
    /\ \A place \in r.places, channel \in r.channels :
          /\ \E d \in candidates : place \in d.places /\ channel \in d.channels
          /\ \A family \in Family :
                Cardinality(Cases(family, place, channel)) >= r.minimumCases

\* A case belongs to a requirement and lies in its scope.
CaseHolds(a, k) == \E r \in a.policy.requirements :
                      /\ k.requirement = r.id /\ k.family \in Family
                      /\ k.place \in r.places /\ k.channel \in r.channels

\* The report: any failure at all blocks, also of records no requirement needs.
Suitability(a) ==
    LET failures == {<<"source", s.id>> : s \in a.sources \ Index(a)}
              \cup {<<"document", d.id>> :
                      d \in {x \in a.documents : x.event # a.policy.event \/ ~LineageHolds(a, x)}}
              \cup {<<"case", k.id>> : k \in {x \in a.cases : ~CaseHolds(a, x)}}
              \cup {<<"requirement", r.id>> :
                      r \in {x \in a.policy.requirements : ~RequirementSuitable(a, x)}} IN
    [event |-> a.policy.event, failures |-> failures,
     requirements |-> {RequirementSuitable(a, r) : r \in a.policy.requirements},
     binding |-> [policy_digest |-> {a.policy}, source_aggregate_digest |-> {a.sources},
                  document_aggregate_digest |-> {a.documents},
                  case_aggregate_digest |-> {a.cases}],
     decision |-> IF failures = {} THEN "PASS" ELSE "FAIL"]
===============================================================================

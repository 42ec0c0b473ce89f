---------------------------- MODULE MCReleasePath ----------------------------
(* The instance of ReleasePath that TLC checks: a sound corpus and ones with a
   single defect each; sound evidence for the first, and evidence with a single
   defect; approvals that are independent, and ones that are not; media for this
   site, and media for another. *)
EXTENDS ReleasePath, TLC

Always == [from |-> 0, until |-> 10]
Past == [from |-> 0, until |-> 1]

(* The corpus of a mission: two intents, answered from two documents. *)
Mission == [id |-> "m1", event |-> "flood", vertical |-> "relief",
            places |-> {"north"}, channels |-> {"sms"},
            requirements |-> {[id |-> "r1", category |-> "shelter", safety |-> "high",
                               intents |-> {"where", "when"}, minimumSources |-> 2]}]
Listed(s) == [id |-> s, enabled |-> TRUE, approved |-> TRUE, redistribution |-> "permitted",
              window |-> Always, vertical |-> "relief", classes |-> {"shelter"},
              risk |-> "critical", places |-> {"north", "south"}, authority |-> "agency"]
Registry == [id |-> "g1", event |-> "flood", sources |-> {Listed("s1"), Listed("s2")}]
Item(k, s, d, intent) ==
    [id |-> k, categories |-> {"shelter"}, verified |-> TRUE, redistribution |-> "permitted",
     window |-> Always, safety |-> "high", places |-> {"north"}, channels |-> {"sms"},
     sources |-> {s}, intents |-> {intent}, document |-> d, authority |-> "agency"]
First == Item("k1", "s1", "d1", "where")
Second == Item("k2", "s2", "d2", "when")
Acquired(d, value) == [id |-> d, contested |-> FALSE,
                       facts |-> {[fact |-> "hours", value |-> value]}]
Planned == [mission |-> Mission, registry |-> Registry, classifications |-> {First, Second},
            documents |-> {Acquired("d1", "day"), Acquired("d2", "day")}, at |-> 1]
GoodCorpus == [event |-> "flood", mission |-> Mission, registry |-> Registry,
               lineage |-> [event |-> "flood", registry |-> Registry,
                            classifications |-> {"k1", "k2"}],
               planned |-> Planned]

MCCandidate == {"good", "unread", "expired", "elsewhere", "disabled", "collision", "raised",
                "unlisted"}
Altered(c, corpus) ==
    CASE c = "good" -> corpus
      [] c = "unread" -> [corpus EXCEPT !.planned.classifications =
             {First, [Second EXCEPT !.verified = FALSE]}]
      [] c = "expired" -> [corpus EXCEPT !.planned.classifications =
             {First, [Second EXCEPT !.window = Past]}]
      [] c = "elsewhere" -> [corpus EXCEPT !.planned.registry.sources =
             {Listed("s1"), [Listed("s2") EXCEPT !.places = {"south"}]}]
      [] c = "disabled" -> [corpus EXCEPT !.planned.registry.sources =
             {Listed("s1"), [Listed("s2") EXCEPT !.enabled = FALSE]}]
      [] c = "collision" -> [corpus EXCEPT !.planned.documents =
             {Acquired("d1", "day"), Acquired("d2", "night")}]
      [] c = "raised" -> [corpus EXCEPT !.mission.requirements =
             {[r EXCEPT !.safety = "critical"] : r \in @}]
      [] c = "unlisted" -> [corpus EXCEPT !.lineage.classifications = {"k1"}]
MCCorpusOf == [c \in MCCandidate |-> Altered(c, GoodCorpus)]

(* The inventory that is evaluated: one requirement, one document, one case of each family. *)
Needed == [id |-> "q1", safety |-> "critical", documents |-> {"d1"}, facts |-> {"hours"},
           allowed |-> {"agency"}, maximumAge |-> 2, minimumDocuments |-> 1,
           minimumSources |-> 1, minimumCases |-> 1, places |-> {"north"},
           channels |-> {"sms"}]
Policy == [event |-> "flood", requirements |-> {Needed},
           authorities |-> {[sources |-> {"s1"}, publishers |-> {"p"}, class |-> "agency",
                             subjects |-> {"shelter"}, places |-> {"north"}]}]
Source == [id |-> "s1", publisher |-> "p", authority |-> "agency", subjects |-> {"shelter"},
           places |-> {"north"}, digest |-> "x", verified |-> 3, window |-> Always]
Cited == {[source |-> "s1", digest |-> "x"]}
Document == [id |-> "d1", event |-> "flood", safety |-> "critical", approved |-> TRUE,
             contested |-> FALSE, window |-> Always, reviewDue |-> 9, places |-> {"north"},
             channels |-> {"sms"}, citations |-> Cited,
             facts |-> {[fact |-> "hours", value |-> "day", citations |-> Cited]}]
Assessment == [policy |-> Policy, sources |-> {Source}, documents |-> {Document},
               cases |-> {[id |-> f, requirement |-> "q1", approved |-> TRUE, family |-> f,
                           place |-> "north", channel |-> "sms"] : f \in Family},
               at |-> 5, confidence |-> "trusted"]

(* The promotion evidence. *)
Class == [cases |-> 50, metrics |-> [recall |-> "met"], failed |-> {}, listed |-> TRUE]
Layer == [violations |-> 0, classes |-> [class \in SafetyClass |-> Class], runs |-> 3,
          identical |-> TRUE]
Digests(candidate, a) ==
    Suitability(a).binding @@ [release_digest |-> {candidate}]
        @@ [field \in BindingField |-> {"unchanged"}]
EvidenceFor(a) ==
    [binding |-> [source \in EvidenceSource |-> Digests("good", a)],
     release |-> [checks |-> [schema |-> TRUE], counts |-> [conflicts |-> 0], passed |-> TRUE,
                  planned |-> {Planned}, package |-> {"good"}],
     assessed |-> {a},
     planned |-> {Planned},
     retrieval |-> Layer,
     answer |-> Layer @@ [lineage |-> "met"],
     edge |-> {[metrics |-> [oom |-> "met"], checks |-> [restart |-> TRUE], latency |-> "met"]}]

MCEvidence == {"sound", "critical", "mixed", "few", "other", "switched", "absent", "stale",
               "unapproved", "broken", "guess"}
\* The inventory whose report the evidence binds, and a defect of the rest.
Inventory(e, a) ==
    CASE e = "stale" -> [a EXCEPT !.sources = {[Source EXCEPT !.verified = 2]}]
      [] e = "unapproved" -> [a EXCEPT !.documents = {[Document EXCEPT !.approved = FALSE]}]
      [] e = "broken" -> [a EXCEPT !.sources = {[Source EXCEPT !.digest = "y"]}]
      [] e = "guess" -> [a EXCEPT !.confidence = "estimated"]
      [] OTHER -> a
Spoilt(e, sound) ==
    CASE e = "critical" -> [sound EXCEPT !.answer.classes["critical"].failed = {"case"}]
      [] e = "mixed" -> [sound EXCEPT !.binding["edge_profiles"].release_digest = {"raised"}]
      [] e = "few" -> [sound EXCEPT !.retrieval.classes["critical"].cases = 49]
      [] e = "other" -> [sound EXCEPT !.planned = {Altered("disabled", GoodCorpus).planned}]
      [] e = "switched" -> [sound EXCEPT !.assessed =
             {[Assessment EXCEPT !.documents = {[Document EXCEPT !.reviewDue = 8]}]}]
      [] e = "absent" -> [sound EXCEPT !.assessed = {}]
      [] OTHER -> sound
MCEvidenceOf == [e \in MCEvidence |-> Spoilt(e, EvidenceFor(Inventory(e, Assessment)))]

Owner(p, g) == [role |-> "evaluation_owner", identity |-> p, group |-> g, decision |-> "approve"]
Approver(p, g) == [role |-> "release_approver", identity |-> p, group |-> g, decision |-> "approve"]
MCApprovalsOf ==
    "independent" :> [approvals |-> {Owner("p1", "g1"), Approver("p2", "g2")},
                      executor |-> "p3", signer |-> "p4"] @@
    "group"       :> [approvals |-> {Owner("p1", "g1"), Approver("p2", "g1")},
                      executor |-> "p3", signer |-> "p4"] @@
    "self"        :> [approvals |-> {Owner("p1", "g1"), Approver("p2", "g2")},
                      executor |-> "p2", signer |-> "p4"]
MCApprovals == DOMAIN MCApprovalsOf

(* A rotation of the release key: two are allowed, the site trusts one. *)
MCReleaseKey == {"previous", "current", "unlisted"}
MCAllowedKeys == {"previous", "current"}
MCHere == [event |-> "flood", site |-> "here", key |-> "key", classifications |-> {"internal"},
           release |-> "current"]
Address(place, k) == [event |-> "flood", site |-> place, recipient |-> place, key |-> k,
                      classification |-> "internal"]
CONSTANTS d1, d2, d3
MCAddressOf == d1 :> Address("here", "key") @@ d2 :> Address("here", "key")
            @@ d3 :> Address("there", "key2")

\* Bound: both clients have requests at the service until the first export; what is
\* exported was asked for by one of them.
SignedFirst ==
    media # {} => /\ \A c \in Client : client[c].pc = "idle"
                  /\ Cardinality({c \in Client : client[c] # NoRequest}) <= 1

Swaps == Permutations(Client) \cup Permutations(Importer) \cup Permutations({d1, d2})
==============================================================================

-------------------------- MODULE ReleasePathProofs --------------------------
(***************************************************************************)
(* Proofs about the release path, for every corpus, evidence, number of    *)
(* requests, importers and media: what the two gates establish about what  *)
(* they let through, and what the path preserves from there to a site.     *)
(***************************************************************************)
EXTENDS ReleasePath, TLAPS

------------------------------------------------------------------------------
(* The gates: pure facts about the judgements. *)

\* A mission reported COVERED has every intent answered, and no conflict (coverage.py).
LEMMA CoverageAnswers ==
    ASSUME NEW c, MissionCoverage(c).decision = "COVERED"
    PROVE  Answered(c)
<1>1. ASSUME NEW r \in c.mission.requirements
      PROVE  /\ ~Conflicted({d \in c.documents : d.id \in {item.document : item \in Related(c, r)}})
             /\ ~Gap(c, r)
  <2>1. RequirementStatus(c, r) \notin {"CONFLICTED", "GAP"}
    BY DEF MissionCoverage
  <2>. QED BY <2>1 DEF RequirementStatus
<1>2. ASSUME NEW r \in c.mission.requirements, NEW intent \in r.intents
      PROVE  \E item \in c.classifications :
              /\ r.category \in item.categories /\ intent \in item.intents /\ item.verified
              /\ item.window.from <= c.at /\ c.at < item.window.until
              /\ \A s \in item.sources :
                    \E source \in c.registry.sources :
                        /\ source.id = s /\ source.enabled /\ source.approved
                        /\ c.mission.places \subseteq source.places
  <2>1. PICK item \in Qualifying(c, r) : intent \in item.intents
    BY <1>1 DEF Gap
  <2>2. item \in Related(c, r) /\ item.verified /\ ActiveAt(item.window, c.at)
    BY <2>1 DEF Qualifying
  <2>3. ASSUME NEW s \in item.sources
        PROVE  \E source \in c.registry.sources :
                   /\ source.id = s /\ source.enabled /\ source.approved
                   /\ c.mission.places \subseteq source.places
    BY <2>1, <2>3 DEF Qualifying, Usable, SourceSupports
  <2>. QED BY <2>1, <2>2, <2>3 DEF Related, ActiveAt
<1>3. ASSUME NEW r \in c.mission.requirements,
             NEW d \in c.documents, NEW x \in c.documents,
             NEW f \in d.facts, NEW g \in x.facts, f.fact = g.fact,
             {d.id, x.id} \subseteq {item.document : item \in Related(c, r)}
      PROVE  f.value = g.value
  <2>. DEFINE D == {y \in c.documents : y.id \in {item.document : item \in Related(c, r)}}
  <2>1. d \in D /\ x \in D
    BY <1>3
  <2>2. f \in Facts(D) /\ g \in Facts(D)
    BY <2>1 DEF Facts
  <2>3. ~Conflicted(D)
    BY <1>1
  <2>. QED BY <1>3, <2>2, <2>3 DEF Conflicted
<1>. QED BY <1>2, <1>3 DEF Answered

\* An inventory that passes suitability documents every required fact (suitability.py).
LEMMA SuitabilityDocuments ==
    ASSUME NEW a, Suitability(a).failures = {}
    PROVE  Documented(a)
<1>1. ASSUME NEW r \in a.policy.requirements PROVE RequirementSuitable(a, r)
  <2>1. SUFFICES ASSUME ~RequirementSuitable(a, r) PROVE FALSE
    OBVIOUS
  <2>2. r \in {x \in a.policy.requirements : ~RequirementSuitable(a, x)}
    BY <2>1
  <2>3. <<"requirement", r.id>> \in Suitability(a).failures
    BY <2>2 DEF Suitability
  <2>. QED BY <2>3
<1>2. SUFFICES ASSUME NEW r \in a.policy.requirements, NEW fact \in r.facts
               PROVE  \E d \in a.documents :
        /\ d.approved /\ ~d.contested /\ fact \in {f.fact : f \in d.facts}
        /\ \A cite \in d.citations : \E source \in a.sources :
              /\ source.id = cite.source /\ source.digest = cite.digest
              /\ source.authority \in r.allowed
              /\ 0 <= a.at - source.verified /\ a.at - source.verified <= r.maximumAge
  BY DEF Documented
<1>. DEFINE candidates == {d \in Current(a, r) : \A source \in Sources(a, d) : Fresh(source, a, r)}
<1>3. fact \in {f.fact : f \in Facts(candidates)}
  BY <1>1 DEF RequirementSuitable
<1>4. PICK d \in candidates : fact \in {f.fact : f \in d.facts}
  BY <1>3 DEF Facts
<1>5. /\ d \in a.documents /\ LineageHolds(a, d) /\ d.approved /\ ~d.contested
      /\ \A source \in Sources(a, d) : source.authority \in r.allowed /\ Fresh(source, a, r)
  BY <1>4 DEF Current
<1>6. ASSUME NEW cite \in d.citations
      PROVE  \E source \in a.sources :
              /\ source.id = cite.source /\ source.digest = cite.digest
              /\ source.authority \in r.allowed
              /\ 0 <= a.at - source.verified /\ a.at - source.verified <= r.maximumAge
  <2>1. PICK source \in Index(a) : source.id = cite.source /\ source.digest = cite.digest
    BY <1>5, <1>6 DEF LineageHolds
  <2>2. source \in Sources(a, d) /\ source \in a.sources
    BY <2>1, <1>6 DEF Sources, Index
  <2>. QED BY <2>1, <2>2, <1>5 DEF Fresh
<1>. QED BY <1>4, <1>5, <1>6

\* What the promotion gate lets through, for a candidate that could be packaged, is what a
\* reviewer of the release would look for (promotion.py, governance.py).
LEMMA PromotionIsSound ==
    ASSUME NEW e \in Promotable, NEW c \in Packageable, <<e, c>> \in Names
    PROVE  <<e, c>> \in Sound
<1>. DEFINE given == EvidenceOf[e]
            shown == Submitted[e]
<1>0. e \in Evidence /\ c \in Candidate
  BY DEF Promotable, Packageable
<1>1. /\ shown.binding = given.binding /\ shown.retrieval = given.retrieval
      /\ shown.answer = given.answer
      /\ shown.suitability = {Suitability(a) : a \in given.assessed}
  BY <1>0 DEF Submitted, Reported
<1>2. BindingHolds(shown) /\ SuitabilityPasses(shown) /\ SafetyPasses(shown.retrieval)
      /\ SafetyPasses(shown.answer)
  BY DEF Promotable, Promoted, AnswerPasses
<1>3. ASSUME NEW source \in EvidenceSource
      PROVE  given.binding[source].release_digest = {c}
  <2>1. "release_digest" \in BindingField /\ "retrieval" \in EvidenceSource
    BY DEF BindingField, EvidenceSource
  <2>2. given.binding[source]["release_digest"] = given.binding["retrieval"]["release_digest"]
    BY <1>1, <1>2, <2>1 DEF BindingHolds
  <2>3. Binding(given).release_digest = {c}
    BY DEF Names
  <2>. QED BY <2>2, <2>3 DEF Binding
<1>4. ASSUME NEW layer, SafetyPasses(layer)
      PROVE  /\ layer.violations = 0
             /\ layer.classes["critical"].failed = {} /\ layer.classes["critical"].cases >= 50
  BY <1>4 DEF SafetyPasses, ClassPasses, SafetyClass, MinimumCases
<1>5. Answered(CorpusOf[c].planned)
  <2>1. Governance[c].coverage.decision = "COVERED"
    BY DEF Packageable, GovernanceHolds
  <2>2. Governance[c].coverage = MissionCoverage(CorpusOf[c].planned)
    BY <1>0 DEF Governance, PackagedWith
  <2>. QED BY <2>1, <2>2, CoverageAnswers
<1>6. \E a \in given.assessed : Documented(a)
  <2>1. PICK report \in shown.suitability : report.failures = {}
    BY <1>2 DEF SuitabilityPasses
  <2>2. PICK a \in given.assessed : report = Suitability(a)
    BY <2>1, <1>1
  <2>. QED BY <2>1, <2>2, SuitabilityDocuments
<1>7. \A layer \in {given.retrieval, given.answer} :
          /\ layer.violations = 0
          /\ layer.classes["critical"].failed = {} /\ layer.classes["critical"].cases >= 50
  BY <1>1, <1>2, <1>4
<1>. QED BY <1>0, <1>3, <1>5, <1>6, <1>7 DEF Sound, IsSound

\* Approvals that are independent come from two people of two groups, neither of whom
\* ran the evaluation (evaluation_attestation.py).
LEMMA TwoPeopleApprove ==
    ASSUME NEW a, Independent(a)
    PROVE  \E owner, approver \in a.approvals :
              /\ owner.role = "evaluation_owner" /\ approver.role = "release_approver"
              /\ owner.identity # approver.identity /\ owner.group # approver.group
              /\ a.executor \notin {owner.identity, approver.identity}
<1>1. PICK owner \in a.approvals : owner.role = "evaluation_owner"
  BY DEF Independent
<1>2. PICK approver \in a.approvals : approver.role = "release_approver"
  BY DEF Independent
<1>. QED BY <1>1, <1>2 DEF Independent

------------------------------------------------------------------------------
(* Types. *)

RequestType == [pc : {"idle", "signing", "save"}, statements : SUBSET SignedRelease,
                answer : {"none", "signed", "conflict", "refused", "unavailable"}]
ImportType == [pc : {"idle", "verified", "read", "copied", "committed"},
               transfers : SUBSET Transfer, read : ImportState]

LEMMA TypeInit == Init => TypeOK
<1>. SUFFICES ASSUME Init PROVE TypeOK
  OBVIOUS
<1>1. NoRequest \in RequestType /\ NoImport \in ImportType
  BY PathAssumption DEF NoRequest, NoImport, RequestType, ImportType, ImportState
<1>2. client \in [Client -> RequestType] /\ importer \in [Importer -> ImportType]
  BY <1>1 DEF Init
<1>3. clock \in 0..MaxTime /\ state \in ImportState
  BY PathAssumption DEF Init, ImportState
<1>4. commits \in Seq(Transfer)
  BY DEF Init
<1>. QED BY <1>2, <1>3, <1>4 DEF Init, TypeOK, RequestType, ImportType

LEMMA TypeFactory == TypeOK /\ Factory => TypeOK'
<1>. SUFFICES ASSUME TypeOK, Factory PROVE TypeOK'
  OBVIOUS
<1>1. CASE \E c \in Candidate : BuildCandidate(c)
  BY <1>1 DEF BuildCandidate, TypeOK, service, site
<1>2. CASE \E e \in Evidence, a \in Approvals : Attest(e, a)
  BY <1>2 DEF Attest, Attestation, TypeOK, service, site
<1>3. CASE \E att \in attestations, c \in built : Authorize(att, c)
  BY <1>3 DEF Authorize, Authorization, TypeOK, service, site
<1>4. CASE \E att \in attestations : Revoke(att)
  BY <1>4 DEF Revoke, TypeOK, service, site
<1>5. CASE SignerLearns
  BY <1>5 DEF SignerLearns, TypeOK, service, site
<1>6. CASE SiteLearns
  BY <1>6 DEF SiteLearns, TypeOK, service, factory
<1>. QED BY <1>1, <1>2, <1>3, <1>4, <1>5, <1>6 DEF Factory

\* An answer, and a request begun, have the type of a request.
LEMMA RequestTypes ==
    ASSUME TypeOK, NEW c \in Client
    PROVE  /\ \A answer \in {"signed", "conflict", "refused", "unavailable"} :
                 Answer(c, answer) => client' \in [Client -> RequestType]
           /\ \A statement \in SignedRelease :
                 client' = [client EXCEPT ![c] = [pc |-> "signing", statements |-> {statement},
                                                  answer |-> "none"]] =>
                    client' \in [Client -> RequestType]
<1>0. client \in [Client -> RequestType]
  BY DEF TypeOK, RequestType
<1>1. \A answer \in {"signed", "conflict", "refused", "unavailable"} :
         [NoRequest EXCEPT !.answer = answer] \in RequestType
  BY PathAssumption DEF NoRequest, RequestType
<1>2. \A statement \in SignedRelease :
         [pc |-> "signing", statements |-> {statement}, answer |-> "none"] \in RequestType
  BY DEF RequestType
<1>. QED BY <1>0, <1>1, <1>2 DEF Answer

LEMMA TypeService == TypeOK /\ Service => TypeOK'
<1>. SUFFICES ASSUME TypeOK, Service PROVE TypeOK'
  OBVIOUS
<1>1. CASE \E c \in Client, auth \in authorizations, candidate \in built,
                key \in ReleaseKey, rotation \in RotationState :
                 \/ SignBegins(c, auth, candidate, key, rotation)
                 \/ SignRefused(c, auth, candidate, key, rotation)
  <2>1. PICK c \in Client, auth \in authorizations, candidate \in built,
              key \in ReleaseKey, rotation \in RotationState :
                 \/ SignBegins(c, auth, candidate, key, rotation)
                 \/ SignRefused(c, auth, candidate, key, rotation)
    BY <1>1
  <2>2. Statement(auth, key, rotation, clock) \in SignedRelease
    BY DEF TypeOK, Statement, SignedRelease
  <2>3. client' \in [Client -> RequestType]
    BY <2>1, <2>2, RequestTypes DEF SignBegins, SignRefused
  <2>4. released' \subseteq SignedRelease /\ requests' \in Nat
    BY <2>1, <2>2 DEF SignBegins, SignRefused, TypeOK
  <2>5. UNCHANGED <<clock, factory, store, media, site, crashes>>
    BY <2>1 DEF SignBegins, SignRefused
  <2>. QED BY <2>3, <2>4, <2>5 DEF TypeOK, RequestType, factory, site
<1>2. CASE \E c \in Client : AdapterSigns(c)
  <2>1. PICK c \in Client : AdapterSigns(c)
    BY <1>2
  <2>2. client' \in [Client -> RequestType]
    BY <2>1 DEF AdapterSigns, TypeOK, RequestType
  <2>. QED BY <2>1, <2>2 DEF AdapterSigns, TypeOK, RequestType, factory, site
<1>3. CASE \E c \in Client : AdapterFails(c)
  <2>1. PICK c \in Client : AdapterFails(c)
    BY <1>3
  <2>2. client' \in [Client -> RequestType]
    BY <2>1, RequestTypes DEF AdapterFails
  <2>. QED BY <2>1, <2>2 DEF AdapterFails, TypeOK, RequestType, factory, site
<1>4. CASE \E c \in Client : Save(c)
  <2>1. PICK c \in Client : Save(c)
    BY <1>4
  <2>2. client' \in [Client -> RequestType]
    BY <2>1, RequestTypes DEF Save
  <2>3. \A statement \in client[c].statements : statement \in SignedRelease
    BY DEF TypeOK
  <2>4. store' \subseteq SignedRelease /\ released' \subseteq SignedRelease
    BY <2>1, <2>3 DEF Save, TypeOK
  <2>. QED BY <2>1, <2>2, <2>4 DEF Save, TypeOK, RequestType, factory, site
<1>5. CASE ServiceCrash
  <2>1. client' \in [Client -> RequestType]
    BY <1>5, PathAssumption DEF ServiceCrash, NoRequest, RequestType
  <2>. QED BY <1>5, <2>1 DEF ServiceCrash, TypeOK, RequestType, factory, site
<1>. QED BY <1>1, <1>2, <1>3, <1>4, <1>5 DEF Service

LEMMA TypeCarrier == TypeOK /\ Carrier => TypeOK'
<1>. SUFFICES ASSUME TypeOK, Carrier PROVE TypeOK'
  OBVIOUS
<1>0. NoImport \in ImportType /\ importer \in [Importer -> ImportType]
  BY PathAssumption DEF NoImport, ImportType, ImportState, TypeOK
<1>1. CASE \E signature \in released, id \in MediaId, sequence \in 1..MaxSequence :
                 Export(signature, id, sequence)
  BY <1>1 DEF Export, Transfer, TypeOK, factory, service, site
<1>2. CASE \E i \in Importer, t \in media : ImportBegins(i, t)
  <2>1. PICK i \in Importer, t \in media : ImportBegins(i, t)
    BY <1>2
  <2>2. [NoImport EXCEPT !.pc = "verified", !.transfers = {t}] \in ImportType
    BY <1>0 DEF ImportType, TypeOK
  <2>3. importer' \in [Importer -> ImportType]
    BY <2>1, <2>2, <1>0 DEF ImportBegins
  <2>. QED BY <2>1, <2>3 DEF ImportBegins, TypeOK, ImportType, factory, service
<1>3. CASE \E i \in Importer : ReadState(i)
  <2>1. PICK i \in Importer : ReadState(i)
    BY <1>3
  <2>2. [importer[i] EXCEPT !.pc = "read", !.read = state] \in ImportType
    BY <1>0 DEF ImportType, TypeOK
  <2>3. importer' \in [Importer -> ImportType]
    BY <2>1, <2>2, <1>0 DEF ReadState
  <2>. QED BY <2>1, <2>3 DEF ReadState, TypeOK, ImportType, factory, service
<1>4. CASE \E i \in Importer : CopyToInbox(i)
  <2>1. PICK i \in Importer : CopyToInbox(i)
    BY <1>4
  <2>2. importer' \in [Importer -> ImportType]
    BY <2>1, <1>0 DEF CopyToInbox, ImportType
  <2>3. inbox' \subseteq Transfer
    BY <2>1, <1>0 DEF CopyToInbox, ImportType, TypeOK
  <2>. QED BY <2>1, <2>2, <2>3 DEF CopyToInbox, TypeOK, ImportType, factory, service
<1>5. CASE \E i \in Importer : Commit(i)
  <2>1. PICK i \in Importer : Commit(i)
    BY <1>5
  <2>2. importer' \in [Importer -> ImportType]
    BY <2>1, <1>0 DEF Commit, ImportType
  <2>3. PICK t \in importer[i].transfers :
           /\ state' = [floor |-> t.sequence, used |-> importer[i].read.used \cup {t.id}]
           /\ commits' = Append(commits, t)
    BY <2>1 DEF Commit
  <2>4. t \in Transfer /\ importer[i].read \in ImportState
    BY <1>0 DEF ImportType
  <2>5. state' \in ImportState
    BY <2>3, <2>4, PathAssumption DEF ImportState, Transfer
  <2>6. commits' \in Seq(Transfer)
    BY <2>3, <2>4 DEF TypeOK
  <2>. QED BY <2>1, <2>2, <2>5, <2>6 DEF Commit, TypeOK, ImportType, factory, service
<1>6. CASE \E i \in Importer : PlaceOutput(i)
  <2>1. PICK i \in Importer : PlaceOutput(i)
    BY <1>6
  <2>2. importer' \in [Importer -> ImportType]
    BY <2>1, <1>0 DEF PlaceOutput
  <2>3. outputs' \subseteq Transfer
    BY <2>1, <1>0 DEF PlaceOutput, ImportType, TypeOK
  <2>. QED BY <2>1, <2>2, <2>3 DEF PlaceOutput, TypeOK, ImportType, factory, service
<1>7. CASE \E i \in Importer : ImporterCrash(i)
  <2>1. PICK i \in Importer : ImporterCrash(i)
    BY <1>7
  <2>2. importer' \in [Importer -> ImportType]
    BY <2>1, <1>0 DEF ImporterCrash
  <2>. QED BY <2>1, <2>2 DEF ImporterCrash, TypeOK, ImportType, factory, service
<1>8. CASE \E t \in outputs : PrepareActivation(t)
  BY <1>8 DEF PrepareActivation, TypeOK, factory, service
<1>. QED BY <1>1, <1>2, <1>3, <1>4, <1>5, <1>6, <1>7, <1>8 DEF Carrier

LEMMA TypeStep == TypeOK /\ [Next]_vars => TypeOK'
<1>. SUFFICES ASSUME TypeOK, [Next]_vars PROVE TypeOK'
  OBVIOUS
<1>1. CASE Tick
  BY <1>1, PathAssumption DEF Tick, TypeOK, factory, service, site
<1>2. CASE UNCHANGED vars
  BY <1>2 DEF TypeOK, vars, factory, service, site
<1>. QED BY <1>1, <1>2, TypeFactory, TypeService, TypeCarrier DEF Next

\* Every variable keeps its type.
THEOREM TypeCorrect == Spec => []TypeOK
<1>. QED BY TypeInit, TypeStep, PTL DEF Spec

------------------------------------------------------------------------------
(* The replay store: one row for an authorization and a key, and nothing released that
   is not a row.  Saving looks at the rows once more, which is what makes two requests at once
   and a request repeated after a crash safe. *)

StoreInv == /\ \A s, t \in store : s.auth = t.auth /\ s.key = t.key => s = t
            /\ released \subseteq store

LEMMA StoreStep == StoreInv /\ [Next]_vars => StoreInv'
<1>. SUFFICES ASSUME StoreInv, [Next]_vars PROVE StoreInv'
  OBVIOUS
<1>1. CASE \E c \in Client, auth \in authorizations, candidate \in built,
                key \in ReleaseKey, rotation \in RotationState :
                 \/ SignBegins(c, auth, candidate, key, rotation)
                 \/ SignRefused(c, auth, candidate, key, rotation)
  <2>1. store' = store /\ released' \subseteq released \cup store
    BY <1>1 DEF SignBegins, SignRefused, Rows
  <2>. QED BY <2>1 DEF StoreInv
<1>2. ASSUME NEW c \in Client, Save(c) PROVE StoreInv'
  <2>1. PICK new \in client[c].statements :
            \/ /\ Rows(new.auth, new.key) \subseteq {new}
               /\ store' = store \cup {new}
               /\ released' = released \cup {new}
            \/ UNCHANGED <<store, released>>
    BY <1>2 DEF Save
  <2>2. ASSUME NEW s \in store, s.auth = new.auth, s.key = new.key,
               Rows(new.auth, new.key) \subseteq {new}
        PROVE  s = new
    BY <2>2 DEF Rows
  <2>. QED BY <2>1, <2>2 DEF StoreInv
<1>3. CASE UNCHANGED <<store, released>>
  BY <1>3 DEF StoreInv
<1>4. ASSUME Factory \/ Carrier \/ Tick \/ ServiceCrash \/ UNCHANGED vars
      PROVE  UNCHANGED <<store, released>>
  <2>1. CASE Factory
    BY <2>1 DEF Factory, BuildCandidate, Attest, Authorize, Revoke, SignerLearns, SiteLearns, service
  <2>2. CASE Carrier
    BY <2>2 DEF Carrier, Export, ImportBegins, ReadState, CopyToInbox, Commit, PlaceOutput,
                ImporterCrash, PrepareActivation, service
  <2>. QED BY <1>4, <2>1, <2>2 DEF Tick, ServiceCrash, vars, service
<1>5. ASSUME NEW c \in Client, AdapterSigns(c) \/ AdapterFails(c)
      PROVE  UNCHANGED <<store, released>>
  BY <1>5 DEF AdapterSigns, AdapterFails
<1>. QED BY <1>1, <1>2, <1>3, <1>4, <1>5 DEF Next, Service

\* An authorization yields one signature record with each release key, whoever asks,
\* however often, and whenever the service dies (release_signing.py: 107-144, 255-286).
THEOREM OneSignature == Spec => []OneSignatureReleased
<1>1. Init => StoreInv
  BY DEF Init, StoreInv
<1>2. StoreInv => OneSignatureReleased
  BY DEF StoreInv, OneSignatureReleased
<1>. QED BY <1>1, <1>2, StoreStep, PTL DEF Spec

------------------------------------------------------------------------------
(* Where everything at a site comes from, back to the evidence. *)

\* Built candidates passed the governance gate; what was attested passed promotion and
\* was approved; authorizations are for the candidate the evidence is about.
FactoryInv ==
    /\ built \subseteq Packageable
    /\ \A att \in attestations : att.evidence \in Promotable /\ Independent(ApprovalsOf[att.approvals])
    /\ \A auth \in authorizations :
          /\ auth.attestation \in attestations /\ auth.candidate \in built
          /\ <<auth.attestation.evidence, auth.candidate>> \in Names
          /\ auth.attestation.signed <= auth.at

\* A record was signed within the age its authorization may have, with a key that the
\* policy allows and that could sign.
Timely(s) == /\ s.auth \in authorizations /\ s.auth.at <= s.at /\ s.at <= s.auth.at + MaxAge
             /\ s.key \in AllowedKeys /\ s.rotation \in MaySign

ServiceInv ==
    /\ \A c \in Client : client[c].pc # "idle" => \A s \in client[c].statements : Timely(s)
    /\ \A row \in store : Timely(row)
    /\ released \subseteq store

\* The signing service writes nothing of the factory's, of the media or of the site.
LEMMA ServiceWrites == Service => UNCHANGED <<clock, factory, media, site>>
<1>1. ASSUME NEW c \in Client, NEW auth \in authorizations, NEW candidate \in built,
             NEW key \in ReleaseKey, NEW rotation \in RotationState,
             \/ SignBegins(c, auth, candidate, key, rotation)
             \/ SignRefused(c, auth, candidate, key, rotation)
      PROVE  UNCHANGED <<clock, factory, media, site>>
  BY <1>1 DEF SignBegins, SignRefused
<1>2. ASSUME NEW c \in Client, AdapterSigns(c) \/ AdapterFails(c) \/ Save(c)
      PROVE  UNCHANGED <<clock, factory, media, site>>
  BY <1>2 DEF AdapterSigns, AdapterFails, Save
<1>3. ServiceCrash => UNCHANGED <<clock, factory, media, site>>
  BY DEF ServiceCrash
<1>. QED BY <1>1, <1>2, <1>3 DEF Service

LEMMA FactoryStep == TypeOK /\ FactoryInv /\ [Next]_vars => FactoryInv'
<1>. SUFFICES ASSUME TypeOK, FactoryInv, [Next]_vars PROVE FactoryInv'
  OBVIOUS
<1>1. CASE UNCHANGED <<built, attestations, authorizations>>
  BY <1>1 DEF FactoryInv
<1>2. ASSUME NEW c \in Candidate, BuildCandidate(c) PROVE FactoryInv'
  BY <1>2 DEF BuildCandidate, FactoryInv
<1>3. ASSUME NEW e \in Evidence, NEW a \in Approvals, Attest(e, a) PROVE FactoryInv'
  <2>1. attestations' = attestations \cup {[evidence |-> e, approvals |-> a, signed |-> clock]}
    BY <1>3 DEF Attest
  <2>. QED BY <1>3, <2>1 DEF Attest, FactoryInv
<1>4. ASSUME NEW att \in attestations, NEW c \in built, Authorize(att, c) PROVE FactoryInv'
  <2>. DEFINE new == [attestation |-> att, candidate |-> c, at |-> clock]
  <2>1. /\ authorizations' = authorizations \cup {new}
        /\ UNCHANGED <<built, attestations>>
        /\ <<att.evidence, c>> \in Names /\ att.signed <= clock
    BY <1>4 DEF Authorize, AttestationVerifies
  <2>2. new.attestation = att /\ new.candidate = c /\ new.at = clock
    OBVIOUS
  <2>. HIDE DEF new
  <2>. QED BY <2>1, <2>2 DEF FactoryInv
<1>5. ASSUME Service \/ Carrier \/ Tick \/ UNCHANGED vars
      PROVE  UNCHANGED <<built, attestations, authorizations>>
  <2>1. CASE Service
    BY <2>1, ServiceWrites DEF factory
  <2>2. CASE Carrier
    BY <2>2 DEF Carrier, Export, ImportBegins, ReadState, CopyToInbox, Commit, PlaceOutput,
                ImporterCrash, PrepareActivation, factory
  <2>. QED BY <1>5, <2>1, <2>2 DEF Tick, vars, factory
<1>6. ASSUME (\E att \in attestations : Revoke(att)) \/ SignerLearns \/ SiteLearns
      PROVE  UNCHANGED <<built, attestations, authorizations>>
  BY <1>6 DEF Revoke, SignerLearns, SiteLearns, factory
<1>. QED BY <1>1, <1>2, <1>3, <1>4, <1>5, <1>6 DEF Next, Factory

LEMMA ServiceStep == TypeOK /\ ServiceInv /\ [Next]_vars => ServiceInv'
<1>. SUFFICES ASSUME TypeOK, ServiceInv, [Next]_vars PROVE ServiceInv'
  OBVIOUS
<1>0. client \in [Client -> RequestType]
  BY DEF TypeOK, RequestType
<1>1. CASE UNCHANGED service /\ authorizations \subseteq authorizations'
  BY <1>1 DEF ServiceInv, Timely, service
<1>2. ASSUME NEW c \in Client, NEW auth \in authorizations, NEW candidate \in built,
             NEW key \in ReleaseKey, NEW rotation \in RotationState,
             \/ SignBegins(c, auth, candidate, key, rotation)
             \/ SignRefused(c, auth, candidate, key, rotation)
      PROVE  ServiceInv'
  <2>. DEFINE new == Statement(auth, key, rotation, clock)
  <2>1. /\ UNCHANGED <<store, authorizations>>
        /\ released' \subseteq released \cup store
        /\ \A x \in Client : x # c => client'[x] = client[x]
    BY <1>2, <1>0 DEF SignBegins, SignRefused, Rows, Answer, factory
  <2>2. \/ client'[c].pc = "idle"
        \/ client'[c].statements = {new} /\ Timely(new)
    BY <1>2, <1>0 DEF SignBegins, SignRefused, Answer, NoRequest, Timely, Statement
  <2>. HIDE DEF new
  <2>. QED BY <2>1, <2>2 DEF ServiceInv, Timely
<1>3. ASSUME NEW c \in Client, AdapterSigns(c) \/ AdapterFails(c) PROVE ServiceInv'
  <2>1. /\ UNCHANGED <<store, released, authorizations>>
        /\ \A x \in Client : x # c => client'[x] = client[x]
        /\ \/ client'[c].pc = "idle"
           \/ /\ client[c].pc # "idle"
              /\ client'[c].statements = client[c].statements
    BY <1>3, <1>0 DEF AdapterSigns, AdapterFails, Answer, NoRequest, RequestType, factory
  <2>. QED BY <2>1 DEF ServiceInv, Timely
<1>4. ASSUME NEW c \in Client, Save(c) PROVE ServiceInv'
  <2>1. PICK new \in client[c].statements :
            \/ /\ store' = store \cup {new}
               /\ released' = released \cup {new}
            \/ UNCHANGED <<store, released>>
    BY <1>4 DEF Save
  <2>2. /\ authorizations' = authorizations
        /\ \A x \in Client : x # c => client'[x] = client[x]
        /\ client'[c].pc = "idle"
    BY <1>4, <1>0 DEF Save, Answer, NoRequest, factory
  <2>3. Timely(new)
    BY <1>4 DEF Save, ServiceInv
  <2>. QED BY <2>1, <2>2, <2>3 DEF ServiceInv, Timely
<1>5. CASE ServiceCrash
  BY <1>5 DEF ServiceCrash, NoRequest, ServiceInv, Timely, factory
<1>6. ASSUME Factory \/ Carrier \/ Tick \/ UNCHANGED vars
      PROVE  UNCHANGED service /\ authorizations \subseteq authorizations'
  <2>1. CASE Factory
    BY <2>1 DEF Factory, BuildCandidate, Attest, Authorize, Revoke, SignerLearns, SiteLearns,
                factory
  <2>2. CASE Carrier
    BY <2>2 DEF Carrier, Export, ImportBegins, ReadState, CopyToInbox, Commit, PlaceOutput,
                ImporterCrash, PrepareActivation, factory
  <2>. QED BY <1>6, <2>1, <2>2 DEF Tick, vars, factory
<1>. QED BY <1>1, <1>2, <1>3, <1>4, <1>5, <1>6 DEF Next, Service

------------------------------------------------------------------------------
(* The site: what its importers hold, what its inbox keeps, what it prepares. *)

Addressed(t) == /\ ManifestHolds(AddressOf[t.id]) /\ Opens(AddressOf[t.id])
                /\ t.signature.key = Here.release

\* A package was prepared from evidence within its lifecycle and not known to be revoked.
PreparedInTime(p) == LET att == p.transfer.signature.auth.attestation IN
                     p.at < att.signed + Validity /\ att \notin p.knew

SiteInv ==
    /\ \A t \in media : t.signature \in released
    /\ \A i \in Importer : \A t \in importer[i].transfers : t \in media /\ Addressed(t)
    /\ \A i \in Importer : importer[i].pc \in {"copied", "committed"} =>
                               importer[i].transfers \subseteq inbox
    /\ \A t \in outputs : t \in media /\ Addressed(t) /\ t \in inbox
    /\ \A p \in packages : p.transfer \in outputs /\ PreparedInTime(p)

\* The media and floor of the site's state, and of the states importers have read, are
\* backed by the inbox.
Held(id) == \E t \in inbox : t.id = id
KeptInv ==
    /\ \A id \in state.used : Held(id)
    /\ state.floor > 0 => \E t \in inbox : t.sequence = state.floor
    /\ \A i \in Importer : \A id \in importer[i].read.used : Held(id)

\* With one import at a time, an importer's reading is the state, and the state is ahead
\* of everything committed.
Behind(t) == t.id \in state.used /\ t.sequence <= state.floor
AloneInv ==
    /\ \A i, j \in Importer : importer[i].pc # "idle" /\ importer[j].pc # "idle" => i = j
    /\ \A i \in Importer : importer[i].pc \in {"read", "copied"} =>
          /\ importer[i].read = state
          /\ \A t \in importer[i].transfers : Admissible(t, state)
    /\ \A i \in Importer : \A t, u \in importer[i].transfers : t = u
    /\ \A k \in 1..Len(commits) : Behind(commits[k])
    /\ \A k, l \in 1..Len(commits) : k < l => /\ commits[k].id # commits[l].id
                                              /\ commits[k].sequence < commits[l].sequence
OnceInv == ~overlapped => AloneInv

LEMMA ServiceLeavesSite ==
    ASSUME Factory \/ Service \/ Tick
    PROVE  /\ UNCHANGED <<media, state, inbox, importer, outputs, packages, commits, overlapped>>
           /\ released \subseteq released'
<1>1. CASE Factory
  BY <1>1 DEF Factory, BuildCandidate, Attest, Authorize, Revoke, SignerLearns, SiteLearns,
              site, service
<1>2. CASE Service
  <2>1. released \subseteq released'
    <3>1. ASSUME NEW c \in Client, NEW auth \in authorizations, NEW candidate \in built,
                 NEW key \in ReleaseKey, NEW rotation \in RotationState,
                 \/ SignBegins(c, auth, candidate, key, rotation)
                 \/ SignRefused(c, auth, candidate, key, rotation)
          PROVE  released \subseteq released'
      BY <3>1 DEF SignBegins, SignRefused
    <3>2. ASSUME NEW c \in Client, AdapterSigns(c) \/ AdapterFails(c) \/ Save(c)
          PROVE  released \subseteq released'
      BY <3>2 DEF AdapterSigns, AdapterFails, Save
    <3>3. ServiceCrash => released \subseteq released'
      BY DEF ServiceCrash
    <3>. QED BY <1>2, <3>1, <3>2, <3>3 DEF Service
  <2>. QED BY <1>2, <2>1, ServiceWrites DEF site
<1>3. CASE Tick
  BY <1>3 DEF Tick, site, service
<1>. QED BY <1>1, <1>2, <1>3

LEMMA SiteStep == TypeOK /\ SiteInv /\ [Next]_vars => SiteInv'
<1>. SUFFICES ASSUME TypeOK, SiteInv, [Next]_vars PROVE SiteInv'
  OBVIOUS
<1>0. importer \in [Importer -> ImportType]
  BY DEF TypeOK, ImportType
<1>1. CASE Factory \/ Service \/ Tick
  <2>1. /\ UNCHANGED <<media, inbox, importer, outputs, packages>>
        /\ released \subseteq released'
    BY <1>1, ServiceLeavesSite
  <2>. QED BY <2>1 DEF SiteInv, Addressed, PreparedInTime
<1>2. CASE UNCHANGED vars
  BY <1>2 DEF vars, site, service, SiteInv, Addressed, PreparedInTime
<1>3. ASSUME NEW signature \in released, NEW id \in MediaId, NEW sequence \in 1..MaxSequence,
             Export(signature, id, sequence)
      PROVE  SiteInv'
  <2>. DEFINE new == [id |-> id, sequence |-> sequence, signature |-> signature]
  <2>1. /\ media' = media \cup {new} /\ new.signature = signature
        /\ UNCHANGED <<inbox, importer, outputs, packages, released>>
    BY <1>3 DEF Export, site, service
  <2>. HIDE DEF new
  <2>. QED BY <2>1 DEF SiteInv, Addressed, PreparedInTime
<1>4. ASSUME NEW i \in Importer, NEW t \in media, ImportBegins(i, t) PROVE SiteInv'
  <2>1. /\ UNCHANGED <<media, inbox, outputs, packages, released>>
        /\ \A j \in Importer : j # i => importer'[j] = importer[j]
    BY <1>4, <1>0 DEF ImportBegins, service
  <2>2. importer'[i].transfers = {t} /\ importer'[i].pc = "verified" /\ Addressed(t)
    BY <1>4, <1>0 DEF ImportBegins, NoImport, Addressed, GovernedVerifies
  <2>. QED BY <2>1, <2>2 DEF SiteInv, Addressed, PreparedInTime
<1>5. ASSUME NEW i \in Importer, ReadState(i) PROVE SiteInv'
  <2>1. /\ UNCHANGED <<media, inbox, outputs, packages, released>>
        /\ \A j \in Importer : j # i => importer'[j] = importer[j]
    BY <1>5, <1>0 DEF ReadState, service
  <2>2. importer'[i].transfers \subseteq importer[i].transfers /\ importer'[i].pc \in {"read", "idle"}
    BY <1>5, <1>0 DEF ReadState, NoImport, ImportType
  <2>. QED BY <2>1, <2>2 DEF SiteInv, Addressed, PreparedInTime
<1>6. ASSUME NEW i \in Importer, CopyToInbox(i) PROVE SiteInv'
  <2>1. /\ UNCHANGED <<media, outputs, packages, released>>
        /\ inbox' = inbox \cup importer[i].transfers
        /\ \A j \in Importer : j # i => importer'[j] = importer[j]
        /\ importer'[i].transfers = importer[i].transfers
    BY <1>6, <1>0 DEF CopyToInbox, ImportType, service
  <2>. QED BY <2>1 DEF SiteInv, Addressed, PreparedInTime
<1>7. ASSUME NEW i \in Importer, Commit(i) PROVE SiteInv'
  <2>1. /\ UNCHANGED <<media, inbox, outputs, packages, released>>
        /\ \A j \in Importer : j # i => importer'[j] = importer[j]
        /\ importer'[i].transfers = importer[i].transfers
        /\ importer[i].pc = "copied"
    BY <1>7, <1>0 DEF Commit, ImportType, service
  <2>. QED BY <2>1 DEF SiteInv, Addressed, PreparedInTime
<1>8. ASSUME NEW i \in Importer, PlaceOutput(i) PROVE SiteInv'
  <2>1. /\ UNCHANGED <<media, inbox, packages, released>>
        /\ outputs' \subseteq outputs \cup importer[i].transfers /\ outputs \subseteq outputs'
        /\ \A j \in Importer : j # i => importer'[j] = importer[j]
        /\ importer'[i].transfers = {} /\ importer[i].pc = "committed"
    BY <1>8, <1>0 DEF PlaceOutput, NoImport, service
  <2>. QED BY <2>1 DEF SiteInv, Addressed, PreparedInTime
<1>9. ASSUME NEW i \in Importer, ImporterCrash(i) PROVE SiteInv'
  <2>1. /\ UNCHANGED <<media, inbox, outputs, packages, released>>
        /\ \A j \in Importer : j # i => importer'[j] = importer[j]
        /\ importer'[i].transfers = {}
    BY <1>9, <1>0 DEF ImporterCrash, NoImport, service
  <2>. QED BY <2>1 DEF SiteInv, Addressed, PreparedInTime
<1>10. ASSUME NEW t \in outputs, PrepareActivation(t) PROVE SiteInv'
  <2>. DEFINE new == [transfer |-> t, at |-> clock, knew |-> siteKnows]
  <2>1. /\ UNCHANGED <<media, inbox, importer, outputs, released>>
        /\ packages' = packages \cup {new}
        /\ new.transfer = t
    BY <1>10 DEF PrepareActivation, service
  <2>2. PreparedInTime(new)
    BY <1>10 DEF PrepareActivation, GovernedVerifies, AttestationVerifies, PreparedInTime
  <2>. HIDE DEF new
  <2>. QED BY <2>1, <2>2 DEF SiteInv, Addressed, PreparedInTime
<1>. QED BY <1>1, <1>2, <1>3, <1>4, <1>5, <1>6, <1>7, <1>8, <1>9, <1>10 DEF Next, Carrier

\* Whatever a site prepares for activation is addressed to it, was evaluated as this very
\* candidate and soundly so, approved by two people of two groups, and signed within the
\* authorization's age with an allowed key that it trusts
\* (docs/governed-disconnected-activation.md: 5-9).
THEOREM Approved == Spec => []ActivatedIsApproved
<1>1. Init => FactoryInv /\ ServiceInv /\ SiteInv
  BY DEF Init, FactoryInv, ServiceInv, SiteInv, NoRequest, NoImport
<1>2. FactoryInv /\ ServiceInv /\ SiteInv => ActivatedIsApproved
  <2>. SUFFICES ASSUME FactoryInv, ServiceInv, SiteInv, NEW p \in packages
                PROVE  LET signature == p.transfer.signature
                           auth == signature.auth
                           att == auth.attestation
                           a == ApprovalsOf[att.approvals] IN
        /\ <<att.evidence, auth.candidate>> \in Sound
        /\ AddressOf[p.transfer.id].site = Here.site /\ AddressOf[p.transfer.id].key = Here.key
        /\ \E owner, approver \in a.approvals :
              /\ owner.role = "evaluation_owner" /\ approver.role = "release_approver"
              /\ owner.identity # approver.identity /\ owner.group # approver.group
              /\ a.executor \notin {owner.identity, approver.identity}
        /\ signature \in released
        /\ signature.key = Here.release /\ signature.key \in AllowedKeys
        /\ signature.rotation \in MaySign
        /\ att.signed <= auth.at /\ auth.at <= signature.at /\ signature.at <= auth.at + MaxAge
        /\ p.at < att.signed + Validity /\ att \notin p.knew
        /\ p.transfer \in inbox
    BY DEF ActivatedIsApproved
  <2>. DEFINE signature == p.transfer.signature
              auth == signature.auth
              att == auth.attestation
  <2>1. p.transfer \in inbox /\ Addressed(p.transfer) /\ signature \in released /\ PreparedInTime(p)
    BY DEF SiteInv
  <2>2. Timely(signature)
    BY <2>1 DEF ServiceInv
  <2>3. /\ att \in attestations /\ auth.candidate \in built
        /\ <<att.evidence, auth.candidate>> \in Names /\ att.signed <= auth.at
    BY <2>2 DEF Timely, FactoryInv
  <2>4. <<att.evidence, auth.candidate>> \in Sound
    BY <2>3, PromotionIsSound DEF FactoryInv
  <2>5. Independent(ApprovalsOf[att.approvals])
    BY <2>3 DEF FactoryInv
  <2>6. /\ AddressOf[p.transfer.id].site = Here.site /\ AddressOf[p.transfer.id].key = Here.key
        /\ signature.key = Here.release
    BY <2>1 DEF Addressed, ManifestHolds, Opens
  <2>7. p.at < att.signed + Validity /\ att \notin p.knew
    BY <2>1 DEF PreparedInTime
  <2>. QED BY <2>1, <2>2, <2>3, <2>4, <2>5, <2>6, <2>7, TwoPeopleApprove DEF Timely
<1>. QED BY <1>1, <1>2, TypeInit, TypeStep, FactoryStep, ServiceStep, SiteStep, PTL DEF Spec

LEMMA KeptStep == TypeOK /\ SiteInv /\ KeptInv /\ [Next]_vars => KeptInv'
<1>. SUFFICES ASSUME TypeOK, SiteInv, KeptInv, [Next]_vars PROVE KeptInv'
  OBVIOUS
<1>0. importer \in [Importer -> ImportType]
  BY DEF TypeOK, ImportType
<1>1. CASE UNCHANGED <<state, inbox, importer>>
  BY <1>1 DEF KeptInv, Held
<1>2. CASE Factory \/ Service \/ Tick \/ UNCHANGED vars
  BY <1>1, <1>2, ServiceLeavesSite DEF vars, site
<1>3. ASSUME (\E signature \in released, id \in MediaId, sequence \in 1..MaxSequence :
                 Export(signature, id, sequence)) \/ \E t \in outputs : PrepareActivation(t)
      PROVE  UNCHANGED <<state, inbox, importer>>
  BY <1>3 DEF Export, PrepareActivation, site
<1>4. ASSUME NEW i \in Importer, NEW t \in media, ImportBegins(i, t) PROVE KeptInv'
  <2>1. /\ UNCHANGED <<state, inbox>>
        /\ \A j \in Importer : j # i => importer'[j] = importer[j]
        /\ importer'[i].read.used = {}
    BY <1>4, <1>0 DEF ImportBegins, NoImport
  <2>. QED BY <2>1 DEF KeptInv, Held
<1>5. ASSUME NEW i \in Importer, ReadState(i) PROVE KeptInv'
  <2>1. /\ UNCHANGED <<state, inbox>>
        /\ \A j \in Importer : j # i => importer'[j] = importer[j]
        /\ importer'[i].read.used \in {{}, state.used}
    BY <1>5, <1>0 DEF ReadState, NoImport, ImportType
  <2>. QED BY <2>1 DEF KeptInv, Held
<1>6. ASSUME NEW i \in Importer, CopyToInbox(i) PROVE KeptInv'
  <2>1. /\ state' = state /\ inbox \subseteq inbox'
        /\ \A j \in Importer : importer'[j].read = importer[j].read
    BY <1>6, <1>0 DEF CopyToInbox, ImportType
  <2>. QED BY <2>1 DEF KeptInv, Held
<1>7. ASSUME NEW i \in Importer, Commit(i) PROVE KeptInv'
  <2>1. PICK t \in importer[i].transfers :
            state' = [floor |-> t.sequence, used |-> importer[i].read.used \cup {t.id}]
    BY <1>7 DEF Commit
  <2>2. /\ inbox' = inbox /\ t \in inbox
        /\ \A j \in Importer : importer'[j].read = importer[j].read
    BY <1>7, <1>0, <2>1 DEF Commit, ImportType, SiteInv
  <2>. QED BY <2>1, <2>2 DEF KeptInv, Held
<1>8. ASSUME NEW i \in Importer, PlaceOutput(i) \/ ImporterCrash(i) PROVE KeptInv'
  <2>1. /\ UNCHANGED <<state, inbox>>
        /\ \A j \in Importer : j # i => importer'[j] = importer[j]
        /\ importer'[i].read.used = {}
    BY <1>8, <1>0 DEF PlaceOutput, ImporterCrash, NoImport
  <2>. QED BY <2>1 DEF KeptInv, Held
<1>. QED BY <1>1, <1>2, <1>3, <1>4, <1>5, <1>6, <1>7, <1>8 DEF Next, Carrier

\* A site that refuses media as used holds what was on them, whichever importer dies in
\* between and even when two overlap (distribution.py: 640-687).
THEOREM Kept == Spec => []ImportedKept
<1>1. Init => SiteInv /\ KeptInv
  BY DEF Init, SiteInv, KeptInv, NoImport
<1>2. KeptInv => ImportedKept
  BY DEF KeptInv, Held, ImportedKept
<1>. QED BY <1>1, <1>2, TypeInit, TypeStep, SiteStep, KeptStep, PTL DEF Spec

LEMMA OnceStep == TypeOK /\ OnceInv /\ [Next]_vars => OnceInv'
<1>. SUFFICES ASSUME TypeOK, OnceInv, [Next]_vars, ~overlapped' PROVE AloneInv'
  BY DEF OnceInv
<1>0. importer \in [Importer -> ImportType]
  BY DEF TypeOK, ImportType
<1>a. overlapped' = overlapped => AloneInv
  BY DEF OnceInv
<1>1. CASE UNCHANGED <<state, importer, commits, overlapped>>
  BY <1>1, <1>a DEF AloneInv, Behind, Admissible
<1>2. CASE Factory \/ Service \/ Tick \/ UNCHANGED vars
  BY <1>1, <1>2, ServiceLeavesSite DEF vars, site
<1>3. ASSUME (\E signature \in released, id \in MediaId, sequence \in 1..MaxSequence :
                 Export(signature, id, sequence)) \/ \E t \in outputs : PrepareActivation(t)
      PROVE  UNCHANGED <<state, importer, commits, overlapped>>
  BY <1>3 DEF Export, PrepareActivation, site
<1>4. ASSUME NEW i \in Importer, NEW t \in media, ImportBegins(i, t) PROVE AloneInv'
  <2>1. /\ UNCHANGED <<state, commits>> /\ ~overlapped
        /\ \A j \in Importer : importer[j].pc = "idle"
        /\ \A j \in Importer : j # i => importer'[j] = importer[j]
        /\ importer'[i].pc = "verified" /\ importer'[i].transfers = {t}
    BY <1>4, <1>0 DEF ImportBegins, NoImport, TypeOK
  <2>2. AloneInv
    BY <2>1 DEF OnceInv
  <2>. QED BY <2>1, <2>2 DEF AloneInv, Behind, Admissible
<1>5. ASSUME NEW i \in Importer, ReadState(i) PROVE AloneInv'
  <2>1. /\ UNCHANGED <<state, commits, overlapped>> /\ importer[i].pc = "verified"
        /\ \A j \in Importer : j # i => importer'[j] = importer[j]
        /\ \/ importer'[i].pc = "idle"
           \/ importer'[i].pc = "read" /\ importer'[i].read = state
        /\ importer'[i].transfers \subseteq importer[i].transfers
    BY <1>5, <1>0 DEF ReadState, NoImport, ImportType
  <2>2. importer'[i].pc = "read" => \A t \in importer'[i].transfers : Admissible(t, state)
    <3>1. PICK t \in importer[i].transfers :
              importer' = [importer EXCEPT ![i] =
                  IF Admissible(t, state) THEN [@ EXCEPT !.pc = "read", !.read = state]
                                          ELSE NoImport]
      BY <1>5 DEF ReadState
    <3>2. importer[i].transfers = {t}
      BY <1>a, <2>1 DEF AloneInv
    <3>. QED BY <3>1, <3>2, <1>0 DEF ImportType, NoImport
  <2>. QED BY <2>1, <2>2, <1>a DEF AloneInv, Behind
<1>6. ASSUME NEW i \in Importer, CopyToInbox(i) PROVE AloneInv'
  <2>1. /\ UNCHANGED <<state, commits, overlapped>> /\ importer[i].pc = "read"
        /\ \A j \in Importer : j # i => importer'[j] = importer[j]
        /\ importer'[i].pc = "copied" /\ importer'[i].read = importer[i].read
        /\ importer'[i].transfers = importer[i].transfers
    BY <1>6, <1>0 DEF CopyToInbox, ImportType
  <2>. QED BY <2>1, <1>a DEF AloneInv, Behind, Admissible
<1>7. ASSUME NEW i \in Importer, Commit(i) PROVE AloneInv'
  <2>1. PICK t \in importer[i].transfers :
            /\ state' = [floor |-> t.sequence, used |-> importer[i].read.used \cup {t.id}]
            /\ commits' = Append(commits, t)
    BY <1>7 DEF Commit
  <2>2. /\ overlapped' = overlapped /\ importer[i].pc = "copied"
        /\ \A j \in Importer : j # i => importer'[j] = importer[j]
        /\ importer'[i].pc = "committed" /\ importer'[i].transfers = importer[i].transfers
    BY <1>7, <1>0 DEF Commit, ImportType
  <2>3. AloneInv
    BY <2>2, <1>a
  <2>4. /\ importer[i].read = state /\ Admissible(t, state)
        /\ \A j \in Importer : j # i => importer[j].pc = "idle"
    BY <2>1, <2>2, <2>3 DEF AloneInv
  <2>5. /\ t \in Transfer /\ t.sequence \in Int /\ state.floor \in Int
        /\ commits \in Seq(Transfer)
    BY <2>1, <1>0, PathAssumption DEF ImportType, Transfer, TypeOK, ImportState
  <2>6. /\ Len(commits') = Len(commits) + 1 /\ commits'[Len(commits) + 1] = t
        /\ \A k \in 1..Len(commits) : commits'[k] = commits[k]
        /\ Len(commits) \in Nat
    BY <2>1, <2>5
  <2>a. \A k \in 1..Len(commits) : commits[k].sequence \in Int
    <3>1. \A k \in 1..Len(commits) : commits[k] \in Transfer
      BY <2>5
    <3>. QED BY <3>1 DEF Transfer
  <2>7. \A k \in 1..Len(commits) : /\ commits[k].id \in state.used
                                   /\ commits[k].sequence <= state.floor
    BY <2>3 DEF AloneInv, Behind
  <2>8. state.floor < t.sequence /\ t.id \notin state.used
    BY <2>4, <2>5 DEF Admissible
  <2>9. state'.floor = t.sequence /\ state'.used = state.used \cup {t.id}
    BY <2>1, <2>4
  <2>10. \A k \in 1..Len(commits') : Behind(commits[k])'
    <3>. SUFFICES ASSUME NEW k \in 1..Len(commits')
                  PROVE  /\ commits'[k].id \in state'.used
                         /\ commits'[k].sequence <= state'.floor
      BY DEF Behind
    <3>1. CASE k = Len(commits) + 1
      BY <3>1, <2>5, <2>6, <2>9
    <3>2. CASE k \in 1..Len(commits)
      BY <3>2, <2>5, <2>6, <2>7, <2>8, <2>9, <2>a
    <3>. QED BY <3>1, <3>2, <2>6
  <2>11. \A k, l \in 1..Len(commits') : k < l => /\ commits'[k].id # commits'[l].id
                                                 /\ commits'[k].sequence < commits'[l].sequence
    <3>. SUFFICES ASSUME NEW k \in 1..Len(commits'), NEW l \in 1..Len(commits'), k < l
                  PROVE  /\ commits'[k].id # commits'[l].id
                         /\ commits'[k].sequence < commits'[l].sequence
      OBVIOUS
    <3>0. k \in 1..Len(commits)
      BY <2>6
    <3>1. CASE l = Len(commits) + 1
      BY <3>0, <3>1, <2>5, <2>6, <2>7, <2>8, <2>a
    <3>2. CASE l \in 1..Len(commits)
      BY <3>0, <3>2, <2>6, <2>3 DEF AloneInv
    <3>. QED BY <3>1, <3>2, <2>6
  <2>. QED BY <2>2, <2>3, <2>4, <2>10, <2>11 DEF AloneInv
<1>8. ASSUME NEW i \in Importer, PlaceOutput(i) \/ ImporterCrash(i) PROVE AloneInv'
  <2>1. /\ UNCHANGED <<state, commits, overlapped>>
        /\ \A j \in Importer : j # i => importer'[j] = importer[j]
        /\ importer'[i].pc = "idle" /\ importer'[i].transfers = {}
    BY <1>8, <1>0 DEF PlaceOutput, ImporterCrash, NoImport
  <2>. QED BY <2>1, <1>a DEF AloneInv, Behind, Admissible
<1>. QED BY <1>1, <1>2, <1>3, <1>4, <1>5, <1>6, <1>7, <1>8 DEF Next, Carrier

\* One import at a time: no media is admitted twice and sequences only advance, whatever
\* crashes and however the media come back (distribution.py: 640-687).
THEOREM Once == Spec => []MediaOnce
<1>1. Init => OnceInv
  BY DEF Init, OnceInv, AloneInv, NoImport
<1>2. OnceInv => MediaOnce
  BY DEF OnceInv, AloneInv, MediaOnce
<1>. QED BY <1>1, <1>2, TypeInit, TypeStep, OnceStep, PTL DEF Spec
==============================================================================

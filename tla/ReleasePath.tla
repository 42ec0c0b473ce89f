----------------------------- MODULE ReleasePath -----------------------------
(***************************************************************************)
(* The way of a governed corpus release from the factory to a site:        *)
(* package, promotion and attestation (evaluation_attestation.py), signing *)
(* authorization and the signing service with its replay store             *)
(* (release_signing.py), export to media, import at a site                 *)
(* (distribution.py) and the activation package (governed_distribution.py).*)
(*                                                                         *)
(* The signing service serves requests concurrently; a request asks the    *)
(* protected signer outside the replay store and records the result after. *)
(* Media are carried by hand: they arrive in any order, any number of      *)
(* times.  An import is several steps on the site's disk, without a lock.  *)
(*                                                                         *)
(* The service signs with one of several allowlisted release keys, which   *)
(* the caller names; a verifier trusts one of them.  Attestation keys are  *)
(* trusted and unrevoked, signatures verify, and ciphertext opens with the *)
(* recipient's key alone; a crash is a process's: what it wrote is kept.   *)
(***************************************************************************)
EXTENDS Promotion, Sequences

CONSTANTS Candidate,     \* candidate manifests
          CorpusOf,      \* per candidate: the governance evidence it is packaged with
          Evidence,      \* names of the promotion evidence sets
          EvidenceOf,    \* per name: the evidence
                         \* (reports are given by the inputs they are computed from)
          Approvals,     \* names of the sets of approvals an evaluation may come with
          ApprovalsOf,   \* per name: the approvals, the executor and the signer
          Validity,      \* how long an attestation is valid
          MaxAge,        \* how old an authorization may be when it is used
          ReleaseKey,    \* release keys a caller may name
          AllowedKeys,   \* those of the signing policy
          RotationState, \* what the protected signer may say of a key
          Client,        \* requests in flight at the signing service
          Importer,      \* import processes at the site
          MediaId,       \* labels of media
          AddressOf,     \* per label: the scope, classification and recipient it is for
          Here,          \* the site's own event, identity, key and classifications,
                         \* and the release key it trusts
          MaxSequence,   \* bound: transfer sequence numbers
          MaxTime,       \* bound: the clock
          MaxAttestations, MaxAuthorizations, MaxRequests, MaxExports, MaxImports,
          MaxPackages, MaxCrashes     \* bounds: how often each of these happens

ASSUME PathAssumption == /\ Validity \in Nat /\ MaxAge \in Nat
                         /\ MaxTime \in Nat /\ MaxSequence \in Nat

VARIABLES clock,
          built,           \* candidates packaged
          attestations,    \* signed evaluation attestations
          authorizations,  \* signing authorizations
          revoked,         \* attestations revoked
          signerKnows,     \* those in the factory's revocation state
          siteKnows,       \* those in the site's
          store,           \* the replay store: per authorization and key, the record served
          client,          \* per request in flight: where it is, and its answer
          released,        \* signature records the service has answered with
          media,           \* transfers exported
          state,           \* the site's import-state.json
          inbox,           \* transfers copied into the site's inbox
          importer,        \* per process: the import it is in
          outputs,         \* transfers decrypted for activation
          packages,        \* activation packages
          requests, imports, crashes,
          \* history
          commits,         \* transfers whose import was committed, in order
          overlapped       \* two imports were under way at once

factory == <<built, attestations, authorizations, revoked, signerKnows>>
service == <<store, client, released, requests>>
site    == <<state, inbox, importer, outputs, packages, siteKnows, imports, commits,
             overlapped>>
vars == <<clock, factory, service, media, site, crashes>>

------------------------------------------------------------------------------
(* The factory. *)

\* The reports, computed from their inputs.
PackagedWith(corpus) ==
    [event |-> corpus.event, mission |-> corpus.mission, registry |-> corpus.registry,
     lineage |-> corpus.lineage, coverage |-> MissionCoverage(corpus.planned)]
Governance == [c \in Candidate |-> PackagedWith(CorpusOf[c])]
Reported(given) ==
    [binding |-> given.binding,
     release |-> [checks |-> given.release.checks, counts |-> given.release.counts,
                  passed |-> given.release.passed,
                  coverage |-> {MissionCoverage(c) : c \in given.release.planned},
                  package |-> {PackageGovernance(Governance[c]) : c \in given.release.package}],
     suitability |-> {Suitability(a) : a \in given.assessed},
     coverage |-> {MissionCoverage(c) : c \in given.planned},
     retrieval |-> given.retrieval, answer |-> given.answer, edge |-> given.edge]
Submitted == [e \in Evidence |-> Reported(EvidenceOf[e])]

\* What the two gates let through, and which candidate each evidence set is about.
Packageable == {c \in Candidate : GovernanceHolds(Governance[c])}
Promotable == {e \in Evidence : Promoted(Submitted[e])}
Names == {x \in Evidence \X Candidate :
            Binding(EvidenceOf[x[1]]).release_digest = {x[2]}}

\* package_corpus: the manifest binds governance evidence that holds.
BuildCandidate(c) ==
    /\ c \notin built
    /\ c \in Packageable
    /\ built' = built \cup {c}
    /\ UNCHANGED <<clock, attestations, authorizations, revoked, signerKnows, service, media,
                   site, crashes>>

\* _prepare_approvals: an evaluation owner and a release approver approve; they differ
\* from one another in person and group, and from the executor and the signer.
Independent(a) ==
    /\ \A p \in a.approvals : p.decision = "approve"
    /\ {p.role : p \in a.approvals} = {"evaluation_owner", "release_approver"}
    /\ \A p, q \in a.approvals : p # q => p.identity # q.identity /\ p.group # q.group
    /\ \A p \in a.approvals : p.identity \notin {a.executor, a.signer}
    /\ a.executor # a.signer

\* evaluate_promotion, _validate_promotion_report, prepare_attestation_statement, the
\* external signature and finalize_attestation.
Attest(e, a) ==
    /\ Cardinality(attestations) < MaxAttestations
    /\ \E c \in built : <<e, c>> \in Names
    /\ e \in Promotable
    /\ Independent(ApprovalsOf[a])
    /\ attestations' = attestations \cup {[evidence |-> e, approvals |-> a, signed |-> clock]}
    /\ UNCHANGED <<clock, built, authorizations, revoked, signerKnows, service, media, site,
                   crashes>>

\* verify_attestation: within its lifecycle and not in the revocation state given.
AttestationVerifies(att, known) == /\ att.signed <= clock
                                   /\ clock < att.signed + Validity
                                   /\ att \notin known

\* authorize_release_signing: for the exact candidate evaluated.
Authorize(att, c) ==
    /\ Cardinality(authorizations) < MaxAuthorizations
    /\ AttestationVerifies(att, signerKnows)
    /\ <<att.evidence, c>> \in Names
    /\ authorizations' = authorizations \cup
            {[attestation |-> att, candidate |-> c, at |-> clock]}
    /\ UNCHANGED <<clock, built, attestations, revoked, signerKnows, service, media, site,
                   crashes>>

\* Outside src/: an evaluation is withdrawn, and the revocation lists that the factory
\* and the site are configured with are brought up to date, each in its own time.
Revoke(att) ==
    /\ att \notin revoked
    /\ revoked' = revoked \cup {att}
    /\ UNCHANGED <<clock, built, attestations, authorizations, signerKnows, service, media,
                   site, crashes>>

SignerLearns ==
    /\ signerKnows # revoked
    /\ signerKnows' = revoked
    /\ UNCHANGED <<clock, built, attestations, authorizations, revoked, service, media, site,
                   crashes>>

SiteLearns ==
    /\ siteKnows # revoked
    /\ siteKnows' = revoked
    /\ UNCHANGED <<clock, factory, service, media, state, inbox, importer, outputs, packages,
                   imports, commits, overlapped, crashes>>

------------------------------------------------------------------------------
(* The signing service. *)

\* What describe_key may say of a key that signs.
MaySign == {"active", "overlap"}

NoRequest == [pc |-> "idle", statements |-> {}, answer |-> "none"]

\* The statement of a request: the authorization, the key with what the signer said of it,
\* and the instant of signing.
Statement(auth, key, rotation, at) ==
    [auth |-> auth, key |-> key, rotation |-> rotation, at |-> at]

\* The replay store's rows for an authorization and a key: its primary key.
Rows(auth, key) == {row \in store : row.auth = auth /\ row.key = key}

Answer(c, answer) == client' = [client EXCEPT ![c] = [NoRequest EXCEPT !.answer = answer]]

\* sign up to the replay store's lookup, for the candidate the authorization names and
\* with a key of the caller's choice, which the authorization does not name.  A row is
\* the answer only if the whole statement is the same.
SignBegins(c, auth, candidate, key, rotation) ==
    LET statement == Statement(auth, key, rotation, clock) IN
    /\ requests < MaxRequests
    /\ requests' = requests + 1
    /\ client[c].pc = "idle"
    /\ candidate = auth.candidate
    /\ key \in AllowedKeys
    /\ auth.at <= clock /\ clock <= auth.at + MaxAge
    /\ AttestationVerifies(auth.attestation, signerKnows)
    /\ <<auth.attestation.evidence, candidate>> \in Names
    /\ auth.attestation.signed <= auth.at
    /\ rotation \in MaySign
    /\ \/ /\ Rows(auth, key) = {}
          /\ client' = [client EXCEPT ![c] = [pc |-> "signing", statements |-> {statement},
                                              answer |-> "none"]]
          /\ UNCHANGED released
       \/ /\ statement \in Rows(auth, key)                           \* replayed
          /\ released' = released \cup {statement}
          /\ Answer(c, "signed")
       \/ /\ Rows(auth, key) \ {statement} # {}
          /\ Answer(c, "conflict")
          /\ UNCHANGED released
    /\ UNCHANGED <<clock, factory, store, media, site, crashes>>

\* Any of the checks fails: the service answers 409 and keeps nothing.
SignRefused(c, auth, candidate, key, rotation) ==
    /\ requests < MaxRequests
    /\ requests' = requests + 1
    /\ client[c].pc = "idle"
    /\ \/ candidate # auth.candidate
       \/ key \notin AllowedKeys
       \/ clock > auth.at + MaxAge
       \/ ~AttestationVerifies(auth.attestation, signerKnows)
       \/ rotation \notin MaySign
    /\ Answer(c, "refused")
    /\ UNCHANGED <<clock, factory, store, released, media, site, crashes>>

\* The adapter signs the statement and the manifest.
AdapterSigns(c) ==
    /\ client[c].pc = "signing"
    /\ client' = [client EXCEPT ![c].pc = "save"]
    /\ UNCHANGED <<clock, factory, store, released, requests, media, site, crashes>>

\* The protected signer cannot be reached: 500.
AdapterFails(c) ==
    /\ client[c].pc = "signing"
    /\ Answer(c, "unavailable")
    /\ UNCHANGED <<clock, factory, store, released, requests, media, site, crashes>>

\* A mistake to be caught: the row is replaced whatever is there.
SaveReplaces(c) ==
    /\ client[c].pc = "save"
    /\ \E statement \in client[c].statements :
        /\ store' = (store \ Rows(statement.auth, statement.key)) \cup {statement}
        /\ released' = released \cup {statement}
        /\ Answer(c, "signed")
    /\ UNCHANGED <<clock, factory, requests, media, site, crashes>>

\* save: the row is inserted, unless another request was faster; then that one stands,
\* and this one is answered with it only when they are the same request.
Save(c) ==
    /\ client[c].pc = "save"
    /\ \E statement \in client[c].statements :
        LET rows == Rows(statement.auth, statement.key) IN
        \/ /\ rows \subseteq {statement}
           /\ store' = store \cup {statement}
           /\ released' = released \cup {statement}
           /\ Answer(c, "signed")
        \/ /\ ~ rows \subseteq {statement}
           /\ Answer(c, "conflict")
           /\ UNCHANGED <<store, released>>
    /\ UNCHANGED <<clock, factory, requests, media, site, crashes>>

\* The service dies: requests in flight are lost, with what the adapter signed.
ServiceCrash ==
    /\ crashes < MaxCrashes
    /\ \E c \in Client : client[c].pc # "idle"
    /\ client' = [c \in Client |-> NoRequest]
    /\ crashes' = crashes + 1
    /\ UNCHANGED <<clock, factory, store, released, requests, media, site>>

------------------------------------------------------------------------------
(* Media and the site. *)

\* GovernedReleaseVerifier.verify: the signed evaluation evidence is valid at the given
\* time and covers exactly this candidate; the record binds that authorization and is
\* signed with the one release key the verifier trusts.
GovernedVerifies(signature, key, known) ==
    LET auth == signature.auth IN
    /\ AttestationVerifies(auth.attestation, known)
    /\ <<auth.attestation.evidence, auth.candidate>> \in Names
    /\ signature.key = key

\* _validate_envelope: the recipient is the site of the transfer's scope.
EnvelopeHolds(address) == address.recipient = address.site

\* export_encrypted_transfer_set, which builds and signs the transfer's manifest, with a
\* verifier for the key of the record it exports; public transfers take the plaintext
\* carrier.
Export(signature, id, sequence) ==
    /\ Cardinality(media) < MaxExports
    /\ AddressOf[id].classification # "public"
    /\ EnvelopeHolds(AddressOf[id])
    /\ GovernedVerifies(signature, signature.key, signerKnows)
    /\ media' = media \cup {[id |-> id, sequence |-> sequence, signature |-> signature]}
    /\ UNCHANGED <<clock, factory, service, site, crashes>>

NoImport == [pc |-> "idle", transfers |-> {}, read |-> [floor |-> 0, used |-> {}]]

\* verify_transfer_set but for the replay checks, _validate_manifest: the scope and the
\* classification are the site's, and the envelope is bound to that scope.
ManifestHolds(address) ==
    /\ EnvelopeHolds(address)
    /\ address.event = Here.event /\ address.site = Here.site
    /\ address.classification \in Here.classifications

\* decrypt_transfer_set: only the recipient's key opens it.
Opens(address) == address.recipient = Here.site /\ address.key = Here.key

\* import_governed_encrypted_transfer: verify the media with no floor, decrypt to a
\* scratch directory, verify the evidence inside.
ImportBegins(i, t) ==
    /\ imports < MaxImports
    /\ imports' = imports + 1
    /\ importer[i].pc = "idle"
    /\ ManifestHolds(AddressOf[t.id]) /\ Opens(AddressOf[t.id])
    /\ GovernedVerifies(t.signature, Here.release, siteKnows)
    /\ importer' = [importer EXCEPT ![i] = [NoImport EXCEPT !.pc = "verified",
                                                            !.transfers = {t}]]
    /\ overlapped' = (overlapped \/ \E j \in Importer : importer[j].pc # "idle")
    /\ UNCHANGED <<clock, factory, service, media, state, inbox, outputs, packages, siteKnows,
                   commits, crashes>>

AdmissibleAtFloor(t, read) ==       \* a mistake to be caught
    t.sequence >= read.floor /\ t.id \notin read.used
Admissible(t, read) == t.sequence > read.floor /\ t.id \notin read.used

\* import_transfer_set: read the site's state and verify the media against it.
ReadState(i) ==
    /\ importer[i].pc = "verified"
    /\ \E t \in importer[i].transfers :
        importer' = [importer EXCEPT ![i] =
            IF Admissible(t, state) THEN [@ EXCEPT !.pc = "read", !.read = state]
                                    ELSE NoImport]
    /\ UNCHANGED <<clock, factory, service, media, state, inbox, outputs, packages, siteKnows,
                   imports, commits, overlapped, crashes>>

\* A mistake to be caught: the copy is left for after the commit.
CopyDeferred(i) ==
    /\ importer[i].pc = "read"
    /\ importer' = [importer EXCEPT ![i].pc = "copied"]
    /\ UNCHANGED <<clock, factory, service, media, state, inbox, outputs, packages, siteKnows,
                   imports, commits, overlapped, crashes>>

\* Copy the transfer into the inbox by one rename, or verify the copy that is there.
CopyToInbox(i) ==
    /\ importer[i].pc = "read"
    /\ inbox' = inbox \cup importer[i].transfers
    /\ importer' = [importer EXCEPT ![i].pc = "copied"]
    /\ UNCHANGED <<clock, factory, service, media, state, outputs, packages, siteKnows,
                   imports, commits, overlapped, crashes>>

\* Replace the site's state: the floor is this transfer's sequence, the media its own
\* and those read before.
Commit(i) ==
    /\ importer[i].pc = "copied"
    /\ \E t \in importer[i].transfers :
        /\ state' = [floor |-> t.sequence, used |-> importer[i].read.used \cup {t.id}]
        /\ commits' = Append(commits, t)
    /\ importer' = [importer EXCEPT ![i].pc = "committed"]
    /\ UNCHANGED <<clock, factory, service, media, inbox, outputs, packages, siteKnows,
                   imports, overlapped, crashes>>

\* Move the decrypted artifacts to where the activation takes them, unless something has
\* appeared at that path since: then the import ends committed, without an output.
PlaceOutput(i) ==
    /\ importer[i].pc = "committed"
    /\ outputs' \in {outputs, outputs \cup importer[i].transfers}
    /\ importer' = [importer EXCEPT ![i] = NoImport]
    /\ UNCHANGED <<clock, factory, service, media, state, inbox, packages, siteKnows, imports,
                   commits, overlapped, crashes>>

\* An importer dies: its scratch directory is useless.
ImporterCrash(i) ==
    /\ crashes < MaxCrashes
    /\ importer[i].pc # "idle"
    /\ importer' = [importer EXCEPT ![i] = NoImport]
    /\ crashes' = crashes + 1
    /\ UNCHANGED <<clock, factory, service, media, state, inbox, outputs, packages, siteKnows,
                   imports, commits, overlapped>>

\* prepare_activation_package: the evidence is verified once more, at its time.
PrepareActivation(t) ==
    /\ Cardinality(packages) < MaxPackages
    /\ t \in outputs
    /\ GovernedVerifies(t.signature, Here.release, siteKnows)
    /\ packages' = packages \cup {[transfer |-> t, at |-> clock, knew |-> siteKnows]}
    /\ UNCHANGED <<clock, factory, service, media, state, inbox, importer, outputs, siteKnows,
                   imports, commits, overlapped, crashes>>

Tick == /\ clock < MaxTime
        /\ clock' = clock + 1
        /\ UNCHANGED <<factory, service, media, site, crashes>>

------------------------------------------------------------------------------
Init == /\ clock = 0
        /\ built = {} /\ attestations = {} /\ authorizations = {}
        /\ revoked = {} /\ signerKnows = {} /\ siteKnows = {}
        /\ store = {} /\ released = {}
        /\ client = [c \in Client |-> NoRequest]
        /\ media = {} /\ inbox = {} /\ outputs = {} /\ packages = {}
        /\ state = [floor |-> 0, used |-> {}]
        /\ importer = [i \in Importer |-> NoImport]
        /\ requests = 0 /\ imports = 0 /\ crashes = 0
        /\ commits = <<>> /\ overlapped = FALSE

Factory == \/ \E c \in Candidate : BuildCandidate(c)
           \/ \E e \in Evidence, a \in Approvals : Attest(e, a)
           \/ \E att \in attestations, c \in built : Authorize(att, c)
           \/ \E att \in attestations : Revoke(att)
           \/ SignerLearns
           \/ SiteLearns

Service == \/ \E c \in Client, auth \in authorizations, candidate \in built,
                key \in ReleaseKey, rotation \in RotationState :
                 \/ SignBegins(c, auth, candidate, key, rotation)
                 \/ SignRefused(c, auth, candidate, key, rotation)
           \/ \E c \in Client : AdapterSigns(c) \/ AdapterFails(c) \/ Save(c)
           \/ ServiceCrash

Carrier == \/ \E signature \in released, id \in MediaId, sequence \in 1..MaxSequence :
                 Export(signature, id, sequence)
           \/ \E i \in Importer, t \in media : ImportBegins(i, t)
           \/ \E i \in Importer : \/ ReadState(i)
                                  \/ CopyToInbox(i)
                                  \/ Commit(i)
                                  \/ PlaceOutput(i)
                                  \/ ImporterCrash(i)
           \/ \E t \in outputs : PrepareActivation(t)

Next == Factory \/ Service \/ Carrier \/ Tick

Spec == Init /\ [][Next]_vars

------------------------------------------------------------------------------
Attestation == [evidence : Evidence, approvals : Approvals, signed : 0..MaxTime]
Authorization == [attestation : Attestation, candidate : Candidate, at : 0..MaxTime]
SignedRelease == [auth : Authorization, key : ReleaseKey, rotation : RotationState,
                  at : 0..MaxTime]
Transfer == [id : MediaId, sequence : 1..MaxSequence, signature : SignedRelease]
ImportState == [floor : 0..MaxSequence, used : SUBSET MediaId]

\* Every variable has its type.
TypeOK ==
    /\ clock \in 0..MaxTime
    /\ built \subseteq Candidate /\ attestations \subseteq Attestation
    /\ authorizations \subseteq Authorization
    /\ revoked \subseteq Attestation /\ signerKnows \subseteq Attestation
    /\ siteKnows \subseteq Attestation
    /\ store \subseteq SignedRelease /\ released \subseteq SignedRelease
    /\ client \in [Client -> [pc : {"idle", "signing", "save"},
                              statements : SUBSET SignedRelease,
                              answer : {"none", "signed", "conflict", "refused", "unavailable"}]]
    /\ media \subseteq Transfer /\ inbox \subseteq Transfer /\ outputs \subseteq Transfer
    /\ state \in ImportState
    /\ importer \in [Importer -> [pc : {"idle", "verified", "read", "copied", "committed"},
                                  transfers : SUBSET Transfer, read : ImportState]]
    /\ packages \subseteq [transfer : Transfer, at : 0..MaxTime, knew : SUBSET Attestation]
    /\ requests \in Nat /\ imports \in Nat /\ crashes \in Nat
    /\ commits \in Seq(Transfer) /\ overlapped \in BOOLEAN

------------------------------------------------------------------------------
(* What the path promises. *)

\* An authorization yields one signature record with each release key, whoever asks,
\* however often, and whenever the service dies: two requests at once, or one repeated
\* after its answer was lost, never release two (release_signing.py: 107-144, 255-286).
\* The policy may allow several keys, so that an authorization can have one record of
\* each; a verifier trusts one of them and so meets one record of an authorization.
OneSignatureReleased ==
    \A s, t \in released : s.auth = t.auth /\ s.key = t.key => s = t

\* A reviewer's reading of a corpus: every intent of the mission is answered from a
\* verified classification whose sources may be used, and related documents agree.
Answered(c) ==
    \A r \in c.mission.requirements :
        /\ \A intent \in r.intents : \E item \in c.classifications :
              /\ r.category \in item.categories /\ intent \in item.intents /\ item.verified
              /\ item.window.from <= c.at /\ c.at < item.window.until
              /\ \A s \in item.sources :
                    \E source \in c.registry.sources :
                        /\ source.id = s /\ source.enabled /\ source.approved
                        /\ c.mission.places \subseteq source.places
        /\ \A d, x \in c.documents : \A f \in d.facts, g \in x.facts :
              f.fact = g.fact /\ {d.id, x.id} \subseteq {item.document : item \in Related(c, r)}
                => f.value = g.value

\* And of an inventory: every required fact is in an approved document that cites sources
\* verified recently enough and of an allowed kind.
Documented(a) ==
    \A r \in a.policy.requirements : \A fact \in r.facts : \E d \in a.documents :
        /\ d.approved /\ ~d.contested /\ fact \in {f.fact : f \in d.facts}
        /\ \A cite \in d.citations : \E source \in a.sources :
              /\ source.id = cite.source /\ source.digest = cite.digest
              /\ source.authority \in r.allowed
              /\ 0 <= a.at - source.verified /\ a.at - source.verified <= r.maximumAge

\* The evidence behind an attestation is what a reviewer of a release would look for.
IsSound(given, candidate) ==
    /\ \A source \in EvidenceSource : given.binding[source].release_digest = {candidate}
    /\ \A layer \in {given.retrieval, given.answer} :
          /\ layer.violations = 0
          /\ layer.classes["critical"].failed = {} /\ layer.classes["critical"].cases >= 50
    /\ Answered(CorpusOf[candidate].planned)
    /\ \E a \in given.assessed : Documented(a)
Sound == {x \in Evidence \X Candidate : IsSound(EvidenceOf[x[1]], x[2])}

\* Whatever a site prepares for activation is a transfer addressed to it.  It was
\* evaluated as this very candidate without a failed critical case, approved by two
\* people of two groups, neither of whom ran the evaluation, signed by the service
\* within the authorization's age, with a key that the policy allows and the site trusts
\* and that was active or overlapping, and committed to the inbox; its attestation was
\* valid and not known to be revoked there (docs/governed-disconnected-activation.md: 5-9).
ActivatedIsApproved ==
    \A p \in packages :
        LET signature == p.transfer.signature
            auth == signature.auth
            att == auth.attestation
            a == ApprovalsOf[att.approvals] IN
        /\ <<att.evidence, auth.candidate>> \in Sound
        /\ AddressOf[p.transfer.id].site = Here.site /\ AddressOf[p.transfer.id].key = Here.key
        /\ \E owner, approver \in a.approvals :
              /\ owner.role = "evaluation_owner" /\ approver.role = "release_approver"
              /\ owner.identity # approver.identity /\ owner.group # approver.group
              /\ a.executor \notin {owner.identity, approver.identity}
        /\ signature \in released
        /\ signature.key = Here.release /\ signature.key \in AllowedKeys
        /\ signature.rotation \in MaySign
        /\ att.signed <= auth.at /\ auth.at <= signature.at /\ signature.at <= auth.at + MaxAge
        /\ p.at < att.signed + Validity /\ att \notin p.knew
        /\ p.transfer \in inbox

\* One import at a time, whatever crashes: no media is admitted twice and sequences only
\* advance, however the media come back (distribution.py: 640-687).  Two imports at
\* once both read the state before either replaces it.
MediaOnce ==
    ~overlapped =>
        \A i, j \in 1..Len(commits) : i < j => /\ commits[i].id # commits[j].id
                                               /\ commits[i].sequence < commits[j].sequence

\* A site that refuses media as used holds what was on them: the copy comes before the
\* commit, whichever importer dies in between and even when two overlap.
ImportedKept ==
    /\ \A id \in state.used : \E t \in inbox : t.id = id
    /\ state.floor > 0 => \E t \in inbox : t.sequence = state.floor

\* docs/release-signing-service.md:9: the replay store makes an identical request
\* idempotent.  A caller who repeats a request names the same authorization and key; all
\* that differs is the clock of the service.
RetryAnswered ==
    \A c \in Client : client[c].answer # "conflict"
==============================================================================

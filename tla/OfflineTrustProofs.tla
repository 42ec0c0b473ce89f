-------------------------- MODULE OfflineTrustProofs --------------------------
(***************************************************************************)
(* The inductive invariant of OfflineTrust and the safety theorems that    *)
(* follow from it, for any evidence, clocks and faults.                    *)
(***************************************************************************)
EXTENDS OfflineTrust, TLAPS

-----------------------------------------------------------------------------
(* The inductive invariant *)

\* What was signed was signed by now, and snapshots in the order of their
\* generations.
SignedInOrder ==
  /\ \A i \in 1..Len(anchors) : anchors[i].at <= now
  /\ \A i \in 1..Len(snapshots) : snapshots[i].issued <= now
  /\ \A i, j \in 1..Len(snapshots) :
       i <= j => snapshots[i].issued <= snapshots[j].issued

\* What is mounted has been signed.
MountedSigned ==
  mounted.anchor \in 0..Len(anchors) /\ mounted.snapshot \in 0..Len(snapshots)

\* The installed anchor was signed before it was accepted, and in the boot that
\* accepted it the monotonic clock measures true time since then.
AnchorDated ==
  /\ anchor.at <= acceptedAt /\ acceptedAt <= now
  /\ anchor.seq # 0 =>
       /\ anchor.boot <= boot
       /\ anchor.boot = boot => mono - anchor.tick = now - acceptedAt

\* The installed snapshot is the signed one of its generation.
SnapshotGenuine ==
  snapshot.gen # 0 =>
    /\ snapshot.gen \in 1..Len(snapshots)
    /\ snapshot.issued = snapshots[snapshot.gen].issued
    /\ snapshot.entries = snapshots[snapshot.gen].entries

\* An answer names the snapshot that allowed it, and that one was fresh and
\* did not stop its sources.
AnswerJustified ==
  answer # None /\ ~answer.refused =>
    /\ answer.gen \in 1..Len(snapshots)
    /\ answer.time - snapshots[answer.gen].issued <= MaxAge
    /\ \A entry \in snapshots[answer.gen].entries :
         entry.subject \in answer.sources /\ entry.from <= answer.time
           => ~Stops(entry)

IInv ==
  /\ TypeOK
  /\ SignedInOrder
  /\ MountedSigned
  /\ EvidenceUnbroken
  /\ AnchorDated
  /\ SnapshotGenuine
  /\ AnswerJustified

-----------------------------------------------------------------------------
(* Facts about signed evidence *)

\* An element of a sequence is of the sequence's kind.
LEMMA Element ==
  ASSUME NEW S, NEW seq \in Seq(S), NEW k \in 1..Len(seq)
  PROVE  seq[k] \in S
OBVIOUS

\* The fields of a signed anchor, and of a signed snapshot.
LEMMA AnchorRecord ==
  ASSUME TypeOK, NEW k \in 1..Len(anchors)
  PROVE  anchors[k].at \in Nat /\ anchors[k].horizon \in Nat
<1>1. anchors \in Seq([at : Nat, horizon : Horizons])
  BY DEF TypeOK
<1>2. anchors[k] \in [at : Nat, horizon : Horizons]
  BY <1>1, Element
<1>3. anchors[k].at \in Nat /\ anchors[k].horizon \in Horizons
  BY <1>2
<1> QED BY <1>3, EvidenceAssumption

LEMMA SnapshotRecord ==
  ASSUME TypeOK, NEW k \in 1..Len(snapshots)
  PROVE  /\ snapshots[k].issued \in Nat /\ snapshots[k].next \in Nat
         /\ snapshots[k].entries \in EntryLists
         /\ snapshots[k].entries \subseteq Entry
<1>1. snapshots \in Seq([issued : Nat, next : Nat, entries : EntryLists])
  BY DEF TypeOK
<1>2. snapshots[k] \in [issued : Nat, next : Nat, entries : EntryLists]
  BY <1>1, Element
<1>3. /\ snapshots[k].issued \in Nat /\ snapshots[k].next \in Nat
      /\ snapshots[k].entries \in EntryLists
  BY <1>2
<1> QED BY <1>3, EvidenceAssumption

\* What Anchored and TrustedTime read of the state.
LEMMA AnchoredFacts ==
  ASSUME TypeOK, AnchorDated, Anchored
  PROVE  /\ TrustedTime \in Nat
         /\ TrustedTime = anchor.at + (now - acceptedAt)
         /\ TrustedTime <= now
         /\ now - acceptedAt <= anchor.horizon
<1>1. /\ now \in Nat /\ mono \in Nat /\ acceptedAt \in Nat
      /\ anchor.at \in Nat /\ anchor.tick \in Nat /\ anchor.horizon \in Nat
  BY DEF TypeOK
<1>2. mono - anchor.tick = now - acceptedAt /\ mono >= anchor.tick
      /\ mono - anchor.tick <= anchor.horizon
  BY DEF Anchored, AnchorDated
<1> QED BY <1>1, <1>2 DEF TrustedTime, AnchorDated

-----------------------------------------------------------------------------
(* The steps that change a component of the state *)

\* Installing the next anchor, dated now, extends the chain.
LEMMA InstallAnchorKeeps ==
  ASSUME IInv, NEW k, k = mounted.anchor, k # 0, AnchorAcceptable(k),
         InstallAnchor(k), UNCHANGED <<clocks, authorities, snapshot>>
  PROVE  /\ anchor' \in [seq : Nat, at : Nat, horizon : Nat, tick : Nat, boot : Nat]
         /\ accepted' \in [anchors : SUBSET Nat, snapshots : SUBSET Nat]
         /\ acceptedAt' \in Nat
         /\ EvidenceUnbroken'
         /\ AnchorDated'
<1>1. k \in 1..Len(anchors)
  BY DEF IInv, TypeOK, MountedSigned
<1>2. anchors[k].at \in Nat /\ anchors[k].horizon \in Nat /\ anchors[k].at <= now
  BY <1>1, AnchorRecord DEF IInv, SignedInOrder
<1>3. /\ now \in Nat /\ mono \in Nat /\ boot \in Nat /\ k \in Nat
      /\ accepted \in [anchors : SUBSET Nat, snapshots : SUBSET Nat]
  BY <1>1 DEF IInv, TypeOK
<1>4. anchor' = [seq |-> k, at |-> anchors[k].at, horizon |-> anchors[k].horizon,
                 tick |-> mono, boot |-> boot]
      /\ accepted' = [accepted EXCEPT !.anchors = @ \cup {k}] /\ acceptedAt' = now
      /\ now' = now /\ mono' = mono /\ boot' = boot /\ snapshot' = snapshot
  BY DEF InstallAnchor, clocks
<1>5. EvidenceUnbroken'
  <2>1. k = anchor.seq + 1 /\ anchor.seq \in Nat
    BY <1>3 DEF AnchorAcceptable, IInv, TypeOK
  <2>2. (1..anchor.seq) \cup {k} = 1..k
    BY <2>1
  <2> QED BY <1>3, <1>4, <2>2 DEF EvidenceUnbroken, IInv
<1>6. AnchorDated'
  BY <1>2, <1>3, <1>4 DEF AnchorDated
<1> QED BY <1>2, <1>3, <1>4, <1>5, <1>6

\* So does installing the next snapshot.
LEMMA InstallSnapshotKeeps ==
  ASSUME IInv, NEW k, k = mounted.snapshot, SnapshotAcceptable(k),
         InstallSnapshot(k), UNCHANGED <<clocks, authorities, anchor>>
  PROVE  /\ snapshot' \in [gen : Nat, issued : Nat, next : Nat, entries : SUBSET Entry]
         /\ accepted' \in [anchors : SUBSET Nat, snapshots : SUBSET Nat]
         /\ EvidenceUnbroken'
         /\ SnapshotGenuine'
<1>1. k \in 1..Len(snapshots) /\ k = snapshot.gen + 1 /\ snapshot.gen \in Nat
  <2>1. /\ snapshot.gen \in Nat
        /\ snapshots \in Seq([issued : Nat, next : Nat, entries : EntryLists])
    BY DEF IInv, TypeOK
  <2>2. k \in 0..Len(snapshots)
    BY DEF IInv, MountedSigned
  <2>3. k > snapshot.gen /\ k - 1 = snapshot.gen
    BY DEF SnapshotAcceptable
  <2> QED BY <2>1, <2>2, <2>3
<1>2. /\ snapshots[k].issued \in Nat /\ snapshots[k].next \in Nat
      /\ snapshots[k].entries \subseteq Entry
  BY <1>1, SnapshotRecord DEF IInv
<1>3. accepted \in [anchors : SUBSET Nat, snapshots : SUBSET Nat] /\ k \in Nat
  BY <1>1 DEF IInv, TypeOK
<1>4. snapshot' = [gen |-> k, issued |-> snapshots[k].issued,
                   next |-> snapshots[k].next, entries |-> snapshots[k].entries]
      /\ accepted' = [accepted EXCEPT !.snapshots = @ \cup {k}]
      /\ anchor' = anchor /\ snapshots' = snapshots
  BY DEF InstallSnapshot, authorities
<1>5. (1..snapshot.gen) \cup {k} = 1..k
  BY <1>1
<1>6. EvidenceUnbroken'
  BY <1>3, <1>4, <1>5 DEF EvidenceUnbroken, IInv
<1>7. SnapshotGenuine'
  BY <1>1, <1>4 DEF SnapshotGenuine
<1> QED BY <1>2, <1>3, <1>4, <1>6, <1>7

\* An eligible answer is justified by the snapshot it was checked against.
LEMMA EligibleJustifies ==
  ASSUME IInv, NEW sources \in SUBSET Source, Eligible(sources),
         answer' = [refused |-> FALSE, sources |-> sources,
                    gen |-> snapshot.gen, time |-> TrustedTime],
         UNCHANGED snapshots
  PROVE  (answer' = None \/ answer' \in Answer) /\ AnswerJustified'
<1>1. TrustedTime \in Nat
  BY AnchoredFacts DEF IInv, Eligible
<1>2. snapshot.gen \in 1..Len(snapshots)
      /\ snapshot.issued = snapshots[snapshot.gen].issued
      /\ snapshot.entries = snapshots[snapshot.gen].entries
  BY DEF IInv, SnapshotGenuine, Eligible, Fresh
<1>3. answer' \in Answer
  BY <1>1, <1>2 DEF Answer
<1>4. AnswerJustified'
  BY <1>2 DEF AnswerJustified, Eligible, Fresh, Stops
<1> QED BY <1>3, <1>4

\* Refusing, or forgetting, an answer needs no justification.
LEMMA RefusalKeeps ==
  ASSUME answer' \in {None, Refusal}
  PROVE  (answer' = None \/ answer' \in Answer) /\ AnswerJustified'
<1>1. CASE answer' = None
  BY <1>1 DEF AnswerJustified
<1>2. CASE answer' = Refusal
  <2>1. Refusal \in Answer
    BY DEF Refusal, Answer
  <2>2. Refusal.refused
    BY DEF Refusal
  <2> QED BY <1>2, <2>1, <2>2 DEF AnswerJustified
<1> QED BY <1>1, <1>2

\* The history variable keeps its type in every step that keeps the clock's
\* and the anchor's.
LEMMA ObserveKeeps ==
  ASSUME TypeOK, Observe, mono' \in Nat,
         anchor' \in [seq : Nat, at : Nat, horizon : Nat, tick : Nat, boot : Nat]
  PROVE  highest' \in Nat
<1>1. highest \in Nat
  BY DEF TypeOK
<1>2. TrustedTime' \in Int
  BY DEF TrustedTime
<1> QED BY <1>1, <1>2 DEF Observe

\* A search, or the end of the container, changes neither the clocks nor any
\* evidence.
LEMMA AnswerStepKeeps ==
  ASSUME IInv, Observe,
         service' \in {"down", "starting", "up", "searching"},
         faults' \in Nat,
         (answer' = None \/ answer' \in Answer) /\ AnswerJustified',
         UNCHANGED <<clocks, authorities, store, evidence>>
  PROVE  IInv'
<1>1. TypeOK'
  <2>1. highest' \in Nat
    BY ObserveKeeps DEF IInv, TypeOK, clocks, store
  <2> QED BY <2>1 DEF IInv, TypeOK, clocks, authorities, store, evidence
<1>2. SignedInOrder' /\ MountedSigned'
  BY DEF IInv, SignedInOrder, MountedSigned, clocks, authorities
<1>3. EvidenceUnbroken' /\ AnchorDated' /\ SnapshotGenuine'
  BY DEF IInv, EvidenceUnbroken, AnchorDated, SnapshotGenuine,
         clocks, authorities, store, evidence
<1> QED BY <1>1, <1>2, <1>3 DEF IInv

-----------------------------------------------------------------------------
(* Every step keeps the invariant *)

LEMMA IssueAnchorKeeps == ASSUME IInv, Observe, IssueAnchor PROVE IInv'
<1> USE DEF IInv
<1>1. PICK h \in Horizons : anchors' = Append(anchors, [at |-> now, horizon |-> h])
  BY DEF IssueAnchor
<1>2. anchors \in Seq([at : Nat, horizon : Horizons]) /\ now \in Nat
  BY DEF TypeOK
<1>3. [at |-> now, horizon |-> h] \in [at : Nat, horizon : Horizons]
  BY <1>2
<1>4. /\ anchors' \in Seq([at : Nat, horizon : Horizons])
      /\ Len(anchors') = Len(anchors) + 1
      /\ \A i \in 1..Len(anchors) : anchors'[i] = anchors[i]
      /\ anchors'[Len(anchors) + 1].at = now
  BY <1>1, <1>2, <1>3
<1>5. /\ UNCHANGED <<now, mono, boot, snapshots, mounted, anchor, snapshot>>
      /\ UNCHANGED <<service, answer, faults, accepted, acceptedAt>>
  BY DEF IssueAnchor, clocks, store, evidence
<1>6. TypeOK'
  <2>1. highest' \in Nat
    BY <1>5, ObserveKeeps DEF TypeOK
  <2> QED BY <2>1, <1>4, <1>5 DEF TypeOK
<1>7. SignedInOrder'
  <2>1. \A i \in 1..Len(anchors') : anchors'[i].at <= now
    <3> TAKE i \in 1..Len(anchors')
    <3>1. CASE i \in 1..Len(anchors)
      BY <3>1, <1>4 DEF SignedInOrder
    <3>2. CASE i = Len(anchors) + 1
      BY <3>2, <1>2, <1>4
    <3> QED BY <3>1, <3>2, <1>2, <1>4
  <2> QED BY <2>1, <1>5 DEF SignedInOrder
<1>8. MountedSigned'
  BY <1>2, <1>4, <1>5 DEF MountedSigned, TypeOK
<1>9. EvidenceUnbroken' /\ AnchorDated' /\ SnapshotGenuine' /\ AnswerJustified'
  BY <1>5 DEF EvidenceUnbroken, AnchorDated, SnapshotGenuine, AnswerJustified
<1> QED BY <1>6, <1>7, <1>8, <1>9

LEMMA IssueSnapshotKeeps == ASSUME IInv, Observe, IssueSnapshot PROVE IInv'
<1> USE DEF IInv
<1>1. PICK life \in Lifetimes, entries \in EntryLists :
        snapshots' = Append(snapshots,
                       [issued |-> now, next |-> now + life, entries |-> entries])
  BY DEF IssueSnapshot
<1>2. /\ snapshots \in Seq([issued : Nat, next : Nat, entries : EntryLists])
      /\ now \in Nat
  BY DEF TypeOK
<1>3. [issued |-> now, next |-> now + life, entries |-> entries]
        \in [issued : Nat, next : Nat, entries : EntryLists]
  BY <1>2, EvidenceAssumption
<1>4. /\ snapshots' \in Seq([issued : Nat, next : Nat, entries : EntryLists])
      /\ Len(snapshots') = Len(snapshots) + 1
      /\ \A i \in 1..Len(snapshots) : snapshots'[i] = snapshots[i]
      /\ snapshots'[Len(snapshots) + 1].issued = now
  BY <1>1, <1>2, <1>3
<1>5. /\ UNCHANGED <<now, mono, boot, anchors, mounted, anchor, snapshot>>
      /\ UNCHANGED <<service, answer, faults, accepted, acceptedAt>>
  BY DEF IssueSnapshot, clocks, store, evidence
<1>6. TypeOK'
  <2>1. highest' \in Nat
    BY <1>5, ObserveKeeps DEF TypeOK
  <2> QED BY <2>1, <1>4, <1>5 DEF TypeOK
<1>7. SignedInOrder'
  <2>1. Len(snapshots) \in Nat
    BY <1>2
  <2>2. \A i \in 1..Len(snapshots') :
          i \in 1..Len(snapshots) \/ i = Len(snapshots) + 1
    BY <2>1, <1>4
  <2>3. \A i \in 1..Len(snapshots') : snapshots'[i].issued <= now
    <3> TAKE i \in 1..Len(snapshots')
    <3>1. CASE i \in 1..Len(snapshots)
      BY <3>1, <1>4 DEF SignedInOrder
    <3>2. CASE i = Len(snapshots) + 1
      BY <3>2, <1>2, <1>4
    <3> QED BY <3>1, <3>2, <2>2
  <2>4. \A i, j \in 1..Len(snapshots') :
          i <= j => snapshots'[i].issued <= snapshots'[j].issued
    <3> TAKE i, j \in 1..Len(snapshots')
    <3> HAVE i <= j
    <3>1. CASE j = Len(snapshots) + 1
      BY <3>1, <2>3, <1>4
    <3>2. CASE j \in 1..Len(snapshots)
      <4>1. i \in 1..Len(snapshots)
        BY <3>2
      <4> QED BY <4>1, <3>2, <1>4 DEF SignedInOrder
    <3> QED BY <3>1, <3>2, <2>2
  <2> QED BY <2>3, <2>4, <1>5 DEF SignedInOrder
<1>8. MountedSigned'
  BY <1>2, <1>4, <1>5 DEF MountedSigned, TypeOK
<1>9. EvidenceUnbroken' /\ AnchorDated'
  BY <1>5 DEF EvidenceUnbroken, AnchorDated
<1>10. 1..Len(snapshots) \subseteq 1..Len(snapshots')
  BY <1>2, <1>4
<1>11. SnapshotGenuine' /\ AnswerJustified'
  BY <1>4, <1>5, <1>10 DEF SnapshotGenuine, AnswerJustified
<1> QED BY <1>6, <1>7, <1>8, <1>9, <1>11

LEMMA DeliverKeeps == ASSUME IInv, Observe, Deliver PROVE IInv'
<1> USE DEF IInv
<1>1. /\ UNCHANGED <<now, mono, boot, anchors, snapshots, anchor, snapshot>>
      /\ UNCHANGED <<service, answer, faults, accepted, acceptedAt>>
  BY DEF Deliver, clocks, store, evidence
<1>2. mounted' \in [anchor : 1..Len(anchors), snapshot : 1..Len(snapshots)]
  BY DEF Deliver
<1>3. Len(anchors) \in Nat /\ Len(snapshots) \in Nat
  BY DEF TypeOK
<1>4. mounted' \in [anchor : Nat, snapshot : Nat] /\ MountedSigned'
  BY <1>1, <1>2, <1>3 DEF MountedSigned
<1>5. TypeOK'
  <2>1. highest' \in Nat
    BY <1>1, ObserveKeeps DEF TypeOK
  <2> QED BY <2>1, <1>1, <1>4 DEF TypeOK
<1>6. SignedInOrder' /\ EvidenceUnbroken' /\ AnchorDated'
  BY <1>1 DEF SignedInOrder, EvidenceUnbroken, AnchorDated
<1>7. SnapshotGenuine' /\ AnswerJustified'
  BY <1>1 DEF SnapshotGenuine, AnswerJustified
<1> QED BY <1>4, <1>5, <1>6, <1>7

LEMMA StartAnchorKeeps == ASSUME IInv, Observe, StartAnchor PROVE IInv'
<1> USE DEF IInv
<1>1. UNCHANGED <<now, mono, boot, anchors, snapshots, mounted, snapshot, answer>>
  BY DEF StartAnchor, clocks, authorities
<1>2. /\ service' \in {"down", "starting"}
      /\ faults' \in Nat
  BY DEF StartAnchor, Written, WriteFails, TypeOK
<1>3. /\ anchor' \in [seq : Nat, at : Nat, horizon : Nat, tick : Nat, boot : Nat]
      /\ accepted' \in [anchors : SUBSET Nat, snapshots : SUBSET Nat]
      /\ acceptedAt' \in Nat
      /\ EvidenceUnbroken'
      /\ AnchorDated'
  <2>1. CASE UNCHANGED <<anchor, evidence>>
    BY <1>1, <2>1 DEF TypeOK, EvidenceUnbroken, AnchorDated, evidence
  <2>2. CASE AnchorAcceptable(mounted.anchor) /\ InstallAnchor(mounted.anchor)
    BY <2>2, InstallAnchorKeeps DEF StartAnchor
  <2> QED BY <2>1, <2>2 DEF StartAnchor
<1>4. TypeOK'
  <2>1. highest' \in Nat
    BY <1>1, <1>3, ObserveKeeps DEF TypeOK
  <2> QED BY <2>1, <1>1, <1>2, <1>3 DEF TypeOK
<1>5. SignedInOrder' /\ MountedSigned' /\ SnapshotGenuine' /\ AnswerJustified'
  BY <1>1 DEF SignedInOrder, MountedSigned, SnapshotGenuine, AnswerJustified
<1> QED BY <1>3, <1>4, <1>5

LEMMA StartSnapshotKeeps == ASSUME IInv, Observe, StartSnapshot PROVE IInv'
<1> USE DEF IInv
<1>1. /\ UNCHANGED <<now, mono, boot, anchors, snapshots, mounted, anchor, answer>>
      /\ acceptedAt' = acceptedAt
  BY DEF StartSnapshot, clocks, authorities
<1>2. /\ service' \in {"down", "up"}
      /\ faults' \in Nat
  BY DEF StartSnapshot, Written, WriteFails, TypeOK
<1>3. /\ snapshot' \in [gen : Nat, issued : Nat, next : Nat, entries : SUBSET Entry]
      /\ accepted' \in [anchors : SUBSET Nat, snapshots : SUBSET Nat]
      /\ EvidenceUnbroken'
      /\ SnapshotGenuine'
  <2>1. CASE UNCHANGED <<snapshot, accepted>>
    BY <1>1, <2>1 DEF TypeOK, EvidenceUnbroken, SnapshotGenuine
  <2>2. CASE SnapshotAcceptable(mounted.snapshot) /\ InstallSnapshot(mounted.snapshot)
    BY <2>2, InstallSnapshotKeeps DEF StartSnapshot
  <2> QED BY <2>1, <2>2 DEF StartSnapshot
<1>4. TypeOK'
  <2>1. highest' \in Nat
    BY <1>1, ObserveKeeps DEF TypeOK
  <2> QED BY <2>1, <1>1, <1>2, <1>3 DEF TypeOK
<1>5. SignedInOrder' /\ MountedSigned' /\ AnchorDated' /\ AnswerJustified'
  BY <1>1 DEF SignedInOrder, MountedSigned, AnchorDated, AnswerJustified
<1> QED BY <1>3, <1>4, <1>5

LEMMA BeginSearchKeeps == ASSUME IInv, Observe, BeginSearch PROVE IInv'
<1>1. answer' \in {None, Refusal} /\ service' \in {"up", "searching"}
  BY DEF BeginSearch
<1>2. faults' \in Nat /\ UNCHANGED <<clocks, authorities, store, evidence>>
  BY DEF BeginSearch, IInv, TypeOK
<1> QED BY <1>1, <1>2, RefusalKeeps, AnswerStepKeeps

LEMMA FinishSearchKeeps == ASSUME IInv, Observe, FinishSearch PROVE IInv'
<1>1. (answer' = None \/ answer' \in Answer) /\ AnswerJustified'
  <2>1. CASE answer' = Refusal
    BY <2>1, RefusalKeeps
  <2>2. CASE \E sources \in SUBSET Source :
               /\ Eligible(sources)
               /\ answer' = [refused |-> FALSE, sources |-> sources,
                             gen |-> snapshot.gen, time |-> TrustedTime]
    BY <2>2, EligibleJustifies DEF FinishSearch, authorities
  <2> QED BY <2>1, <2>2 DEF FinishSearch
<1>2. /\ service' = "up" /\ faults' \in Nat
      /\ UNCHANGED <<clocks, authorities, store, evidence>>
  BY DEF FinishSearch, IInv, TypeOK
<1> QED BY <1>1, <1>2, AnswerStepKeeps

LEMMA ServiceStopsKeeps == ASSUME IInv, Observe, ServiceStops PROVE IInv'
<1>1. answer' = None /\ service' = "down" /\ faults' \in Nat
      /\ UNCHANGED <<clocks, authorities, store, evidence>>
  BY DEF ServiceStops, IInv, TypeOK
<1> QED BY <1>1, RefusalKeeps, AnswerStepKeeps

LEMMA RebootKeeps == ASSUME IInv, Observe, Reboot PROVE IInv'
<1> USE DEF IInv
<1>1. /\ boot' = boot + 1 /\ mono' = 0 /\ service' = "down" /\ answer' = None
      /\ UNCHANGED <<now, anchors, snapshots, mounted, anchor, snapshot>>
      /\ UNCHANGED <<faults, accepted, acceptedAt>>
  BY DEF Reboot, authorities, store, evidence
<1>2. TypeOK'
  <2>1. highest' \in Nat
    BY <1>1, ObserveKeeps DEF TypeOK
  <2> QED BY <2>1, <1>1 DEF TypeOK
<1>3. AnchorDated'
  <2>1. boot \in Nat /\ anchor.boot \in Nat
    BY DEF TypeOK
  <2> QED BY <1>1, <2>1 DEF AnchorDated
<1>4. SignedInOrder' /\ MountedSigned' /\ EvidenceUnbroken' /\ SnapshotGenuine'
  BY <1>1 DEF SignedInOrder, MountedSigned, EvidenceUnbroken, SnapshotGenuine
<1>5. AnswerJustified'
  BY <1>1 DEF AnswerJustified
<1> QED BY <1>2, <1>3, <1>4, <1>5

LEMMA TickKeeps == ASSUME IInv, Observe, Tick PROVE IInv'
<1> USE DEF IInv
<1>1. /\ now' = now + 1 /\ mono' = mono + 1
      /\ UNCHANGED <<boot, anchors, snapshots, mounted, anchor, snapshot>>
      /\ UNCHANGED <<service, answer, faults, accepted, acceptedAt>>
  BY DEF Tick, authorities, store, evidence
<1>2. TypeOK'
  <2>1. highest' \in Nat
    BY <1>1, ObserveKeeps DEF TypeOK
  <2> QED BY <2>1, <1>1 DEF TypeOK
<1>3. SignedInOrder'
  <2>1. \A i \in 1..Len(anchors) : anchors[i].at \in Nat
    BY AnchorRecord
  <2>2. \A i \in 1..Len(snapshots) : snapshots[i].issued \in Nat
    BY SnapshotRecord
  <2>3. now \in Nat
    BY DEF TypeOK
  <2> QED BY <1>1, <2>1, <2>2, <2>3 DEF SignedInOrder
<1>4. AnchorDated'
  <2>1. /\ now \in Nat /\ mono \in Nat /\ acceptedAt \in Nat
        /\ anchor.at \in Nat /\ anchor.tick \in Nat
    BY DEF TypeOK
  <2> QED BY <1>1, <2>1 DEF AnchorDated
<1>5. MountedSigned' /\ EvidenceUnbroken' /\ SnapshotGenuine' /\ AnswerJustified'
  BY <1>1 DEF MountedSigned, EvidenceUnbroken, SnapshotGenuine, AnswerJustified
<1> QED BY <1>2, <1>3, <1>4, <1>5

LEMMA NextKeeps == ASSUME IInv, Next PROVE IInv'
BY IssueAnchorKeeps, IssueSnapshotKeeps, DeliverKeeps, StartAnchorKeeps,
   StartSnapshotKeeps, BeginSearchKeeps, FinishSearchKeeps, ServiceStopsKeeps,
   RebootKeeps, TickKeeps DEF Next, Step

LEMMA StutterKeeps == ASSUME IInv, UNCHANGED vars PROVE IInv'
BY DEF IInv, TypeOK, SignedInOrder, MountedSigned, EvidenceUnbroken, AnchorDated,
   SnapshotGenuine, AnswerJustified, vars, clocks, authorities, store, evidence

LEMMA InitHolds == ASSUME Init PROVE IInv
<1>1. anchors \in Seq([at : Nat, horizon : Horizons])
  BY DEF Init
<1>2. snapshots \in Seq([issued : Nat, next : Nat, entries : EntryLists])
  BY DEF Init
<1>3. anchor \in [seq : Nat, at : Nat, horizon : Nat, tick : Nat, boot : Nat]
  BY DEF Init, NoAnchor
<1>4. snapshot \in [gen : Nat, issued : Nat, next : Nat, entries : SUBSET Entry]
  BY DEF Init, NoSnapshot
<1>5. TypeOK
  BY <1>1, <1>2, <1>3, <1>4 DEF Init, TypeOK
<1>6. Len(anchors) = 0 /\ Len(snapshots) = 0
  BY DEF Init
<1>7. SignedInOrder /\ MountedSigned
  BY <1>6 DEF Init, SignedInOrder, MountedSigned
<1>8. EvidenceUnbroken /\ AnchorDated /\ SnapshotGenuine /\ AnswerJustified
  BY DEF Init, NoAnchor, NoSnapshot, EvidenceUnbroken, AnchorDated,
         SnapshotGenuine, AnswerJustified
<1> QED BY <1>5, <1>7, <1>8 DEF IInv

-----------------------------------------------------------------------------
(* Theorems *)

\* Every reachable state of the node satisfies the inductive invariant.
THEOREM InvariantHolds == Spec => []IInv
<1>1. Init => IInv
  BY InitHolds
<1>2. IInv /\ [Next]_vars => IInv'
  BY NextKeeps, StutterKeeps
<1> QED BY <1>1, <1>2, PTL DEF Spec

\* Every variable keeps a value of its kind.
THEOREM TypeCorrect == Spec => []TypeOK
<1>1. IInv => TypeOK
  BY DEF IInv
<1> QED BY <1>1, InvariantHolds, PTL

\* time_confidence never reports a bounded time that has not come yet.
THEOREM TimeNeverAhead == Spec => []TrustedTimeNeverAhead
<1>1. IInv => TrustedTimeNeverAhead
  BY AnchoredFacts DEF IInv, TrustedTimeNeverAhead
<1> QED BY <1>1, InvariantHolds, PTL

\* The accepted anchors and snapshots form gapless chains from the first on,
\* each accepted in its turn.
THEOREM EvidenceChain == Spec => []EvidenceUnbroken
<1>1. IInv => EvidenceUnbroken
  BY DEF IInv
<1> QED BY <1>1, InvariantHolds, PTL

\* assess_eligibility lets no answer rest on a source that has been stopped
\* for longer than the snapshot age limit.
THEOREM RevocationsReach == Spec => []RevocationReachesAnswers
<1>1. ASSUME IInv PROVE RevocationReachesAnswers
  <2> SUFFICES ASSUME answer # None, ~answer.refused,
                      NEW gen \in 1..Len(snapshots),
                      NEW entry \in snapshots[gen].entries,
                      Stops(entry), entry.from <= answer.time,
                      snapshots[gen].issued + MaxAge < answer.time,
                      \A later \in gen..Len(snapshots) :
                        entry \in snapshots[later].entries
               PROVE  entry.subject \notin answer.sources
    BY DEF RevocationReachesAnswers
  <2>1. answer \in Answer
    BY <1>1 DEF IInv, TypeOK
  <2>2. answer.time \in Nat
    BY <2>1 DEF Answer
  <2>3. /\ answer.gen \in 1..Len(snapshots)
        /\ answer.time - snapshots[answer.gen].issued <= MaxAge
    BY <1>1 DEF IInv, AnswerJustified
  <2>4. snapshots[gen].issued \in Nat /\ snapshots[answer.gen].issued \in Nat
    BY <1>1, <2>3, SnapshotRecord DEF IInv
  <2>5. gen <= answer.gen
    <3>1. snapshots[gen].issued < snapshots[answer.gen].issued
      BY <2>2, <2>3, <2>4, EvidenceAssumption
    <3>2. ASSUME answer.gen <= gen PROVE FALSE
      <4>1. snapshots[answer.gen].issued <= snapshots[gen].issued
        BY <1>1, <2>3, <3>2 DEF IInv, SignedInOrder
      <4> QED BY <3>1, <4>1, <2>4
    <3> QED BY <3>2, <2>3
  <2>6. entry \in snapshots[answer.gen].entries
    BY <2>3, <2>5
  <2> QED BY <1>1, <2>6 DEF IInv, AnswerJustified
<1> QED BY <1>1, InvariantHolds, PTL

\* While the node stays confident in its time, no step of it, not even the
\* acceptance of another anchor, takes that time back.
THEOREM TimeContinues == Spec => TrustedTimeContinues
<1>1. ASSUME IInv, Next, Anchored, Anchored' PROVE TrustedTime' >= TrustedTime
  <2>1. /\ TrustedTime \in Nat /\ mono \in Nat /\ boot \in Nat
        /\ anchor.boot = boot /\ anchor.seq # 0
        /\ anchor.at \in Nat /\ anchor.tick \in Nat
    BY <1>1, AnchoredFacts DEF IInv, TypeOK, Anchored
  <2>2. CASE UNCHANGED <<mono, anchor>>
    BY <2>1, <2>2 DEF TrustedTime
  <2>3. CASE Tick
    BY <2>1, <2>3 DEF Tick, TrustedTime, store
  <2>4. CASE Reboot
    BY <1>1, <2>1, <2>4 DEF Reboot, Anchored, store
  <2>5. CASE /\ AnchorAcceptable(mounted.anchor) /\ InstallAnchor(mounted.anchor)
             /\ UNCHANGED mono
    <3>1. anchors[mounted.anchor].at >= TrustedTime
      BY <1>1, <2>1, <2>5 DEF AnchorAcceptable, LowerBound
    <3>2. anchor'.at = anchors[mounted.anchor].at /\ anchor'.tick = mono
      BY <2>5 DEF InstallAnchor
    <3>3. mounted.anchor \in 1..Len(anchors)
      BY <1>1, <2>1, <2>5 DEF IInv, TypeOK, MountedSigned, AnchorAcceptable
    <3>4. anchors[mounted.anchor].at \in Nat
      BY <1>1, <3>3, AnchorRecord DEF IInv
    <3> QED BY <2>1, <2>5, <3>1, <3>2, <3>4 DEF TrustedTime
  <2> QED
    BY <1>1, <2>2, <2>3, <2>4, <2>5
    DEF Next, Step, IssueAnchor, IssueSnapshot, Deliver, StartAnchor, StartSnapshot,
        BeginSearch, FinishSearch, ServiceStops, clocks, store
<1>2. IInv /\ [Next]_vars
        => [Anchored /\ Anchored' => TrustedTime' >= TrustedTime]_vars
  BY <1>1
<1> QED BY <1>2, InvariantHolds, PTL DEF Spec, TrustedTimeContinues

\* No search answers on an anchor accepted longer ago, in true time, than the
\* horizon it carries.
THEOREM WithinHorizon == Spec => AnswersWithinHorizon
<1>1. ASSUME IInv, Next, answer' # answer, answer' # None, ~answer'.refused
      PROVE  now - acceptedAt <= anchor.horizon
  <2>1. Refusal.refused
    BY DEF Refusal
  <2>2. FinishSearch
    BY <1>1, <2>1
    DEF Next, Step, IssueAnchor, IssueSnapshot, Deliver, StartAnchor, StartSnapshot,
        BeginSearch, ServiceStops, Reboot, Tick
  <2>3. Anchored
    BY <1>1, <2>1, <2>2 DEF FinishSearch, Eligible
  <2> QED BY <1>1, <2>3, AnchoredFacts DEF IInv
<1>2. IInv /\ [Next]_vars
        => [answer' # answer /\ answer' # None /\ ~answer'.refused
              => now - acceptedAt <= anchor.horizon]_vars
  BY <1>1
<1> QED BY <1>2, InvariantHolds, PTL DEF Spec, AnswersWithinHorizon
=============================================================================

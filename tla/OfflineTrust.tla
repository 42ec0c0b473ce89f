----------------------------- MODULE OfflineTrust -----------------------------
(***************************************************************************)
(* Signed time and revocation evidence on a disconnected Lil EVY node: the *)
(* OfflineTrustStore (backend/services/rag_service/trusted_state.py) and   *)
(* the runtime that installs evidence when the RAG service starts and      *)
(* gates every search with it (offline_trust_runtime.py, main.py).         *)
(*                                                                         *)
(* The authorities sign one record for each sequence or generation, which  *)
(* is therefore its digest here, and each record names its predecessor.    *)
(* Signatures, scope and parsing are taken as verified. Records reach the  *)
(* node late, in any order, again, or never.                               *)
(***************************************************************************)
EXTENDS Integers, Sequences, FiniteSets

CONSTANTS
  Source,       \* sources of the corpus
  Release,      \* the active release
  Key,          \* the key that signed it
  Horizons,     \* max_offline_seconds an anchor may carry
  Lifetimes,    \* next_update_at - issued_at of a snapshot
  EntryLists,   \* the entries a snapshot may carry
  MaxAge,       \* offline_trust_max_snapshot_age_seconds
  None,         \* no answer yet
  MaxAnchors, MaxSnapshots, \* bounds: records the authorities sign
  MaxBoots, MaxFaults,      \* bounds: boots of the node, failures of a start
  EventsUntil,  \* bound: no record is signed or delivered after this time
  MaxTime       \* bound: time stops here

Subject == Source \cup {Release, Key}
Action == {"block_activation", "stop_serving", "restrict", "audit_only"}
Entry == [subject : Subject, action : Action, from : Nat]

ASSUME SubjectAssumption ==
  Release \notin Source /\ Key \notin Source /\ Release # Key
ASSUME EvidenceAssumption ==
  /\ Horizons \subseteq Nat \ {0} /\ Lifetimes \subseteq Nat \ {0}
  /\ \A entries \in EntryLists : entries \subseteq Entry
  /\ MaxAge \in Nat \ {0}
ASSUME AnswerAssumption ==
  None \notin [refused : BOOLEAN, sources : SUBSET Source, gen : Nat, time : Int]
ASSUME BoundAssumption ==
  /\ MaxAnchors \in Nat /\ MaxSnapshots \in Nat /\ MaxBoots \in Nat
  /\ MaxFaults \in Nat /\ EventsUntil \in Nat /\ MaxTime \in Nat

VARIABLES
  now,        \* true civil time
  mono, boot, \* the node's monotonic clock, and the boot it counts from
  anchors,    \* the time anchors signed so far, by sequence
  snapshots,  \* the revocation snapshots signed so far, by generation
  mounted,    \* the evidence on the node's projected volume
  anchor,     \* "time_anchor" of the state file
  snapshot,   \* "revocation_snapshot" of the state file
  service,    \* where the RAG service is
  answer,     \* what the last search of the service returned
  faults,     \* failed writes and interrupted starts so far
  accepted,   \* history: every sequence and generation accepted
  acceptedAt, \* history: when the installed anchor was accepted
  highest     \* history: the latest trusted time there ever was

clocks == <<now, mono, boot>>
authorities == <<anchors, snapshots, mounted>>
store == <<anchor, snapshot>>
evidence == <<accepted, acceptedAt>>
vars == <<clocks, authorities, store, service, answer, faults, evidence, highest>>

NoAnchor == [seq |-> 0, at |-> 0, horizon |-> 0, tick |-> 0, boot |-> 0]
NoSnapshot == [gen |-> 0, issued |-> 0, next |-> 0, entries |-> {}]

-----------------------------------------------------------------------------
(* time_confidence *)

\* Mutant of Anchored: the tick of an earlier boot is compared with this one's.
AnchoredAnyBoot ==
  /\ anchor.seq # 0
  /\ mono >= anchor.tick
  /\ mono - anchor.tick <= anchor.horizon

\* The anchor was accepted in this boot and its horizon has not passed.
Anchored ==
  /\ anchor.seq # 0
  /\ anchor.boot = boot
  /\ mono >= anchor.tick
  /\ mono - anchor.tick <= anchor.horizon

\* Mutant of TrustedTime: the tick at acceptance is not subtracted.
TrustedTimeSinceBoot == anchor.at + mono

\* Mutant of TrustedTime: the operands of the difference are swapped.
TrustedTimeCountedDown == anchor.at + (anchor.tick - mono)

TrustedTime == anchor.at + (mono - anchor.tick)

-----------------------------------------------------------------------------
(* The authorities and the delivery of what they sign *)

IssueAnchor ==
  /\ now <= EventsUntil /\ Len(anchors) < MaxAnchors
  /\ \E horizon \in Horizons :
       anchors' = Append(anchors, [at |-> now, horizon |-> horizon])
  /\ UNCHANGED <<clocks, snapshots, mounted, store, service, answer, faults, evidence>>

IssueSnapshot ==
  /\ now <= EventsUntil /\ Len(snapshots) < MaxSnapshots
  /\ \E life \in Lifetimes, entries \in EntryLists :
       snapshots' = Append(snapshots,
                      [issued |-> now, next |-> now + life, entries |-> entries])
  /\ UNCHANGED <<clocks, anchors, mounted, store, service, answer, faults, evidence>>

\* Any signed pair, newer or older than what is installed.
Deliver ==
  /\ now <= EventsUntil
  /\ mounted' \in [anchor : 1..Len(anchors), snapshot : 1..Len(snapshots)]
  /\ mounted' # mounted
  /\ UNCHANGED <<clocks, anchors, snapshots, store, service, answer, faults, evidence>>

-----------------------------------------------------------------------------
(* OfflineTrustRuntime.from_settings, when the RAG service starts *)

\* Mutant of LowerBound: the time that has passed since acceptance is ignored.
LowerBoundOfAnchor == anchor.at

\* What a new anchor must not be older than.
LowerBound == IF Anchored THEN TrustedTime ELSE anchor.at

\* accept_time_anchor: beyond the replay floor, next in the chain (the first
\* has no predecessor), and not before the lower bound.
AnchorAcceptable(seq) ==
  /\ seq > anchor.seq
  /\ seq - 1 = anchor.seq
  /\ anchor.seq # 0 => anchors[seq].at >= LowerBound

SnapshotAcceptable(gen) ==
  /\ gen > snapshot.gen
  /\ gen - 1 = snapshot.gen
  /\ Anchored => snapshots[gen].issued <= TrustedTime

\* _write_state and what follows it: it can raise, before or after its
\* os.replace, and the service then does not start.
Written(next) == service' = next /\ UNCHANGED faults
WriteFails == faults < MaxFaults /\ faults' = faults + 1 /\ service' = "down"

InstallAnchor(seq) ==
  /\ anchor' = [seq |-> seq, at |-> anchors[seq].at,
                horizon |-> anchors[seq].horizon, tick |-> mono, boot |-> boot]
  /\ accepted' = [accepted EXCEPT !.anchors = @ \cup {seq}]
  /\ acceptedAt' = now

InstallSnapshot(gen) ==
  /\ snapshot' = [gen |-> gen, issued |-> snapshots[gen].issued,
                  next |-> snapshots[gen].next, entries |-> snapshots[gen].entries]
  /\ accepted' = [accepted EXCEPT !.snapshots = @ \cup {gen}]

\* Mutant of StartAnchor: the installed anchor is submitted again.
StartAnchorAgain ==
  /\ service = "down" /\ mounted.anchor # 0
  /\ AnchorAcceptable(mounted.anchor)
  /\ \/ InstallAnchor(mounted.anchor) /\ (Written("starting") \/ WriteFails)
     \/ WriteFails /\ UNCHANGED <<anchor, evidence>>
  /\ UNCHANGED <<clocks, authorities, snapshot, answer>>

\* The mounted anchor is installed unless it already is; a refused one keeps
\* the service from starting.
StartAnchor ==
  /\ service = "down" /\ mounted.anchor # 0
  /\ \/ /\ mounted.anchor = anchor.seq
        /\ Written("starting")
        /\ UNCHANGED <<anchor, evidence>>
     \/ /\ AnchorAcceptable(mounted.anchor)
        /\ \/ InstallAnchor(mounted.anchor) /\ (Written("starting") \/ WriteFails)
           \/ WriteFails /\ UNCHANGED <<anchor, evidence>>
  /\ UNCHANGED <<clocks, authorities, snapshot, answer>>

\* The snapshot is read after the anchor was installed, and refusing it does
\* not take the anchor back.
StartSnapshot ==
  /\ service = "starting"
  /\ \/ /\ mounted.snapshot = snapshot.gen
        /\ Written("up")
        /\ UNCHANGED <<snapshot, accepted>>
     \/ /\ SnapshotAcceptable(mounted.snapshot)
        /\ \/ InstallSnapshot(mounted.snapshot) /\ (Written("up") \/ WriteFails)
           \/ WriteFails /\ UNCHANGED <<snapshot, accepted>>
     \/ /\ mounted.snapshot # snapshot.gen /\ ~SnapshotAcceptable(mounted.snapshot)
        /\ Written("down")
        /\ UNCHANGED <<snapshot, accepted>>
  /\ UNCHANGED <<clocks, authorities, anchor, answer, acceptedAt>>

-----------------------------------------------------------------------------
(* Searches *)

Serving == service \in {"up", "searching"}

Stops(entry) == entry.action \in {"stop_serving", "restrict"}

\* Mutant of Fresh: only the snapshot's own validity ends its use.
FreshUntilNextUpdate == snapshot.gen # 0 /\ TrustedTime < snapshot.next

Fresh ==
  /\ snapshot.gen # 0
  /\ TrustedTime < snapshot.next
  /\ TrustedTime - snapshot.issued <= MaxAge

\* assess_eligibility(purpose="serving")
Eligible(subjects) ==
  /\ Anchored
  /\ Fresh
  /\ \A entry \in snapshot.entries :
       entry.subject \in subjects /\ entry.from <= TrustedTime => ~Stops(entry)

Refusal == [refused |-> TRUE, sources |-> {}, gen |-> 0, time |-> 0]

\* RAGService.search: the release and its key before the retrieval ...
BeginSearch ==
  /\ service = "up"
  /\ \/ Eligible({Release, Key}) /\ service' = "searching" /\ answer' = None
     \/ ~Eligible({Release, Key}) /\ service' = "up" /\ answer' = Refusal
  /\ UNCHANGED <<clocks, authorities, store, faults, evidence>>

\* ... and the sources of what was retrieved after it. A result without
\* provenance is refused.
FinishSearch ==
  /\ service = "searching"
  /\ service' = "up"
  /\ \/ \E sources \in SUBSET Source :
          answer' = IF Eligible(sources)
                      THEN [refused |-> FALSE, sources |-> sources,
                            gen |-> snapshot.gen, time |-> TrustedTime]
                      ELSE Refusal
     \/ answer' = Refusal
  /\ UNCHANGED <<clocks, authorities, store, faults, evidence>>

-----------------------------------------------------------------------------
(* The node *)

\* The container ends: for a controlled restart, or by a crash.
ServiceStops ==
  /\ \/ Serving /\ UNCHANGED faults
     \/ service = "starting" /\ faults < MaxFaults /\ faults' = faults + 1
  /\ service' = "down" /\ answer' = None
  /\ UNCHANGED <<clocks, authorities, store, evidence>>

Reboot ==
  /\ boot < MaxBoots /\ now <= EventsUntil
  /\ boot' = boot + 1
  /\ mono' = 0
  /\ service' = "down" /\ answer' = None
  /\ UNCHANGED <<now, authorities, store, faults, evidence>>

Tick ==
  /\ now < MaxTime
  /\ now' = now + 1
  /\ mono' = mono + 1
  /\ UNCHANGED <<boot, authorities, store, service, answer, faults, evidence>>

-----------------------------------------------------------------------------

\* A provisioned node that holds no evidence yet.
Init ==
  /\ now = 0 /\ mono = 0 /\ boot = 1
  /\ anchors = <<>> /\ snapshots = <<>>
  /\ mounted = [anchor |-> 0, snapshot |-> 0]
  /\ anchor = NoAnchor /\ snapshot = NoSnapshot
  /\ service = "down" /\ answer = None
  /\ faults = 0
  /\ accepted = [anchors |-> {}, snapshots |-> {}]
  /\ acceptedAt = 0
  /\ highest = 0

Step ==
  \/ IssueAnchor \/ IssueSnapshot \/ Deliver
  \/ StartAnchor \/ StartSnapshot
  \/ BeginSearch \/ FinishSearch
  \/ ServiceStops \/ Reboot \/ Tick

Observe ==
  highest' = IF Anchored' /\ TrustedTime' > highest THEN TrustedTime' ELSE highest

Next == Step /\ Observe

Spec == Init /\ [][Next]_vars

\* The kubelet keeps starting the container, and time passes.
FairSpec ==
  /\ Spec
  /\ WF_vars(StartAnchor /\ Observe) /\ WF_vars(StartSnapshot /\ Observe)
  /\ WF_vars(Tick /\ Observe)

-----------------------------------------------------------------------------
(* Properties *)

Answer == [refused : BOOLEAN, sources : SUBSET Source, gen : Nat, time : Nat]

\* Every variable holds a value of its kind.
TypeOK ==
  /\ now \in Nat /\ mono \in Nat /\ boot \in Nat
  /\ anchors \in Seq([at : Nat, horizon : Horizons])
  /\ snapshots \in Seq([issued : Nat, next : Nat, entries : EntryLists])
  /\ mounted \in [anchor : Nat, snapshot : Nat]
  /\ anchor \in [seq : Nat, at : Nat, horizon : Nat, tick : Nat, boot : Nat]
  /\ snapshot \in [gen : Nat, issued : Nat, next : Nat, entries : SUBSET Entry]
  /\ service \in {"down", "starting", "up", "searching"}
  /\ answer = None \/ answer \in Answer
  /\ faults \in Nat
  /\ accepted \in [anchors : SUBSET Nat, snapshots : SUBSET Nat]
  /\ acceptedAt \in Nat /\ highest \in Nat

\* The node never believes a time that has not come: whatever reboots, late
\* deliveries and restarts happened, the trusted time is not ahead of civil
\* time, so that nothing becomes effective early.
TrustedTimeNeverAhead == Anchored => TrustedTime <= now

\* While the node trusts its time, that time does not step back: neither the
\* clock nor a newer anchor undoes a revocation that has become effective.
TrustedTimeContinues ==
  [][ Anchored /\ Anchored' => TrustedTime' >= TrustedTime ]_vars

\* The node has seen everything the authorities signed up to what it holds:
\* no replay, and no gap, over restarts and failed writes.
EvidenceUnbroken ==
  /\ accepted.anchors = 1..anchor.seq
  /\ accepted.snapshots = 1..snapshot.gen

\* No answer is given on time evidence older than its horizon, counted in
\* true time: a reboot does not lengthen it.
AnswersWithinHorizon ==
  [][ answer' # answer /\ answer' # None /\ ~answer'.refused
        => now - acceptedAt <= anchor.horizon ]_vars

\* A revocation reaches every answer within MaxAge of trusted time: an answer
\* does not rest on a source that a snapshot signed earlier than that stops and
\* that every later snapshot still stops.
RevocationReachesAnswers ==
  answer # None /\ ~answer.refused =>
    \A gen \in 1..Len(snapshots) : \A entry \in snapshots[gen].entries :
      /\ Stops(entry) /\ entry.from <= answer.time
      /\ snapshots[gen].issued + MaxAge < answer.time
      /\ \A later \in gen..Len(snapshots) : entry \in snapshots[later].entries
      => entry.subject \notin answer.sources

\* The mounted evidence is what is installed or the next of its chain, and the
\* snapshot is not younger than the anchor.
Deliverable ==
  /\ mounted.anchor # 0 /\ mounted.anchor \in {anchor.seq, anchor.seq + 1}
  /\ mounted.snapshot \in {snapshot.gen, snapshot.gen + 1}
  /\ snapshots[mounted.snapshot].issued <= anchors[mounted.anchor].at

\* Evidence that is next in its chain gets a node started, whatever interrupted
\* the two writes of the start before.
StartupConverges == Deliverable ~> Serving \/ ~Deliverable

\* A new anchor does not move the previously bounded civil time backward.
CivilTimeNeverMovesBack == Anchored => TrustedTime >= highest
=============================================================================

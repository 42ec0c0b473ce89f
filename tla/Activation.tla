----------------------------- MODULE Activation -----------------------------
(***************************************************************************)
(* Corpus activation on one Lil EVY node: CorpusActivationManager          *)
(* (backend/services/rag_service/activation.py), the boundary through      *)
(* which an operator reaches it (activation_control.py,                    *)
(* activation_operator.py) and the resolver that decides at boot what the  *)
(* RAG service may serve (active_release.py).                              *)
(*                                                                         *)
(* Every durable write of the manager is one action, because the process   *)
(* can die between any two of them and because the RAG service runs in     *)
(* another container and may read the files between any two of them.       *)
(* A write can also raise, before or after its os.replace took effect.     *)
(*                                                                         *)
(* One operation runs at a time: the operator calls the manager            *)
(* synchronously on its single event loop.                                 *)
(***************************************************************************)
EXTENDS Naturals, Sequences, FiniteSets

CONSTANTS
  Digest,         \* digests of corpus releases
  NoDigest,       \* "active_digest": None
  Absent,         \* no package directory for a release
  Broken,         \* package content that the package verifier refuses
  Candidates,     \* the releases an operator may submit
  AuthId,         \* recovery authorization identifiers
  Nonce,          \* nonces of signed recovery authorizations
  Authorizations, \* the recovery authorizations that can be presented
  NoPolicy,       \* a pointer without "recovery_serving_policy"
  FaultKinds,     \* the kinds of fault the environment may inject
  MaxFaults,      \* bound: faults in a behaviour
  MaxCounter      \* bound: no operation starts once this receipt is issued

Sequence == Nat \ {0}
AllFaults == {"write_error", "late_error", "step_error", "crash", "power_loss"}

ASSUME SentinelAssumption ==
  /\ NoDigest \notin Digest
  /\ Absent \notin Digest
  /\ Broken \notin Digest
  /\ Absent # Broken
ASSUME CandidateAssumption ==
  Candidates \subseteq
    [digest : Digest, sequence : Sequence, content : Digest \cup {Broken}]
ASSUME AuthorizationAssumption ==
  Authorizations \subseteq
    [kind : {"preauthorized", "exceptional"}, id : AuthId, nonce : Nonce,
     target : Digest, sequence : Sequence, floor : Sequence,
     current : Digest, ours : BOOLEAN]
ASSUME PolicyAssumption == NoPolicy \notin [id : AuthId, nonce : Nonce]
ASSUME BoundAssumption ==
  FaultKinds \subseteq AllFaults /\ MaxFaults \in Nat /\ MaxCounter \in Nat

VARIABLES
  pointer,     \* current.json
  states,      \* releases/<digest>/state.json
  package,     \* whose content releases/<digest>/package holds
  unsynced,    \* package directories not yet written back to the medium
  counterFile, \* receipt-counter.json
  op,          \* the operation the manager is executing
  answer,      \* the last answer an operator received, with the device
               \* counter of the last receipt handed out
  rag,         \* the RAG service and the selection it booted with
  faults,      \* faults injected so far
  committed    \* history: every (digest, sequence, mode) ever committed

durable == <<pointer, states, package, unsynced, counterFile>>
vars == <<durable, op, answer, rag, faults, committed>>

-----------------------------------------------------------------------------
(* Data *)

Marker == ({"id", "authorization"} \X AuthId) \cup ({"nonce"} \X Nonce)
Policy == [id : AuthId, nonce : Nonce]

Pointer ==
  [digest : Digest \cup {NoDigest}, seq : Nat, floor : Nat,
   mode : {"uninitialized", "production", "recovery"}, ctr : Nat,
   used : Seq(Marker), policy : Policy \cup {NoPolicy}]

\* CorpusActivationManager.current() when current.json does not exist.
EmptyPointer ==
  [digest |-> NoDigest, seq |-> 0, floor |-> 0, mode |-> "uninitialized",
   ctr |-> 0, used |-> <<>>, policy |-> NoPolicy]

PreparationStages == {"STAGED", "VERIFIED", "INDEXED", "CANARY_TESTED", "READY"}
ReleaseStates == PreparationStages \cup {"ACTIVE", "RECOVERY", "REJECTED"}

\* state.json, with the last two entries of its history.
StateFile ==
  [seq : Nat, state : ReleaseStates \cup {"NONE"},
   prev : ReleaseStates \cup {"NONE"}]
NoStateFile == [seq |-> 0, state |-> "NONE", prev |-> "NONE"]

Reasons == {"ACTIVATED", "RECOVERY_ACTIVATED", "ALREADY_ACTIVE",
            "SEQUENCE_ROLLBACK", "RECOVERY_NOT_AUTHORIZED",
            "ACTIVATION_FAILED"}
SuccessReasons == {"ACTIVATED", "RECOVERY_ACTIVATED", "ALREADY_ACTIVE"}

Max2(a, b) == IF a >= b THEN a ELSE b
Elements(s) == {s[i] : i \in 1..Len(s)}
NoDuplicates(s) == \A i, j \in 1..Len(s) : s[i] = s[j] => i = j

\* Mutant of Markers: the bare identifiers, without saying what they identify.
MarkersUntagged(a) ==
  IF a.kind = "exceptional" THEN <<a.id, a.nonce>> ELSE <<a.id>>

\* The entries an authorization adds to used_recovery_authorizations: its
\* bare id for a pre-authorized recovery, the two replay markers otherwise.
Markers(a) ==
  IF a.kind = "exceptional"
    THEN << <<"authorization", a.id>>, <<"nonce", a.nonce>> >>
    ELSE << <<"id", a.id>> >>

ServingPolicy(a) ==
  IF a.kind = "exceptional" THEN [id |-> a.id, nonce |-> a.nonce]
                            ELSE NoPolicy

Idle == [pc |-> "idle"]
Down == [pc |-> "down", ptr |-> EmptyPointer]
Running(pcs) == op.pc \in pcs

-----------------------------------------------------------------------------
(* Writes: LocalActivationFilesystem.atomic_write_json *)

\* "ok": replaced and flushed. "write_error": raised before os.replace.
\* "late_error": raised by the directory fsync, after os.replace.
Outcomes ==
  {"ok"} \cup
  (IF faults < MaxFaults THEN FaultKinds \cap {"write_error", "late_error"}
                         ELSE {})
Applied(o) == o # "write_error"
Raised(o) == o # "ok"
Tally(o) == faults' = IF Raised(o) THEN faults + 1 ELSE faults

FaultPossible(kind) == kind \in FaultKinds /\ faults < MaxFaults

\* _record_state: read the previous file, append to its history, write.
RecordState(c, state, o) ==
  states' = IF Applied(o)
              THEN [states EXCEPT ![c.digest] =
                      [seq |-> c.sequence, state |-> state, prev |-> @.state]]
              ELSE states

\* Mutant of NextCounter: the receipt counter file is not consulted.
NextCounterFromPointer == pointer.ctr + 1

\* _next_device_counter: persisted before the receipt that carries it exists.
NextCounter == Max2(counterFile, pointer.ctr) + 1
BurnCounter(o) == counterFile' = IF Applied(o) THEN NextCounter ELSE counterFile

-----------------------------------------------------------------------------
(* Entry points *)

Ready == op.pc = "idle" /\ counterFile < MaxCounter

\* verdict: what a receipt says if the operation does not succeed.
Begin(c, mode, markers, policy) ==
  op' = [pc |-> "stage", cand |-> c, before |-> pointer, mode |-> mode,
         markers |-> markers, policy |-> policy, ctr |-> 0,
         verdict |-> "ACTIVATION_FAILED"]

Decide(c, verdict) ==
  op' = [pc |-> "answer", cand |-> c, before |-> pointer, mode |-> "production",
         markers |-> <<>>, policy |-> NoPolicy, ctr |-> 0, verdict |-> verdict]

\* Mutant of IsRollback: compares with the release being served, not the floor.
IsRollbackOfActive(c) ==
  \/ c.sequence < pointer.seq
  \/ c.sequence = pointer.seq /\ c.digest # pointer.digest

IsRollback(c) ==
  \/ c.sequence < pointer.floor
  \/ c.sequence = pointer.floor /\ c.digest # pointer.digest

IsAlreadyActive(c) == c.sequence = pointer.floor /\ c.digest = pointer.digest

Activate(c) ==
  /\ Ready
  /\ \/ IsRollback(c) /\ Decide(c, "SEQUENCE_ROLLBACK")
     \/ IsAlreadyActive(c) /\ Decide(c, "ALREADY_ACTIVE")
     \/ /\ ~IsRollback(c) /\ ~IsAlreadyActive(c)
        /\ Begin(c, "production", <<>>, NoPolicy)
  /\ UNCHANGED <<durable, answer, rag, faults, committed>>

\* recover(): the candidate's sequence is not compared with anything.
PreauthorizedValid(c, a) ==
  /\ <<"id", a.id>> \notin Elements(pointer.used)
  /\ a.target = c.digest
  /\ a.floor = pointer.floor
  /\ a.current = pointer.digest
  /\ a.ours

\* Mutant of ExceptionalValid: only the authorization identifier is spent.
ExceptionalValidById(c, a) ==
  /\ a.target = c.digest
  /\ a.sequence = c.sequence
  /\ a.current = pointer.digest
  /\ a.floor = pointer.floor
  /\ a.ours
  /\ <<"authorization", a.id>> \notin Elements(pointer.used)

\* recover_exceptionally(), behind the verifier's own check that the target
\* is older than the floor it names.
ExceptionalValid(c, a) ==
  /\ a.target = c.digest
  /\ a.sequence = c.sequence
  /\ a.current = pointer.digest
  /\ a.floor = pointer.floor
  /\ a.ours
  /\ Elements(pointer.used) \cap Elements(Markers(a)) = {}

AuthorizationVerified(a) == a.kind = "exceptional" => a.sequence < a.floor

RecoveryValid(c, a) ==
  IF a.kind = "exceptional" THEN ExceptionalValid(c, a)
                            ELSE PreauthorizedValid(c, a)

Recover(c, a) ==
  /\ Ready
  /\ AuthorizationVerified(a)
  /\ \/ RecoveryValid(c, a) /\ Begin(c, "recovery", Markers(a), ServingPolicy(a))
     \/ ~RecoveryValid(c, a) /\ Decide(c, "RECOVERY_NOT_AUTHORIZED")
  /\ UNCHANGED <<durable, answer, rag, faults, committed>>

-----------------------------------------------------------------------------
(* _prepare_and_commit *)

NextStage ==
  [STAGED |-> "VERIFIED", VERIFIED |-> "INDEXED", INDEXED |-> "CANARY_TESTED",
   CANARY_TESTED |-> "READY", READY |-> "receipt"]

\* stage_directory: an existing destination is left as it is.
StagePackage ==
  /\ Running({"stage"})
  /\ LET d == op.cand.digest IN
     IF package[d] = Absent
       THEN /\ package' = [package EXCEPT ![d] = op.cand.content]
            /\ unsynced' = unsynced \cup {d}
       ELSE UNCHANGED <<package, unsynced>>
  /\ op' = [op EXCEPT !.pc = "STAGED"]
  /\ UNCHANGED <<pointer, states, counterFile, answer, rag, faults, committed>>

\* The default verifier checks the package against the manifest inside it
\* and the configured event, not against the candidate's digest.
VerifierAccepts(d) == package[d] \in Digest

\* Verification, indexing or the smoke test, then the write that records it.
CompleteStage ==
  /\ Running(PreparationStages)
  /\ Running({"VERIFIED"}) => VerifierAccepts(op.cand.digest)
  /\ \E o \in Outcomes :
       /\ RecordState(op.cand, op.pc, o)
       /\ op' = [op EXCEPT !.pc = IF Raised(o) THEN "reject" ELSE NextStage[op.pc]]
       /\ Tally(o)
  /\ UNCHANGED <<pointer, package, unsynced, counterFile, answer, rag, committed>>

VerificationFails ==
  /\ Running({"VERIFIED"})
  /\ ~VerifierAccepts(op.cand.digest)
  /\ op' = [op EXCEPT !.pc = "reject"]
  /\ UNCHANGED <<durable, answer, rag, faults, committed>>

\* Copying, verifying, indexing or smoke-testing raises (I/O, missing file).
StepFails ==
  /\ Running({"stage", "VERIFIED", "INDEXED", "CANARY_TESTED"})
  /\ FaultPossible("step_error")
  /\ faults' = faults + 1
  /\ op' = [op EXCEPT !.pc = "reject"]
  /\ UNCHANGED <<durable, answer, rag, committed>>

\* Mutant of BuildReceipt: the pointer is committed before the final state.
BuildReceiptThenCommit ==
  /\ Running({"receipt"})
  /\ \E o \in Outcomes :
       /\ BurnCounter(o)
       /\ op' = IF Raised(o) THEN [op EXCEPT !.pc = "reject"]
                             ELSE [op EXCEPT !.pc = "commit", !.ctr = NextCounter]
       /\ Tally(o)
  /\ UNCHANGED <<pointer, states, package, unsynced, answer, rag, committed>>

BuildReceipt ==
  /\ Running({"receipt"})
  /\ \E o \in Outcomes :
       /\ BurnCounter(o)
       /\ op' = IF Raised(o) THEN [op EXCEPT !.pc = "reject"]
                             ELSE [op EXCEPT !.pc = "final", !.ctr = NextCounter]
       /\ Tally(o)
  /\ UNCHANGED <<pointer, states, package, unsynced, answer, rag, committed>>

FinalState(mode) == IF mode = "recovery" THEN "RECOVERY" ELSE "ACTIVE"

RecordFinal ==
  /\ Running({"final"})
  /\ \E o \in Outcomes :
       /\ RecordState(op.cand, FinalState(op.mode), o)
       /\ op' = [op EXCEPT !.pc = IF Raised(o) THEN "reject" ELSE "commit"]
       /\ Tally(o)
  /\ UNCHANGED <<pointer, package, unsynced, counterFile, answer, rag, committed>>

\* Mutant of NextPointer: recovery keeps the floor whatever it installs.
NextPointerFloorKept ==
  [digest |-> op.cand.digest, seq |-> op.cand.sequence,
   floor |-> IF op.mode = "recovery" THEN op.before.floor ELSE op.cand.sequence,
   mode |-> op.mode, ctr |-> op.ctr, used |-> op.before.used \o op.markers,
   policy |-> op.policy]

NextPointer ==
  [digest |-> op.cand.digest, seq |-> op.cand.sequence,
   floor |-> Max2(op.before.floor, op.cand.sequence), mode |-> op.mode,
   ctr |-> op.ctr, used |-> op.before.used \o op.markers, policy |-> op.policy]

Entry(p) == [digest |-> p.digest, seq |-> p.seq, mode |-> p.mode]

SuccessAnswer ==
  [reason |-> IF op.mode = "recovery" THEN "RECOVERY_ACTIVATED" ELSE "ACTIVATED",
   cand |-> op.cand, digest |-> op.cand.digest, seq |-> op.cand.sequence,
   ctr |-> op.ctr]

CommitPointer ==
  /\ Running({"commit"})
  /\ \E o \in Outcomes :
       /\ IF Applied(o)
            THEN /\ pointer' = NextPointer
                 /\ committed' = committed \cup {Entry(NextPointer)}
            ELSE UNCHANGED <<pointer, committed>>
       /\ IF Raised(o)
            THEN op' = [op EXCEPT !.pc = "reject"] /\ UNCHANGED answer
            ELSE op' = Idle /\ answer' = SuccessAnswer
       /\ Tally(o)
  /\ UNCHANGED <<states, package, unsynced, counterFile, rag>>

-----------------------------------------------------------------------------
(* The failure path and the answer *)

\* The except branch records REJECTED and swallows an error of that write.
RecordRejected ==
  /\ Running({"reject"})
  /\ \E o \in Outcomes :
       RecordState(op.cand, "REJECTED", o) /\ Tally(o)
  /\ op' = [op EXCEPT !.pc = "conclude"]
  /\ UNCHANGED <<pointer, package, unsynced, counterFile, answer, rag, committed>>

\* Anything that is not an ActivationError leaves the operator as HTTP 500.
InternalError ==
  [reason |-> "ACTIVATION_INTERNAL_ERROR", cand |-> op.cand,
   digest |-> NoDigest, seq |-> 0, ctr |-> answer.ctr]

\* Mutant of Conclude: any success receipt already built is returned.
ConcludeWithReceipt ==
  /\ Running({"conclude"})
  /\ IF op.ctr # 0
       THEN answer' = SuccessAnswer /\ op' = Idle
       ELSE /\ op' = [op EXCEPT !.pc = "answer"]
            /\ UNCHANGED answer
  /\ UNCHANGED <<durable, rag, faults, committed>>

\* Mutant of Conclude: a failure is reported without a look at the pointer.
ConcludeUnread ==
  /\ Running({"conclude"})
  /\ op' = [op EXCEPT !.pc = "answer"]
  /\ UNCHANGED <<durable, answer, rag, faults, committed>>

\* The pointer is read again: if it names the candidate, the success receipt
\* is returned, and reading it before it was built raises UnboundLocalError.
Conclude ==
  /\ Running({"conclude"})
  /\ IF pointer.digest = op.cand.digest
       THEN /\ answer' = IF op.ctr = 0 THEN InternalError ELSE SuccessAnswer
            /\ op' = Idle
       ELSE /\ op' = [op EXCEPT !.pc = "answer"]
            /\ UNCHANGED answer
  /\ UNCHANGED <<durable, rag, faults, committed>>

\* A receipt about the release active before the operation: its sequence is
\* the candidate's when the digests agree.
StandingAnswer ==
  [reason |-> op.verdict, cand |-> op.cand, digest |-> op.before.digest,
   seq |-> IF op.before.digest = op.cand.digest THEN op.cand.sequence
                                                ELSE op.before.seq,
   ctr |-> NextCounter]

Answer ==
  /\ Running({"answer"})
  /\ \E o \in Outcomes :
       /\ BurnCounter(o)
       /\ answer' = IF Raised(o) THEN InternalError ELSE StandingAnswer
       /\ Tally(o)
  /\ op' = Idle
  /\ UNCHANGED <<pointer, states, package, unsynced, rag, committed>>

-----------------------------------------------------------------------------
(* Crashes *)

\* The operator's container dies: whatever was durable stays.
Crash ==
  /\ op.pc # "idle"
  /\ FaultPossible("crash")
  /\ faults' = faults + 1
  /\ op' = Idle
  /\ UNCHANGED <<durable, answer, rag, committed>>

\* The kernel writes the copied package back; stage_directory never asks it
\* to. Only a later power loss can tell.
WriteBack ==
  /\ unsynced # {}
  /\ FaultPossible("power_loss")
  /\ unsynced' = {}
  /\ UNCHANGED <<pointer, states, package, counterFile, op, answer, rag,
                 faults, committed>>

\* The JSON files are flushed, the copied files of a package need not be. Its
\* directory entry reaches the medium with the next state.json beside it.
TornContents(d) ==
  {Broken} \cup
  (IF op.pc = "STAGED" /\ op.cand.digest = d THEN {Absent} ELSE {})

PowerLoss ==
  /\ FaultPossible("power_loss")
  /\ faults' = faults + 1
  /\ \E torn \in SUBSET unsynced :
       \E content \in [torn -> {Absent, Broken}] :
         /\ \A d \in torn : content[d] \in TornContents(d)
         /\ package' = [d \in Digest |-> IF d \in torn THEN content[d]
                                                        ELSE package[d]]
  /\ unsynced' = {}
  /\ op' = Idle
  /\ rag' = Down
  /\ UNCHANGED <<pointer, states, counterFile, answer, committed>>

-----------------------------------------------------------------------------
(* ActiveReleaseResolver, run once when the RAG service starts *)

\* _validate_pointer
PointerAccepted(p) ==
  /\ p.digest # NoDigest
  /\ p.seq >= 1 /\ p.floor >= 1 /\ p.ctr >= 1
  /\ p.seq <= p.floor
  /\ p.mode \in {"production", "recovery"}
  /\ p.mode = "production" => p.seq = p.floor
  /\ NoDuplicates(p.used)
  /\ p.mode = "recovery" => p.used # <<>>
  /\ p.policy # NoPolicy =>
       /\ p.mode = "recovery"
       /\ {<<"authorization", p.policy.id>>, <<"nonce", p.policy.nonce>>}
            \subseteq Elements(p.used)

\* Mutant of StateAccepted: a recovered release is not accepted at boot.
StateAcceptedActiveOnly(p) ==
  LET f == states[p.digest] IN
  /\ f.seq = p.seq
  /\ f.state = "ACTIVE"
  /\ f.prev = "READY"

\* _validate_state
StateAccepted(p) ==
  LET f == states[p.digest] IN
  /\ f.seq = p.seq
  /\ f.state = FinalState(p.mode)
  /\ f.prev = "READY"

\* Mutant of PackageAccepted: a verified package of any release will do.
PackageAcceptedAny(p) == package[p.digest] \in Digest

\* The package hashes to the pointer's digest and verifies.
PackageAccepted(p) == package[p.digest] = p.digest

Resolves(p) == PointerAccepted(p) /\ StateAccepted(p) /\ PackageAccepted(p)

ReadPointer ==
  /\ rag.pc = "down"
  /\ PointerAccepted(pointer)
  /\ rag' = [pc |-> "reading", ptr |-> pointer]
  /\ UNCHANGED <<durable, op, answer, faults, committed>>

\* state.json and the package are read after the pointer: the manager may
\* have moved on in between.
FinishResolve ==
  /\ rag.pc = "reading"
  /\ rag' = IF StateAccepted(rag.ptr) /\ PackageAccepted(rag.ptr)
              THEN [rag EXCEPT !.pc = "up"] ELSE Down
  /\ UNCHANGED <<durable, op, answer, faults, committed>>

RagStops ==
  /\ rag.pc = "up"
  /\ rag' = Down
  /\ UNCHANGED <<durable, op, answer, faults, committed>>

-----------------------------------------------------------------------------

NoAnswer == [reason |-> "none", ctr |-> 0]

Init ==
  /\ pointer = EmptyPointer
  /\ states = [d \in Digest |-> NoStateFile]
  /\ package = [d \in Digest |-> Absent]
  /\ unsynced = {}
  /\ counterFile = 0
  /\ op = Idle
  /\ answer = NoAnswer
  /\ rag = Down
  /\ faults = 0
  /\ committed = {}

ManagerStep ==
  \/ StagePackage \/ CompleteStage \/ VerificationFails \/ StepFails
  \/ BuildReceipt \/ RecordFinal \/ CommitPointer
  \/ RecordRejected \/ Conclude \/ Answer

Next ==
  \/ \E c \in Candidates : Activate(c)
  \/ \E c \in Candidates, a \in Authorizations : Recover(c, a)
  \/ ManagerStep
  \/ Crash \/ WriteBack \/ PowerLoss
  \/ ReadPointer \/ FinishResolve \/ RagStops

Spec == Init /\ [][Next]_vars

\* The manager's code runs on once called, and the kubelet keeps starting the
\* RAG container, whose boot runs the resolver to its end.
FairSpec ==
  Spec /\ WF_vars(ManagerStep) /\ WF_vars(ReadPointer) /\ WF_vars(FinishResolve)
-----------------------------------------------------------------------------
(* Properties *)

OpPcs == {"answer", "stage", "receipt", "final", "commit", "reject", "conclude"}
           \cup PreparationStages
RunningOp ==
  [pc : OpPcs, cand : Candidates, before : Pointer,
   mode : {"production", "recovery"}, markers : Seq(Marker),
   policy : Policy \cup {NoPolicy}, ctr : Nat,
   verdict : Reasons]
ReceiptAnswer ==
  [reason : Reasons \cup {"ACTIVATION_INTERNAL_ERROR"}, cand : Candidates,
   digest : Digest \cup {NoDigest}, seq : Nat, ctr : Nat]
Commit == [digest : Digest, seq : Sequence, mode : {"production", "recovery"}]

\* Every variable holds a value of the kind the manager's files and the two
\* processes can hold.
TypeOK ==
  /\ pointer \in Pointer
  /\ states \in [Digest -> StateFile]
  /\ package \in [Digest -> Digest \cup {Absent, Broken}]
  /\ unsynced \subseteq Digest
  /\ counterFile \in Nat
  /\ op = Idle \/ op \in RunningOp
  /\ answer = NoAnswer \/ answer \in ReceiptAnswer
  /\ rag \in [pc : {"down", "reading", "up"}, ptr : Pointer]
  /\ faults \in Nat
  /\ committed \subseteq Commit

\* Writer and reader agree: whatever sequence of activations, recoveries and
\* interrupted operations produced current.json, the resolver's pointer
\* checks accept it, so a node is never locked out by its own pointer.
PointerWellFormed == pointer # EmptyPointer => PointerAccepted(pointer)

\* The anti-rollback floor covers every release the node ever committed,
\* in production or in recovery, across crashes and failed writes.
FloorCoversHistory == \A c \in committed : c.seq <= pointer.floor

\* Recovery never turns an old release into a new production release: a
\* pointer that becomes a production pointer carries a sequence above
\* everything the node ever committed.
ProductionMovesForward ==
  [][ pointer' # pointer /\ pointer'.mode = "production"
        => \A c \in committed : c.seq < pointer'.seq ]_vars

\* The files implement the ledger: every commit of the pointer is one move of
\* ReleaseLedger and nothing else the manager writes moves it, so an
\* authorization is spent once and the floor never falls.
Ledger ==
  INSTANCE ReleaseLedger WITH
    release <- [digest |-> pointer.digest, seq |-> pointer.seq],
    mode <- pointer.mode, floor <- pointer.floor,
    spent <- pointer.used, Authority <- {Markers(a) : a \in Authorizations}
ImplementsLedger == Ledger!Spec

\* Receipts are totally ordered evidence: each receipt handed out carries a
\* device counter above every earlier one, over crashes and failed writes.
ReceiptsStrictlyNumbered ==
  [][ answer' # answer /\ answer'.reason \in Reasons
        => answer'.ctr > answer.ctr ]_vars

\* An operation answered with a failure or a refusal left the pointer, floor
\* and active release, as it found it: also when the write of the pointer raised
\* after it took effect, and whatever it met on its failure path.
FailureLeavesPointer ==
  [][ answer' # answer /\ answer'.reason \notin SuccessReasons
        => pointer' = op.before ]_vars

\* The RAG service answers only from a release the node committed, whose
\* package is that release, and whose sequence the floor covers, even when
\* the pointer moved between the resolver's reads.
ServesCommittedRelease ==
  rag.pc = "up" =>
    /\ Entry(rag.ptr) \in committed
    /\ package[rag.ptr.digest] = rag.ptr.digest
    /\ rag.ptr.seq <= pointer.floor

\* After a crash or a power loss the node can serve the release its pointer
\* names: the pointer never names an unfinished or damaged release.
PointerServable == pointer # EmptyPointer => Resolves(pointer)

\* A success receipt is the truth: at the moment it is handed out the pointer
\* names the candidate at the candidate's sequence, also when the operation met
\* an error after it had built the receipt or the write of the pointer raised
\* after it took effect. Or the pointer is the one the operation found, with the
\* candidate's digest selected already: the failure path compares digests only
\* (activation.py: 408-412), and a digest submitted under two sequences passes.
SuccessIsCommitted ==
  [][ answer' # answer /\ answer'.reason \in SuccessReasons
        => /\ pointer'.digest = answer'.cand.digest
           /\ pointer'.seq = answer'.cand.sequence \/ pointer' = op.before ]_vars

\* The release at the floor can be put back: the digest that set the floor in
\* production is never refused as a rollback.
FloorDigestRepairable ==
  answer.reason = "SEQUENCE_ROLLBACK" /\ answer.cand.sequence = pointer.floor =>
    [digest |-> answer.cand.digest, seq |-> pointer.floor, mode |-> "production"]
      \notin committed

InFlight == {"stage", "receipt", "final", "commit"} \cup PreparationStages

\* Until it commits or gives up, an operation works on the pointer it read;
\* production operations start above the floor and recoveries hold unspent
\* authority.
OperationGrounded ==
  /\ Running(InFlight \cup {"answer"}) => op.before = pointer
  /\ Running({"reject", "conclude"}) =>
       \/ op.before = pointer
       \/ /\ op.ctr > 0
          /\ pointer.digest = op.cand.digest /\ pointer.seq = op.cand.sequence
  /\ Running(InFlight) /\ op.mode = "production" =>
       /\ op.markers = <<>> /\ op.policy = NoPolicy
       /\ op.cand.sequence > op.before.floor
  /\ Running(InFlight) /\ op.mode = "recovery" =>
       /\ op.before.digest # NoDigest
       /\ \E a \in Authorizations :
            /\ op.markers = Markers(a) /\ op.policy = ServingPolicy(a)
            /\ Elements(op.before.used) \cap Elements(Markers(a)) = {}

\* The counter file is ahead of every receipt, built or handed out.
CountersOrdered ==
  /\ answer.ctr <= counterFile
  /\ op.pc # "idle" =>
       op.ctr <= counterFile /\ (op.ctr = 0 \/ op.ctr > answer.ctr)
  /\ Running({"final", "commit"}) => op.ctr > 0

\* What is selected, and what the RAG service read, was committed.
SelectionRecorded ==
  /\ pointer # EmptyPointer => Entry(pointer) \in committed
  /\ rag.pc # "down" => Entry(rag.ptr) \in committed
  /\ rag.pc = "up" => package[rag.ptr.digest] = rag.ptr.digest

\* The inductive invariant behind the theorems of ActivationProofs: the code
\* never gets into a state from which a legal step breaks a safety property.
IInv ==
  /\ TypeOK
  /\ PointerWellFormed
  /\ FloorCoversHistory
  /\ OperationGrounded
  /\ CountersOrdered
  /\ SelectionRecorded

\* A node with a committed release is brought back into service.
ServiceResumes == pointer # EmptyPointer ~> rag.pc = "up"
=============================================================================

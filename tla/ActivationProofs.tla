-------------------------- MODULE ActivationProofs --------------------------
(***************************************************************************)
(* Theorems about Activation for every set of releases, candidates and     *)
(* authorizations, every combination of faults and every bound: types, the *)
(* inductive invariant, what follows from it, and the refinement of        *)
(* ReleaseLedger. The last section is about releases as they are governed. *)
(***************************************************************************)
EXTENDS Activation, TLAPS

-----------------------------------------------------------------------------
(* Sequences of replay markers *)

LEMMA MarkersType ==
  ASSUME NEW a \in Authorizations
  PROVE  Markers(a) \in Seq(Marker)
<1>1. a.id \in AuthId /\ a.nonce \in Nonce
  BY AuthorizationAssumption
<1>2. /\ <<"id", a.id>> \in Marker
      /\ <<"authorization", a.id>> \in Marker
      /\ <<"nonce", a.nonce>> \in Marker
  BY <1>1 DEF Marker
<1> QED BY <1>2 DEF Markers

LEMMA ServingPolicyType ==
  ASSUME NEW a \in Authorizations
  PROVE  ServingPolicy(a) \in Policy \cup {NoPolicy}
BY AuthorizationAssumption DEF ServingPolicy, Policy

-----------------------------------------------------------------------------
(* Type correctness *)

LEMMA EmptyPointerType == EmptyPointer \in Pointer
BY DEF EmptyPointer, Pointer

LEMMA RecordStateType ==
  ASSUME states \in [Digest -> StateFile], NEW c \in Candidates,
         NEW st \in ReleaseStates, NEW o, RecordState(c, st, o)
  PROVE  states' \in [Digest -> StateFile]
<1>1. c.digest \in Digest /\ c.sequence \in Nat
  BY CandidateAssumption DEF Sequence
<1>2. CASE Applied(o)
  <2>1. states' = [states EXCEPT ![c.digest] =
                     [seq |-> c.sequence, state |-> st,
                      prev |-> states[c.digest].state]]
    BY <1>2 DEF RecordState
  <2>2. [seq |-> c.sequence, state |-> st, prev |-> states[c.digest].state]
          \in StateFile
    BY <1>1 DEF StateFile
  <2> QED BY <2>1, <2>2
<1>3. CASE ~Applied(o)
  BY <1>3 DEF RecordState
<1> QED BY <1>2, <1>3

LEMMA Moves ==
  ASSUME NEW o \in RunningOp, NEW pc \in OpPcs
  PROVE  [o EXCEPT !.pc = pc] \in RunningOp
BY DEF RunningOp

LEMMA MovesNumbered ==
  ASSUME NEW o \in RunningOp, NEW pc \in OpPcs, NEW n \in Nat
  PROVE  [o EXCEPT !.pc = pc, !.ctr = n] \in RunningOp
BY DEF RunningOp

LEMMA RunningType ==
  ASSUME TypeOK, Running(OpPcs)
  PROVE  op \in RunningOp
BY DEF TypeOK, Running, Idle, OpPcs, PreparationStages

LEMMA SomeStepRuns ==
  ASSUME ManagerStep
  PROVE  Running(OpPcs)
BY DEF ManagerStep, StagePackage, CompleteStage, VerificationFails, StepFails,
       BuildReceipt, RecordFinal, CommitPointer, RecordRejected, Conclude, Answer,
       Running, OpPcs, PreparationStages

LEMMA SuccessAnswerType ==
  ASSUME NEW o \in RunningOp, op = o
  PROVE  SuccessAnswer \in ReceiptAnswer
<1>1. o.cand.digest \in Digest /\ o.cand.sequence \in Nat /\ o.ctr \in Nat
  BY CandidateAssumption DEF RunningOp, Sequence
<1> QED BY <1>1 DEF SuccessAnswer, ReceiptAnswer, Reasons, RunningOp

LEMMA InternalErrorType ==
  ASSUME TypeOK, NEW o \in RunningOp, op = o
  PROVE  InternalError \in ReceiptAnswer
<1>1. answer.ctr \in Nat
  BY DEF TypeOK, NoAnswer, ReceiptAnswer
<1> QED BY <1>1 DEF InternalError, ReceiptAnswer, RunningOp

LEMMA NextCounterType == TypeOK => NextCounter \in Nat /\ NextCounter > counterFile
BY DEF TypeOK, NextCounter, Max2, Pointer

LEMMA InitTypeOK == Init => TypeOK
BY EmptyPointerType
   DEF Init, TypeOK, NoStateFile, StateFile, Down

LEMMA BeginType ==
  ASSUME TypeOK, NEW c \in Candidates, NEW mode \in {"production", "recovery"},
         NEW markers \in Seq(Marker), NEW policy \in Policy \cup {NoPolicy},
         Begin(c, mode, markers, policy)
  PROVE  op' \in RunningOp
<1>1. pointer \in Pointer
  BY DEF TypeOK
<1> QED BY <1>1 DEF Begin, RunningOp, OpPcs, Reasons

LEMMA DecideType ==
  ASSUME TypeOK, NEW c \in Candidates, NEW v \in Reasons, Decide(c, v)
  PROVE  op' \in RunningOp
<1>1. pointer \in Pointer /\ <<>> \in Seq(Marker)
  BY DEF TypeOK
<1> QED BY <1>1 DEF Decide, RunningOp, OpPcs

LEMMA TypeStep == TypeOK /\ [Next]_vars => TypeOK'
<1> SUFFICES ASSUME TypeOK, [Next]_vars PROVE TypeOK'
  OBVIOUS
<1>1. ASSUME NEW c \in Candidates, Activate(c) PROVE TypeOK'
  <2>1. <<>> \in Seq(Marker)
    OBVIOUS
  <2>2. op' \in RunningOp
    BY <1>1, <2>1, BeginType, DecideType DEF Activate, Reasons
  <2> QED BY <1>1, <2>2 DEF Activate, TypeOK, durable
<1>2. ASSUME NEW c \in Candidates, NEW a \in Authorizations, Recover(c, a)
      PROVE TypeOK'
  <2>1. op' \in RunningOp
    BY <1>2, BeginType, DecideType, MarkersType, ServingPolicyType
       DEF Recover, Reasons
  <2> QED BY <1>2, <2>1 DEF Recover, TypeOK, durable
<1>3. CASE ManagerStep
  <2>0. /\ op \in RunningOp /\ op.cand \in Candidates
        /\ op.cand.digest \in Digest
        /\ op.cand.sequence \in Nat /\ op.cand.content \in Digest \cup {Broken}
    BY <1>3, SomeStepRuns, RunningType, CandidateAssumption DEF RunningOp, Sequence
  <2> DEFINE to(pc) == [op EXCEPT !.pc = pc]
  <2>t. \A pc \in OpPcs : to(pc) \in RunningOp
    BY <2>0, Moves
  <2>1. CASE StagePackage
    <3>1. op' = to("STAGED")
      BY <2>1 DEF StagePackage
    <3>2. op' \in RunningOp
      BY <2>t, <3>1 DEF OpPcs, PreparationStages
    <3> QED BY <2>1, <2>0, <3>2 DEF StagePackage, TypeOK
  <2>2. CASE CompleteStage
    <3>1. PICK o \in Outcomes :
            /\ RecordState(op.cand, op.pc, o)
            /\ op' = to(IF Raised(o) THEN "reject" ELSE NextStage[op.pc])
            /\ Tally(o)
      BY <2>2 DEF CompleteStage
    <3>2. op.pc \in PreparationStages
      BY <2>2 DEF CompleteStage, Running
    <3>3. NextStage[op.pc] \in OpPcs
      BY <3>2 DEF NextStage, OpPcs, PreparationStages
    <3>4. op' \in RunningOp
      BY <2>t, <3>1, <3>3 DEF OpPcs
    <3>5. states' \in [Digest -> StateFile]
      BY <2>0, <3>1, <3>2, RecordStateType DEF TypeOK, ReleaseStates
    <3> QED BY <2>2, <3>1, <3>4, <3>5 DEF CompleteStage, TypeOK, Tally
  <2>3. CASE VerificationFails \/ StepFails
    <3>1. op' = to("reject")
      BY <2>3 DEF VerificationFails, StepFails
    <3>2. op' \in RunningOp
      BY <2>t, <3>1 DEF OpPcs
    <3> QED BY <2>3, <3>2 DEF VerificationFails, StepFails, TypeOK, durable
  <2>4. CASE BuildReceipt
    <3>1. PICK o \in Outcomes :
            /\ BurnCounter(o)
            /\ op' = IF Raised(o) THEN to("reject")
                      ELSE [op EXCEPT !.pc = "final", !.ctr = NextCounter]
            /\ Tally(o)
      BY <2>4 DEF BuildReceipt
    <3>2. op' \in RunningOp
      BY <2>t, <2>0, <3>1, NextCounterType, MovesNumbered DEF OpPcs
    <3> QED BY <2>4, <3>1, <3>2, NextCounterType
            DEF BuildReceipt, BurnCounter, TypeOK, Tally
  <2>5. CASE RecordFinal
    <3>1. PICK o \in Outcomes :
            /\ RecordState(op.cand, FinalState(op.mode), o)
            /\ op' = to(IF Raised(o) THEN "reject" ELSE "commit")
            /\ Tally(o)
      BY <2>5 DEF RecordFinal
    <3>2. op' \in RunningOp
      BY <2>t, <3>1 DEF OpPcs
    <3>3. states' \in [Digest -> StateFile]
      BY <2>0, <3>1, RecordStateType DEF TypeOK, FinalState, ReleaseStates
    <3> QED BY <2>5, <3>1, <3>2, <3>3 DEF RecordFinal, TypeOK, Tally
  <2>6. CASE CommitPointer
    <3>1. PICK o \in Outcomes :
            /\ IF Applied(o)
                 THEN /\ pointer' = NextPointer
                      /\ committed' = committed \cup {Entry(NextPointer)}
                 ELSE UNCHANGED <<pointer, committed>>
            /\ IF Raised(o) THEN op' = to("reject") /\ UNCHANGED answer
                            ELSE op' = Idle /\ answer' = SuccessAnswer
            /\ Tally(o)
      BY <2>6 DEF CommitPointer
    <3>2. NextPointer \in Pointer
      BY <2>0, CandidateAssumption
         DEF NextPointer, Pointer, RunningOp, Max2, Sequence
    <3>3. Entry(NextPointer) \in Commit
      BY <2>0, CandidateAssumption DEF Entry, NextPointer, Commit, RunningOp
    <3>4. pointer' \in Pointer /\ committed' \subseteq Commit
      BY <3>1, <3>2, <3>3 DEF TypeOK
    <3>5. op' = Idle \/ op' \in RunningOp
      BY <2>t, <3>1 DEF OpPcs
    <3>6. answer' = NoAnswer \/ answer' \in ReceiptAnswer
      BY <2>0, <3>1, SuccessAnswerType DEF TypeOK
    <3> QED BY <2>6, <3>1, <3>4, <3>5, <3>6 DEF CommitPointer, TypeOK, Tally
  <2>7. CASE RecordRejected
    <3>1. PICK o \in Outcomes : RecordState(op.cand, "REJECTED", o) /\ Tally(o)
      BY <2>7 DEF RecordRejected
    <3>2. op' = to("conclude")
      BY <2>7 DEF RecordRejected
    <3>3. op' \in RunningOp
      BY <2>t, <3>2 DEF OpPcs
    <3>4. states' \in [Digest -> StateFile]
      BY <2>0, <3>1, RecordStateType DEF TypeOK, ReleaseStates
    <3> QED BY <2>7, <3>1, <3>3, <3>4 DEF RecordRejected, TypeOK, Tally
  <2>8. CASE Conclude
    <3>1. to("answer") \in RunningOp
      BY <2>t DEF OpPcs
    <3> QED BY <2>8, <2>0, <3>1, SuccessAnswerType, InternalErrorType
            DEF Conclude, TypeOK, durable
  <2>9. CASE Answer
    <3>1. PICK o \in Outcomes :
            /\ BurnCounter(o)
            /\ answer' = IF Raised(o) THEN InternalError ELSE StandingAnswer
            /\ Tally(o)
      BY <2>9 DEF Answer
    <3>2. op.verdict \in Reasons
      BY <2>0 DEF RunningOp
    <3>3. /\ op.before.digest \in Digest \cup {NoDigest} /\ op.before.seq \in Nat
          /\ op.cand.sequence \in Nat
      BY <2>0 DEF RunningOp, Pointer
    <3>4. StandingAnswer \in ReceiptAnswer
      BY <2>0, <3>2, <3>3, NextCounterType DEF StandingAnswer, ReceiptAnswer
    <3>5. op' = Idle
      BY <2>9 DEF Answer
    <3> QED BY <2>9, <2>0, <3>1, <3>4, <3>5, InternalErrorType, NextCounterType
            DEF Answer, BurnCounter, TypeOK, Tally
  <2> QED
    BY <1>3, <2>1, <2>2, <2>3, <2>4, <2>5, <2>6, <2>7, <2>8, <2>9 DEF ManagerStep
<1>4. CASE Crash
  BY <1>4 DEF Crash, TypeOK, durable
<1>5. CASE WriteBack
  BY <1>5 DEF WriteBack, TypeOK
<1>6. CASE PowerLoss
  <2>1. package' \in [Digest -> Digest \cup {Absent, Broken}]
    BY <1>6 DEF PowerLoss, TypeOK
  <2> QED BY <1>6, <2>1, EmptyPointerType DEF PowerLoss, TypeOK, Down
<1>7. CASE ReadPointer
  BY <1>7 DEF ReadPointer, TypeOK, durable
<1>8. CASE FinishResolve \/ RagStops
  <2>1. [rag EXCEPT !.pc = "up"] \in [pc : {"down", "reading", "up"}, ptr : Pointer]
    BY DEF TypeOK
  <2>2. Down \in [pc : {"down", "reading", "up"}, ptr : Pointer]
    BY EmptyPointerType DEF Down
  <2> QED BY <1>8, <2>1, <2>2 DEF FinishResolve, RagStops, TypeOK, durable
<1>9. CASE UNCHANGED vars
  BY <1>9 DEF vars, durable, TypeOK
<1> QED
  BY <1>1, <1>2, <1>3, <1>4, <1>5, <1>6, <1>7, <1>8, <1>9 DEF Next

\* TypeOK holds throughout: what the manager's files and the two processes
\* hold, whatever fails.
THEOREM TypeCorrect == Spec => []TypeOK
<1>1. Init => TypeOK
  BY InitTypeOK
<1>2. TypeOK /\ [Next]_vars => TypeOK'
  BY TypeStep
<1> QED BY <1>1, <1>2, PTL DEF Spec

-----------------------------------------------------------------------------
(* Logs of replay markers *)

LEMMA ElementsConcat ==
  ASSUME NEW S, NEW s \in Seq(S), NEW t \in Seq(S)
  PROVE  Elements(s \o t) = Elements(s) \cup Elements(t)
<1>1. ASSUME NEW x \in Elements(s) PROVE x \in Elements(s \o t)
  <2>1. PICK i \in 1..Len(s) : x = s[i]
    BY DEF Elements
  <2>2. i \in 1..Len(s \o t) /\ (s \o t)[i] = x
    BY <2>1
  <2> QED BY <2>2 DEF Elements
<1>2. ASSUME NEW x \in Elements(t) PROVE x \in Elements(s \o t)
  <2>1. PICK i \in 1..Len(t) : x = t[i]
    BY DEF Elements
  <2>2. i + Len(s) \in 1..Len(s \o t) /\ (s \o t)[i + Len(s)] = x
    BY <2>1
  <2> QED BY <2>2 DEF Elements
<1>3. ASSUME NEW x \in Elements(s \o t) PROVE x \in Elements(s) \cup Elements(t)
  <2>1. PICK i \in 1..Len(s \o t) : x = (s \o t)[i]
    BY DEF Elements
  <2>2. CASE i <= Len(s)
    BY <2>1, <2>2 DEF Elements
  <2>3. CASE i > Len(s)
    <3>1. i - Len(s) \in 1..Len(t) /\ x = t[i - Len(s)]
      BY <2>1, <2>3
    <3> QED BY <3>1 DEF Elements
  <2> QED BY <2>1, <2>2, <2>3
<1> QED BY <1>1, <1>2, <1>3

LEMMA NoDuplicatesConcat ==
  ASSUME NEW S, NEW s \in Seq(S), NEW t \in Seq(S),
         NoDuplicates(s), NoDuplicates(t), Elements(s) \cap Elements(t) = {}
  PROVE  NoDuplicates(s \o t)
<1> SUFFICES ASSUME NEW i \in 1..Len(s \o t), NEW j \in 1..Len(s \o t),
                    (s \o t)[i] = (s \o t)[j]
             PROVE  i = j
  BY DEF NoDuplicates
<1>1. ASSUME NEW k \in 1..Len(s \o t)
      PROVE  \/ k \in 1..Len(s) /\ (s \o t)[k] = s[k]
             \/ k - Len(s) \in 1..Len(t) /\ (s \o t)[k] = t[k - Len(s)]
  OBVIOUS
<1>2. CASE i \in 1..Len(s) /\ j \in 1..Len(s)
  BY <1>2 DEF NoDuplicates
<1>3. CASE i - Len(s) \in 1..Len(t) /\ j - Len(s) \in 1..Len(t)
  <2>1. t[i - Len(s)] = t[j - Len(s)]
    BY <1>3
  <2>2. i - Len(s) = j - Len(s)
    BY <1>3, <2>1 DEF NoDuplicates
  <2> QED BY <2>2
<1>4. CASE i \in 1..Len(s) /\ j - Len(s) \in 1..Len(t)
  <2>1. s[i] \in Elements(s) /\ t[j - Len(s)] \in Elements(t)
    BY <1>4 DEF Elements
  <2>2. s[i] = t[j - Len(s)]
    BY <1>4
  <2> QED BY <2>1, <2>2
<1>5. CASE j \in 1..Len(s) /\ i - Len(s) \in 1..Len(t)
  <2>1. s[j] \in Elements(s) /\ t[i - Len(s)] \in Elements(t)
    BY <1>5 DEF Elements
  <2>2. s[j] = t[i - Len(s)]
    BY <1>5
  <2> QED BY <2>1, <2>2
<1> QED BY <1>1, <1>2, <1>3, <1>4, <1>5

LEMMA MarkersShape ==
  ASSUME NEW a \in Authorizations
  PROVE  /\ NoDuplicates(Markers(a))
         /\ Len(Markers(a)) > 0
         /\ ServingPolicy(a) # NoPolicy =>
              {<<"authorization", ServingPolicy(a).id>>,
               <<"nonce", ServingPolicy(a).nonce>>} \subseteq Elements(Markers(a))
<1>1. CASE a.kind = "exceptional"
  <2>1. Markers(a) = << <<"authorization", a.id>>, <<"nonce", a.nonce>> >>
    BY <1>1 DEF Markers
  <2>2. ServingPolicy(a) = [id |-> a.id, nonce |-> a.nonce]
    BY <1>1 DEF ServingPolicy
  <2>3. <<"authorization", a.id>> # <<"nonce", a.nonce>>
    OBVIOUS
  <2> QED BY <2>1, <2>2, <2>3 DEF NoDuplicates, Elements
<1>2. CASE a.kind # "exceptional"
  BY <1>2 DEF Markers, ServingPolicy, NoDuplicates
<1> QED BY <1>1, <1>2

-----------------------------------------------------------------------------
(* What an operation about to commit installs *)

\* The authority of a recovery: the markers it adds are fresh.
LEMMA SpendsFreshAuthority ==
  ASSUME TypeOK, PointerWellFormed, OperationGrounded, Running({"commit"})
  PROVE  /\ op.mode = "production" =>
              /\ NextPointer.used = pointer.used
              /\ NextPointer.policy = NoPolicy
         /\ op.mode = "recovery" =>
              /\ NextPointer.used # <<>>
              /\ NextPointer.policy # NoPolicy =>
                   {<<"authorization", NextPointer.policy.id>>,
                    <<"nonce", NextPointer.policy.nonce>>}
                     \subseteq Elements(NextPointer.used)
         /\ NoDuplicates(NextPointer.used)
<1>1. op \in RunningOp /\ op.before = pointer
  BY RunningType DEF Running, OpPcs, OperationGrounded, InFlight
<1>2. pointer.used \in Seq(Marker) /\ op.markers \in Seq(Marker)
  BY <1>1 DEF TypeOK, Pointer, RunningOp
<1>3. NoDuplicates(pointer.used)
  BY DEF PointerWellFormed, PointerAccepted, EmptyPointer, NoDuplicates
<1>4. /\ NextPointer.used = pointer.used \o op.markers
      /\ NextPointer.policy = op.policy
  BY <1>1 DEF NextPointer
<1>5. CASE op.mode = "production"
  <2>1. op.markers = <<>> /\ op.policy = NoPolicy
    BY <1>5 DEF OperationGrounded, Running, InFlight
  <2>2. pointer.used \o op.markers = pointer.used
    BY <1>2, <2>1
  <2> QED BY <1>3, <1>4, <1>5, <2>1, <2>2
<1>6. CASE op.mode = "recovery"
  <2>1. PICK a \in Authorizations :
          /\ op.markers = Markers(a) /\ op.policy = ServingPolicy(a)
          /\ Elements(pointer.used) \cap Elements(Markers(a)) = {}
    BY <1>1, <1>6 DEF OperationGrounded, Running, InFlight
  <2>2. NoDuplicates(pointer.used \o op.markers)
    BY <1>2, <1>3, <2>1, MarkersShape, NoDuplicatesConcat
  <2>3. Elements(op.markers) \subseteq Elements(pointer.used \o op.markers)
    BY <1>2, ElementsConcat
  <2>4. pointer.used \o op.markers # <<>>
    <3>1. Len(op.markers) > 0
      BY <2>1, MarkersShape
    <3>2. Len(pointer.used \o op.markers) = Len(pointer.used) + Len(op.markers)
      BY <1>2
    <3>3. Len(pointer.used) \in Nat /\ Len(op.markers) \in Nat
      BY <1>2
    <3>4. Len(<<>>) = 0
      OBVIOUS
    <3> QED BY <3>1, <3>2, <3>3, <3>4
  <2> QED BY <1>4, <1>6, <2>1, <2>2, <2>3, <2>4, MarkersShape
<1> QED BY <1>1, <1>3, <1>4, <1>5, <1>6 DEF RunningOp

LEMMA NextPointerAccepted ==
  ASSUME IInv, Running({"commit"})
  PROVE  /\ PointerAccepted(NextPointer)
         /\ NextPointer.floor >= pointer.floor
         /\ NextPointer.floor >= NextPointer.seq
         /\ op.mode = "production" => NextPointer.seq > pointer.floor
<1>1. op \in RunningOp /\ op.before = pointer
  BY RunningType DEF IInv, Running, OpPcs, OperationGrounded, InFlight
<1>2. /\ op.cand.digest \in Digest /\ op.cand.sequence \in Nat \ {0}
      /\ op.ctr \in Nat \ {0} /\ op.mode \in {"production", "recovery"}
  BY <1>1, CandidateAssumption
     DEF RunningOp, Sequence, IInv, CountersOrdered, Running
<1>3. pointer.floor \in Nat
  BY DEF IInv, TypeOK, Pointer
<1>4. op.mode = "production" => op.cand.sequence > pointer.floor
  BY <1>1 DEF IInv, OperationGrounded, Running, InFlight
<1>5. /\ NextPointer.digest = op.cand.digest /\ NextPointer.seq = op.cand.sequence
      /\ NextPointer.floor = Max2(pointer.floor, op.cand.sequence)
      /\ NextPointer.mode = op.mode /\ NextPointer.ctr = op.ctr
  BY <1>1 DEF NextPointer
<1> QED
  BY <1>2, <1>3, <1>4, <1>5, SentinelAssumption, SpendsFreshAuthority
     DEF PointerAccepted, Max2, IInv

-----------------------------------------------------------------------------
(* Preservation, one lemma for each part of the invariant *)

\* Only CommitPointer moves the pointer, and always to NextPointer.
LEMMA PointerMoves ==
  ASSUME [Next]_vars
  PROVE  \/ UNCHANGED <<pointer, committed>>
         \/ /\ Running({"commit"})
            /\ pointer' = NextPointer
            /\ committed' = committed \cup {Entry(NextPointer)}
BY DEF Next, ManagerStep, Activate, Recover, StagePackage, CompleteStage,
       VerificationFails, StepFails, BuildReceipt, RecordFinal, CommitPointer,
       RecordRejected, Conclude, Answer, Crash, WriteBack, PowerLoss,
       ReadPointer, FinishResolve, RagStops, vars, durable

LEMMA PointerStep ==
  ASSUME IInv, [Next]_vars
  PROVE  /\ PointerWellFormed' /\ FloorCoversHistory'
         /\ committed \subseteq committed'
         /\ (pointer # EmptyPointer => Entry(pointer) \in committed)'
<1>1. CASE UNCHANGED <<pointer, committed>>
  BY <1>1 DEF IInv, PointerWellFormed, PointerAccepted, FloorCoversHistory,
              SelectionRecorded, Entry
<1>2. CASE /\ Running({"commit"})
           /\ pointer' = NextPointer
           /\ committed' = committed \cup {Entry(NextPointer)}
  <2>1. PointerWellFormed'
    BY <1>2, NextPointerAccepted DEF PointerWellFormed, PointerAccepted
  <2>2. ASSUME NEW c \in committed' PROVE c.seq <= pointer'.floor
    <3>1. CASE c \in committed
      <4>1. c.seq <= pointer.floor /\ c.seq \in Nat
        BY <3>1 DEF IInv, FloorCoversHistory, TypeOK, Commit, Sequence
      <4>2. pointer.floor \in Nat /\ NextPointer.floor >= pointer.floor
        BY <1>2, NextPointerAccepted DEF IInv, TypeOK, Pointer
      <4>3. pointer'.floor \in Nat
        BY TypeStep DEF IInv, TypeOK, Pointer
      <4> QED BY <1>2, <4>1, <4>2, <4>3
    <3>2. CASE c = Entry(NextPointer)
      BY <1>2, <3>2, NextPointerAccepted DEF Entry
    <3> QED BY <1>2, <3>1, <3>2
  <2>3. FloorCoversHistory'
    BY <2>2 DEF FloorCoversHistory
  <2> QED BY <1>2, <2>1, <2>3 DEF Entry
<1> QED BY <1>1, <1>2, PointerMoves

\* A package that is there keeps its content while the RAG service is up.
LEMMA RagStep ==
  ASSUME IInv, [Next]_vars
  PROVE  /\ (rag.pc # "down" => Entry(rag.ptr) \in committed)'
         /\ (rag.pc = "up" => package[rag.ptr.digest] = rag.ptr.digest)'
<1>1. /\ committed \subseteq committed'
      /\ rag \in [pc : {"down", "reading", "up"}, ptr : Pointer]
      /\ rag.pc # "down" => Entry(rag.ptr) \in committed
      /\ rag.pc = "up" => package[rag.ptr.digest] = rag.ptr.digest
  BY PointerStep DEF IInv, TypeOK, SelectionRecorded
<1>2. CASE UNCHANGED <<rag, package>>
  BY <1>1, <1>2 DEF Entry
<1>3. CASE StagePackage
  <2>1. rag' = rag
    BY <1>3 DEF StagePackage
  <2>2. op \in RunningOp /\ op.cand.digest \in Digest
    BY <1>3, RunningType, CandidateAssumption
       DEF StagePackage, Running, OpPcs, RunningOp, IInv
  <2>3. rag.pc = "up" => rag.ptr.digest \in Digest
    <3>1. rag.pc = "up" => rag.ptr.digest \in {c.digest : c \in committed}
      BY <1>1 DEF Entry
    <3> QED BY <3>1 DEF IInv, TypeOK, Commit
  <2>4. rag.pc = "up" => package'[rag.ptr.digest] = rag.ptr.digest
    BY <1>1, <1>3, <2>2, <2>3, SentinelAssumption DEF StagePackage, IInv, TypeOK
  <2> QED BY <1>1, <2>1, <2>4 DEF Entry
<1>4. CASE PowerLoss
  BY <1>4 DEF PowerLoss, Down
<1>5. CASE ReadPointer
  <2>1. rag' = [pc |-> "reading", ptr |-> pointer] /\ pointer # EmptyPointer
    BY <1>5 DEF ReadPointer, PointerAccepted, EmptyPointer
  <2>2. Entry(pointer) \in committed
    BY <2>1 DEF IInv, SelectionRecorded
  <2> QED BY <1>1, <2>1, <2>2 DEF Entry
<1>6. CASE FinishResolve
  <2>1. CASE rag' = Down
    BY <2>1 DEF Down
  <2>2. CASE /\ package[rag.ptr.digest] = rag.ptr.digest
             /\ rag' = [rag EXCEPT !.pc = "up"]
    <3>1. rag'.ptr = rag.ptr /\ rag.pc = "reading" /\ package' = package
      BY <1>1, <1>6, <2>2 DEF FinishResolve, durable
    <3> QED BY <1>1, <2>2, <3>1 DEF Entry
  <2> QED BY <1>6, <2>1, <2>2 DEF FinishResolve, PackageAccepted
<1>7. CASE RagStops
  BY <1>7 DEF RagStops, Down
<1>8. \/ UNCHANGED <<rag, package>>
      \/ StagePackage \/ PowerLoss \/ ReadPointer \/ FinishResolve \/ RagStops
  BY DEF Next, ManagerStep, Activate, Recover, CompleteStage,
         VerificationFails, StepFails, BuildReceipt, RecordFinal, CommitPointer,
         RecordRejected, Conclude, Answer, Crash, WriteBack, vars, durable
<1> QED BY <1>2, <1>3, <1>4, <1>5, <1>6, <1>7, <1>8

\* What an operation's next stage leaves of it.
LEMMA MoveKeeps ==
  ASSUME NEW o \in RunningOp, NEW pc \in OpPcs
  PROVE  /\ [o EXCEPT !.pc = pc].pc = pc
         /\ [o EXCEPT !.pc = pc].cand = o.cand
         /\ [o EXCEPT !.pc = pc].before = o.before
         /\ [o EXCEPT !.pc = pc].mode = o.mode
         /\ [o EXCEPT !.pc = pc].markers = o.markers
         /\ [o EXCEPT !.pc = pc].policy = o.policy
         /\ [o EXCEPT !.pc = pc].ctr = o.ctr
         /\ [o EXCEPT !.pc = pc].verdict = o.verdict
BY DEF RunningOp

LEMMA NumberedMoveKeeps ==
  ASSUME NEW o \in RunningOp, NEW pc \in OpPcs, NEW n \in Nat
  PROVE  /\ [o EXCEPT !.pc = pc, !.ctr = n].pc = pc
         /\ [o EXCEPT !.pc = pc, !.ctr = n].cand = o.cand
         /\ [o EXCEPT !.pc = pc, !.ctr = n].before = o.before
         /\ [o EXCEPT !.pc = pc, !.ctr = n].mode = o.mode
         /\ [o EXCEPT !.pc = pc, !.ctr = n].markers = o.markers
         /\ [o EXCEPT !.pc = pc, !.ctr = n].policy = o.policy
         /\ [o EXCEPT !.pc = pc, !.ctr = n].ctr = n
         /\ [o EXCEPT !.pc = pc, !.ctr = n].verdict = o.verdict
BY DEF RunningOp

\* The ways an operation goes on: it starts, moves to another stage, is given
\* its receipt counter, or is over.
Starts ==
  /\ op' \in RunningOp /\ op'.before = pointer /\ op'.ctr = 0
  /\ UNCHANGED <<pointer, counterFile, answer>>
  /\ op'.pc \in {"stage", "answer"}
  /\ op'.pc = "stage" /\ op'.mode = "production" =>
       /\ op'.markers = <<>> /\ op'.policy = NoPolicy
       /\ op'.cand.sequence > pointer.floor
  /\ op'.pc = "stage" /\ op'.mode = "recovery" =>
       /\ pointer.digest # NoDigest
       /\ \E a \in Authorizations :
            /\ op'.markers = Markers(a) /\ op'.policy = ServingPolicy(a)
            /\ Elements(pointer.used) \cap Elements(Markers(a)) = {}

\* A stage follows another; only a failing operation is judged again.
StageFollows(pc) ==
  \/ /\ op.pc \in InFlight \ {"commit"} /\ pc \in InFlight \cup {"reject"}
     /\ (pc \in {"final", "commit"} => op.pc = "final")
  \/ op.pc = "reject" /\ pc = "conclude"
  \/ op.pc = "conclude" /\ pc = "answer" /\ pointer.digest # op.cand.digest

Proceeds ==
  /\ op \in RunningOp
  /\ UNCHANGED <<pointer, answer>>
  /\ counterFile' >= counterFile
  /\ \E pc \in OpPcs : StageFollows(pc) /\ op' = [op EXCEPT !.pc = pc]

Numbers ==
  /\ op \in RunningOp
  /\ UNCHANGED <<pointer, answer>>
  /\ op.pc = "receipt"
  /\ counterFile' = NextCounter
  /\ op' = [op EXCEPT !.pc = "final", !.ctr = NextCounter]

Commits ==
  /\ op \in RunningOp
  /\ op.pc = "commit"
  /\ UNCHANGED counterFile
  /\ \/ op' = [op EXCEPT !.pc = "reject"] /\ pointer' = pointer /\ answer' = answer
     \/ op' = [op EXCEPT !.pc = "reject"] /\ pointer' = NextPointer /\ answer' = answer
     \/ op' = Idle /\ answer' = SuccessAnswer /\ pointer' = NextPointer

Ends ==
  /\ op' = Idle
  /\ UNCHANGED pointer
  /\ counterFile' >= counterFile
  /\ \/ UNCHANGED answer
     \/ /\ op \in RunningOp /\ op.pc = "conclude"
        /\ pointer.digest = op.cand.digest
        /\ answer' = IF op.ctr = 0 THEN InternalError ELSE SuccessAnswer
     \/ /\ op \in RunningOp /\ op.pc = "answer"
        /\ answer' = InternalError
     \/ /\ op \in RunningOp /\ op.pc = "answer"
        /\ counterFile' = NextCounter
        /\ answer' = StandingAnswer

\* An operator calls the manager.
Enters ==
  \/ \E c \in Candidates : Activate(c)
  \/ \E c \in Candidates, a \in Authorizations : Recover(c, a)

LEMMA EntryStarts ==
  ASSUME TypeOK, Enters
  PROVE  Starts
<1>0. pointer.floor \in Nat /\ pointer \in Pointer
  BY DEF TypeOK, Pointer
<1>1. ASSUME NEW c \in Candidates, Activate(c) PROVE Starts
  <2>1. CASE \E v \in Reasons : Decide(c, v)
    BY <1>1, <2>1, DecideType DEF Activate, Decide, Starts, durable
  <2>2. CASE ~IsRollback(c) /\ ~IsAlreadyActive(c) /\ Begin(c, "production", <<>>, NoPolicy)
    <3>1. op' \in RunningOp
      <4>1. <<>> \in Seq(Marker)
        OBVIOUS
      <4> QED BY <2>2, <4>1, BeginType
    <3>2. c.sequence > pointer.floor
      BY <1>0, <2>2, CandidateAssumption DEF IsRollback, IsAlreadyActive, Sequence
    <3> QED BY <1>1, <2>2, <3>1, <3>2 DEF Activate, Begin, Starts, durable
  <2> QED BY <1>1, <2>1, <2>2 DEF Activate, Reasons
<1>2. ASSUME NEW c \in Candidates, NEW a \in Authorizations, Recover(c, a)
      PROVE  Starts
  <2>1. CASE Decide(c, "RECOVERY_NOT_AUTHORIZED")
    BY <1>2, <2>1, DecideType DEF Recover, Decide, Starts, Reasons, durable
  <2>2. CASE RecoveryValid(c, a) /\ Begin(c, "recovery", Markers(a), ServingPolicy(a))
    <3>1. op' \in RunningOp
      BY <2>2, BeginType, MarkersType, ServingPolicyType
    <3>2. pointer.digest # NoDigest
      BY <2>2, AuthorizationAssumption, SentinelAssumption
         DEF RecoveryValid, ExceptionalValid, PreauthorizedValid
    <3>3. Elements(pointer.used) \cap Elements(Markers(a)) = {}
      <4>1. CASE a.kind = "exceptional"
        BY <2>2, <4>1 DEF RecoveryValid, ExceptionalValid
      <4>2. CASE a.kind # "exceptional"
        <5>1. Elements(Markers(a)) = {<<"id", a.id>>}
          BY <4>2 DEF Markers, Elements
        <5>. QED BY <2>2, <4>2, <5>1 DEF RecoveryValid, PreauthorizedValid
      <4>. QED BY <4>1, <4>2
    <3> QED BY <1>2, <2>2, <3>1, <3>2, <3>3 DEF Recover, Begin, Starts, durable
  <2> QED BY <1>2, <2>1, <2>2 DEF Recover
<1> QED BY <1>1, <1>2 DEF Enters

LEMMA StepKinds ==
  ASSUME TypeOK, [Next]_vars
  PROVE  \/ Enters /\ Starts
         \/ Proceeds \/ Numbers \/ Commits \/ Ends
         \/ UNCHANGED <<pointer, op, answer, counterFile>>
<1>1. CASE ManagerStep
  <2>0. op \in RunningOp /\ counterFile \in Nat /\ NextCounter \in Nat
        /\ NextCounter > counterFile
    BY <1>1, SomeStepRuns, RunningType, NextCounterType DEF TypeOK
  <2>1. CASE StagePackage
    BY <2>0, <2>1 DEF StagePackage, Proceeds, StageFollows, Running, OpPcs, InFlight,
                      PreparationStages
  <2>2. CASE CompleteStage
    <3>1. PICK o \in Outcomes :
            op' = [op EXCEPT !.pc = IF Raised(o) THEN "reject" ELSE NextStage[op.pc]]
      BY <2>2 DEF CompleteStage
    <3>2. op.pc \in PreparationStages
      BY <2>2 DEF CompleteStage, Running
    <3>3. NextStage[op.pc] \in PreparationStages \cup {"receipt"}
      BY <3>2 DEF NextStage, PreparationStages
    <3> QED BY <2>0, <2>2, <3>1, <3>2, <3>3
            DEF CompleteStage, Proceeds, StageFollows, OpPcs, InFlight, PreparationStages
  <2>3. CASE VerificationFails \/ StepFails
    BY <2>0, <2>3 DEF VerificationFails, StepFails, Proceeds, StageFollows, Running,
                      OpPcs, InFlight, PreparationStages, durable
  <2>4. CASE BuildReceipt
    <3>1. PICK o \in Outcomes :
            /\ BurnCounter(o)
            /\ op' = IF Raised(o) THEN [op EXCEPT !.pc = "reject"]
                      ELSE [op EXCEPT !.pc = "final", !.ctr = NextCounter]
      BY <2>4 DEF BuildReceipt
    <3>2. op.pc = "receipt" /\ UNCHANGED <<pointer, answer>>
      BY <2>4 DEF BuildReceipt, Running
    <3>3. CASE Raised(o)
      <4>1. counterFile' >= counterFile
        BY <2>0, <3>1 DEF BurnCounter
      <4> QED BY <2>0, <3>1, <3>2, <3>3, <4>1
              DEF Proceeds, StageFollows, OpPcs, InFlight
    <3>4. CASE ~Raised(o)
      BY <2>0, <3>1, <3>2, <3>4 DEF Numbers, BurnCounter, Applied, Raised
    <3> QED BY <3>3, <3>4
  <2>5. CASE RecordFinal
    BY <2>0, <2>5 DEF RecordFinal, Proceeds, StageFollows, Running, OpPcs, InFlight
  <2>6. CASE CommitPointer
    BY <2>0, <2>6 DEF CommitPointer, Commits, Running, Applied, Raised
  <2>7. CASE RecordRejected
    BY <2>0, <2>7 DEF RecordRejected, Proceeds, StageFollows, Running, OpPcs
  <2>8. CASE Conclude
    BY <2>0, <2>8 DEF Conclude, Ends, Proceeds, StageFollows, Running, OpPcs, durable
  <2>9. CASE Answer
    BY <2>0, <2>9 DEF Answer, BurnCounter, Ends, Running, Applied, Raised
  <2> QED
    BY <1>1, <2>1, <2>2, <2>3, <2>4, <2>5, <2>6, <2>7, <2>8, <2>9 DEF ManagerStep
<1>2. CASE Crash \/ PowerLoss
  BY <1>2 DEF Crash, PowerLoss, Ends, TypeOK, durable
<1>3. CASE Enters
  BY <1>3, EntryStarts
<1>4. CASE WriteBack \/ ReadPointer \/ FinishResolve \/ RagStops \/ UNCHANGED vars
  BY <1>4 DEF WriteBack, ReadPointer, FinishResolve, RagStops, vars, durable
<1> QED BY <1>1, <1>2, <1>3, <1>4 DEF Next, Enters

LEMMA GroundedStep ==
  ASSUME IInv, [Next]_vars
  PROVE  OperationGrounded'
<1>0. TypeOK /\ OperationGrounded /\ CountersOrdered
  BY DEF IInv
<1>1. CASE Starts
  BY <1>1 DEF Starts, OperationGrounded, Running, InFlight, PreparationStages
<1>2. CASE Proceeds
  <2>1. PICK pc \in OpPcs : StageFollows(pc) /\ op' = [op EXCEPT !.pc = pc]
    BY <1>2 DEF Proceeds
  <2>2. /\ op \in RunningOp /\ pointer' = pointer
        /\ op'.pc = pc /\ op'.cand = op.cand /\ op'.before = op.before
        /\ op'.mode = op.mode /\ op'.markers = op.markers
        /\ op'.policy = op.policy /\ op'.ctr = op.ctr
    BY <1>2, <2>1, MoveKeeps DEF Proceeds
  <2>3. CASE op.pc \in InFlight /\ pc \in InFlight \cup {"reject"}
    BY <1>0, <2>2, <2>3 DEF OperationGrounded, Running, InFlight, PreparationStages
  <2>4. CASE op.pc = "reject" /\ pc = "conclude"
    BY <1>0, <2>2, <2>4 DEF OperationGrounded, Running, InFlight, PreparationStages
  <2>5. CASE op.pc = "conclude" /\ pc = "answer" /\ pointer.digest # op.cand.digest
    BY <1>0, <2>2, <2>5 DEF OperationGrounded, Running, InFlight, PreparationStages
  <2> QED BY <2>1, <2>3, <2>4, <2>5 DEF StageFollows
<1>3. CASE Numbers
  <2>1. NextCounter \in Nat
    BY <1>0, NextCounterType
  <2>2. /\ op \in RunningOp /\ pointer' = pointer /\ op.pc = "receipt"
        /\ op'.pc = "final" /\ op'.cand = op.cand /\ op'.before = op.before
        /\ op'.mode = op.mode /\ op'.markers = op.markers
        /\ op'.policy = op.policy
    BY <1>3, <2>1, NumberedMoveKeeps DEF Numbers, OpPcs
  <2> QED BY <1>0, <2>2
          DEF OperationGrounded, Running, InFlight, PreparationStages
<1>4. CASE Commits
  <2>1. op \in RunningOp /\ op.before = pointer /\ op.ctr > 0
    BY <1>0, <1>4 DEF Commits, OperationGrounded, CountersOrdered, Running, InFlight
  <2>2. CASE op' = Idle
    BY <2>2 DEF OperationGrounded, Running, Idle, InFlight, PreparationStages
  <2>3. CASE op' = [op EXCEPT !.pc = "reject"]
    <3>1. /\ op'.pc = "reject" /\ op'.cand = op.cand
          /\ op'.before = op.before /\ op'.ctr = op.ctr
      BY <2>1, <2>3, MoveKeeps DEF OpPcs
    <3>2. pointer' = pointer \/ pointer' = NextPointer
      BY <1>4 DEF Commits
    <3>3. NextPointer.digest = op.cand.digest /\ NextPointer.seq = op.cand.sequence
      BY DEF NextPointer
    <3>4. \/ op'.before = pointer'
          \/ /\ op'.ctr > 0
             /\ pointer'.digest = op'.cand.digest /\ pointer'.seq = op'.cand.sequence
      <4>1. CASE pointer' = pointer
        BY <2>1, <3>1, <4>1
      <4>2. CASE pointer' = NextPointer
        <5>1. op'.ctr > 0
          BY <2>1, <3>1
        <5>2. pointer'.digest = op'.cand.digest /\ pointer'.seq = op'.cand.sequence
          BY <3>1, <3>3, <4>2
        <5> QED BY <5>1, <5>2
      <4> QED BY <3>2, <4>1, <4>2
    <3> QED BY <3>1, <3>4
            DEF OperationGrounded, Running, InFlight, PreparationStages
  <2> QED BY <1>4, <2>2, <2>3 DEF Commits
<1>5. CASE Ends
  BY <1>5 DEF Ends, OperationGrounded, Running, Idle, InFlight, PreparationStages
<1>6. CASE UNCHANGED <<pointer, op, answer, counterFile>>
  BY <1>0, <1>6 DEF OperationGrounded, Running
<1> QED BY <1>0, <1>1, <1>2, <1>3, <1>4, <1>5, <1>6, StepKinds

LEMMA CountersStep ==
  ASSUME IInv, [Next]_vars
  PROVE  CountersOrdered'
<1>0. /\ TypeOK /\ TypeOK' /\ CountersOrdered
      /\ counterFile \in Nat /\ counterFile' \in Nat
      /\ answer.ctr \in Nat /\ answer'.ctr \in Nat
      /\ NextCounter \in Nat /\ NextCounter > counterFile
  BY TypeStep, NextCounterType DEF IInv, TypeOK, NoAnswer, ReceiptAnswer
<1>1. CASE Starts
  BY <1>0, <1>1 DEF Starts, CountersOrdered, Running
<1>2. CASE Proceeds
  <2>1. PICK pc \in OpPcs : StageFollows(pc) /\ op' = [op EXCEPT !.pc = pc]
    BY <1>2 DEF Proceeds
  <2>2. /\ op \in RunningOp /\ answer' = answer /\ counterFile' >= counterFile
        /\ op'.pc = pc /\ op'.ctr = op.ctr /\ op.ctr \in Nat /\ op.pc # "idle"
        /\ op.pc \in OpPcs
    BY <1>2, <2>1, MoveKeeps
       DEF Proceeds, RunningOp, OpPcs, PreparationStages
  <2>3. op.ctr <= counterFile /\ (op.ctr = 0 \/ op.ctr > answer.ctr)
        /\ (pc \in {"final", "commit"} => op.ctr > 0)
    BY <1>0, <2>1, <2>2
       DEF CountersOrdered, Running, StageFollows, InFlight, PreparationStages
  <2> QED BY <1>0, <2>2, <2>3 DEF CountersOrdered, Running
<1>3. CASE Numbers
  <2>1. /\ answer' = answer /\ counterFile' = NextCounter
        /\ op'.pc = "final" /\ op'.ctr = NextCounter
    BY <1>0, <1>3, NumberedMoveKeeps DEF Numbers, OpPcs
  <2> QED BY <1>0, <2>1 DEF CountersOrdered, Running
<1>4. CASE Commits
  <2>1. /\ op \in RunningOp /\ op.ctr \in Nat /\ op.ctr > answer.ctr
        /\ op.ctr <= counterFile /\ counterFile' = counterFile
    BY <1>0, <1>4 DEF Commits, CountersOrdered, Running, RunningOp
  <2>2. CASE op' = Idle
    BY <1>0, <1>4, <2>1, <2>2
       DEF Commits, CountersOrdered, Running, Idle, SuccessAnswer
  <2>3. CASE op' = [op EXCEPT !.pc = "reject"]
    <3>1. op'.pc = "reject" /\ op'.ctr = op.ctr
      BY <2>1, <2>3, MoveKeeps DEF OpPcs
    <3>2. answer' = answer
      BY <1>4, <3>1 DEF Commits, Idle
    <3> QED BY <1>0, <2>1, <3>1, <3>2 DEF CountersOrdered, Running
  <2> QED BY <1>4, <2>2, <2>3 DEF Commits
<1>5. CASE Ends
  <2>1. answer'.ctr <= counterFile'
    <3>1. CASE UNCHANGED answer
      BY <1>0, <1>5, <3>1 DEF Ends, CountersOrdered
    <3>2. CASE /\ op \in RunningOp /\ op.pc = "conclude"
               /\ answer' = IF op.ctr = 0 THEN InternalError ELSE SuccessAnswer
      <4>1. op.ctr <= counterFile /\ op.ctr \in Nat
        BY <1>0, <3>2 DEF CountersOrdered, RunningOp
      <4> QED BY <1>0, <1>5, <3>2, <4>1
              DEF Ends, CountersOrdered, InternalError, SuccessAnswer
    <3>3. CASE answer' = InternalError
      BY <1>0, <1>5, <3>3 DEF Ends, CountersOrdered, InternalError
    <3>4. CASE counterFile' = NextCounter /\ answer' = StandingAnswer
      BY <1>0, <3>4 DEF StandingAnswer
    <3> QED BY <1>5, <3>1, <3>2, <3>3, <3>4 DEF Ends
  <2> QED BY <1>5, <2>1 DEF Ends, CountersOrdered, Running, Idle
<1>6. CASE UNCHANGED <<pointer, op, answer, counterFile>>
  BY <1>0, <1>6 DEF CountersOrdered, Running
<1> QED BY <1>0, <1>1, <1>2, <1>3, <1>4, <1>5, <1>6, StepKinds

-----------------------------------------------------------------------------
(* Theorems *)

LEMMA InitIInv == Init => IInv
<1> SUFFICES ASSUME Init PROVE IInv
  OBVIOUS
<1>1. TypeOK
  BY InitTypeOK
<1> QED BY <1>1
        DEF Init, IInv, PointerWellFormed, FloorCoversHistory, OperationGrounded,
            CountersOrdered, SelectionRecorded, Running, Idle, Down, NoAnswer,
            InFlight, PreparationStages

LEMMA StepIInv == IInv /\ [Next]_vars => IInv'
<1> SUFFICES ASSUME IInv, [Next]_vars PROVE IInv'
  OBVIOUS
<1>1. TypeOK'
  BY TypeStep DEF IInv
<1>2. SelectionRecorded'
  BY PointerStep, RagStep DEF SelectionRecorded
<1> QED BY <1>1, <1>2, PointerStep, GroundedStep, CountersStep DEF IInv

\* The strengthening of the safety properties holds in every reachable state.
THEOREM InvariantHolds == Spec => []IInv
<1> QED BY InitIInv, StepIInv, PTL DEF Spec

\* The resolver's pointer checks accept every pointer the manager can write.
THEOREM PointerAlwaysWellFormed == Spec => []PointerWellFormed
<1>1. IInv => PointerWellFormed
  BY DEF IInv
<1> QED BY <1>1, InvariantHolds, PTL

\* The RAG service answers only from a committed release under the floor.
THEOREM OnlyCommittedReleasesServed == Spec => []ServesCommittedRelease
<1>1. IInv => ServesCommittedRelease
  BY DEF IInv, ServesCommittedRelease, SelectionRecorded, FloorCoversHistory, Entry
<1> QED BY <1>1, InvariantHolds, PTL

\* A release becomes the production release only above everything the node
\* ever committed.
THEOREM NoProductionRollback == Spec => ProductionMovesForward
<1>1. ASSUME IInv, [Next]_vars, pointer' # pointer, pointer'.mode = "production",
             NEW c \in committed
      PROVE  c.seq < pointer'.seq
  <2>1. Running({"commit"}) /\ pointer' = NextPointer
    BY <1>1, PointerMoves
  <2>2. NextPointer.mode = op.mode
    BY DEF NextPointer
  <2>3. NextPointer.seq > pointer.floor
    BY <1>1, <2>1, <2>2, NextPointerAccepted
  <2>4. /\ c.seq <= pointer.floor /\ c.seq \in Nat /\ pointer.floor \in Nat
        /\ pointer'.seq \in Nat
    BY <1>1, TypeStep DEF IInv, FloorCoversHistory, TypeOK, Commit, Sequence, Pointer
  <2> QED BY <2>1, <2>3, <2>4
<1>2. IInv /\ [Next]_vars =>
        [pointer' # pointer /\ pointer'.mode = "production"
           => \A c \in committed : c.seq < pointer'.seq]_vars
  BY <1>1
<1> QED BY <1>2, InvariantHolds, PTL DEF Spec, ProductionMovesForward

\* Where an answer comes from.
LEMMA AnswerKinds ==
  ASSUME TypeOK, [Next]_vars, answer' # answer
  PROVE  /\ op \in RunningOp
         /\ \/ op.pc = "commit" /\ answer' = SuccessAnswer
            \/ op.pc = "conclude" /\ op.ctr # 0 /\ answer' = SuccessAnswer
            \/ /\ (op.pc = "conclude" /\ op.ctr = 0) \/ op.pc = "answer"
               /\ pointer' = pointer /\ answer' = InternalError
            \/ /\ op.pc = "answer"
               /\ pointer' = pointer /\ answer' = StandingAnswer
<1>1. Commits \/ Ends
  BY StepKinds DEF Starts, Proceeds, Numbers
<1>2. CASE Commits
  BY <1>2 DEF Commits
<1>3. CASE Ends
  <2>1. CASE /\ op \in RunningOp /\ op.pc = "conclude"
             /\ answer' = IF op.ctr = 0 THEN InternalError ELSE SuccessAnswer
    BY <1>3, <2>1 DEF Ends
  <2> QED BY <1>3, <2>1 DEF Ends
<1> QED BY <1>1, <1>2, <1>3

\* Every receipt handed out carries a device counter above the earlier ones.
THEOREM ReceiptCountersGrow == Spec => ReceiptsStrictlyNumbered
<1>1. ASSUME IInv, [Next]_vars, answer' # answer, answer'.reason \in Reasons
      PROVE  answer'.ctr > answer.ctr
  <2>0. /\ answer.ctr \in Nat /\ answer.ctr <= counterFile /\ counterFile \in Nat
        /\ NextCounter \in Nat /\ NextCounter > counterFile
    BY <1>1, NextCounterType
       DEF IInv, CountersOrdered, TypeOK, NoAnswer, ReceiptAnswer
  <2>1. InternalError.reason \notin Reasons
    BY DEF InternalError, Reasons
  <2>2. CASE answer' = SuccessAnswer /\ op \in RunningOp
             /\ (op.pc = "commit" \/ (op.pc = "conclude" /\ op.ctr # 0))
    BY <1>1, <2>2
       DEF SuccessAnswer, IInv, CountersOrdered, Running, RunningOp
  <2>3. CASE answer' = StandingAnswer
    BY <2>0, <2>3 DEF StandingAnswer
  <2>4. \/ answer' = SuccessAnswer /\ op \in RunningOp
           /\ (op.pc = "commit" \/ (op.pc = "conclude" /\ op.ctr # 0))
        \/ answer' = StandingAnswer
    <3>1. TypeOK
      BY <1>1 DEF IInv
    <3>2. answer' # InternalError
      BY <1>1, <2>1
    <3> QED BY <1>1, <3>1, <3>2, AnswerKinds
  <2> QED BY <2>2, <2>3, <2>4
<1>2. IInv /\ [Next]_vars =>
        [answer' # answer /\ answer'.reason \in Reasons
           => answer'.ctr > answer.ctr]_vars
  BY <1>1
<1> QED BY <1>2, InvariantHolds, PTL DEF Spec, ReceiptsStrictlyNumbered

\* A candidate reported as failed or refused left pointer and floor alone.
THEOREM FailureIsHarmless == Spec => FailureLeavesPointer
<1>1. ASSUME IInv, [Next]_vars, answer' # answer,
             answer'.reason \notin SuccessReasons
      PROVE  pointer' = op.before
  <2>1. SuccessAnswer.reason \in SuccessReasons
    BY DEF SuccessAnswer, SuccessReasons
  <2>2. /\ pointer' = pointer
        /\ op \in RunningOp
        /\ op.pc = "answer" \/ (op.pc = "conclude" /\ op.ctr = 0)
    <3>1. TypeOK
      BY <1>1 DEF IInv
    <3>2. answer' # SuccessAnswer
      BY <1>1, <2>1
    <3> QED BY <1>1, <3>1, <3>2, AnswerKinds
  <2>3. pointer = op.before
    BY <1>1, <2>2 DEF IInv, OperationGrounded, Running
  <2> QED BY <2>2, <2>3
<1>2. IInv /\ [Next]_vars =>
        [answer' # answer /\ answer'.reason \notin SuccessReasons
           => pointer' = op.before]_vars
  BY <1>1
<1> QED BY <1>2, InvariantHolds, PTL DEF Spec, FailureLeavesPointer

\* The manager's files implement the release ledger.
THEOREM FilesImplementLedger == Spec => ImplementsLedger
<1>1. Init => Ledger!Init
  BY DEF Init, Ledger!Init, EmptyPointer
<1>2. IInv /\ [Next]_vars => [Ledger!Next]_(Ledger!vars)
  <2> SUFFICES ASSUME IInv, [Next]_vars PROVE [Ledger!Next]_(Ledger!vars)
    OBVIOUS
  <2>1. CASE UNCHANGED pointer
    BY <2>1 DEF Ledger!vars
  <2>2. CASE Running({"commit"}) /\ pointer' = NextPointer
    <3>1. op \in RunningOp /\ op.before = pointer
      BY <2>2, RunningType DEF IInv, Running, OpPcs, OperationGrounded, InFlight
    <3>2. /\ op.cand.digest \in Digest /\ op.cand.sequence \in Nat \ {0}
          /\ op.mode \in {"production", "recovery"} /\ pointer.floor \in Nat
      BY <3>1, CandidateAssumption DEF RunningOp, Sequence, IInv, TypeOK, Pointer
    <3>3. /\ pointer'.digest = op.cand.digest /\ pointer'.seq = op.cand.sequence
          /\ pointer'.floor = Max2(pointer.floor, op.cand.sequence)
          /\ pointer'.mode = op.mode /\ pointer'.used = pointer.used \o op.markers
      BY <2>2, <3>1 DEF NextPointer
    <3>4. Ledger!Select
      BY <3>2, <3>3 DEF Ledger!Select
    <3>5. CASE op.mode = "production"
      <4>1. op.cand.sequence > pointer.floor
        BY <2>2, <3>1, <3>5 DEF IInv, OperationGrounded, Running, InFlight
      <4>2. pointer'.used = pointer.used
        BY <2>2, <3>5, SpendsFreshAuthority DEF IInv
      <4> QED BY <3>2, <3>3, <3>4, <3>5, <4>1, <4>2
              DEF Ledger!Next, Ledger!Advance, Max2
    <3>6. CASE op.mode = "recovery"
      <4>1. pointer.digest # NoDigest
        BY <2>2, <3>1, <3>6 DEF IInv, OperationGrounded, Running, InFlight
      <4>2. PICK a \in Authorizations :
              /\ op.markers = Markers(a)
              /\ Elements(pointer.used) \cap Elements(Markers(a)) = {}
        BY <2>2, <3>1, <3>6 DEF IInv, OperationGrounded, Running, InFlight
      <4>3. \A i \in 1..Len(pointer.used), j \in 1..Len(Markers(a)) :
              pointer.used[i] # Markers(a)[j]
        BY <4>2 DEF Elements
      <4>4. Markers(a) \in {Markers(x) : x \in Authorizations}
        OBVIOUS
      <4>5. \E markers \in {Markers(x) : x \in Authorizations} :
              /\ \A i \in 1..Len(pointer.used), j \in 1..Len(markers) :
                    pointer.used[i] # markers[j]
              /\ pointer'.used = pointer.used \o markers
        BY <3>3, <4>2, <4>3, <4>4
      <4>6. pointer'.floor = IF pointer'.seq > pointer.floor
                               THEN pointer'.seq ELSE pointer.floor
        BY <3>2, <3>3 DEF Max2
      <4> QED BY <3>3, <3>4, <3>6, <4>1, <4>5, <4>6
              DEF Ledger!Next, Ledger!StepBack
    <3> QED BY <3>2, <3>5, <3>6
  <2> QED BY <2>1, <2>2, PointerMoves
<1> QED BY <1>1, <1>2, InvariantHolds, PTL DEF Spec, ImplementsLedger, Ledger!Spec

-----------------------------------------------------------------------------
(* What a success receipt says *)

\* Every release has one sequence. Nothing is assumed of its package, of the
\* recoveries that are presented and of the faults.
Numbered == \A c, e \in Candidates : c.digest = e.digest => c.sequence = e.sequence

\* The release that is selected was submitted under the sequence it has.
Submitted ==
  pointer # EmptyPointer =>
    \E c \in Candidates : pointer.digest = c.digest /\ pointer.seq = c.sequence

\* An operation that is not done says so; one that had nothing to do found its
\* digest selected.
VerdictTrue ==
  op.pc # "idle" =>
    /\ op.verdict \notin {"ACTIVATED", "RECOVERY_ACTIVATED"}
    /\ op.verdict = "ALREADY_ACTIVE" =>
         /\ op.pc = "answer"
         /\ op.before.digest = op.cand.digest

\* Whoever submits the selected digest submits the selected sequence.
LEMMA OneSequence ==
  ASSUME Numbered, Submitted, NEW c \in Candidates, c.digest = pointer.digest
  PROVE  pointer # EmptyPointer /\ c.sequence = pointer.seq
<1>1. pointer # EmptyPointer
  BY CandidateAssumption, SentinelAssumption DEF EmptyPointer
<1>2. PICK e \in Candidates : pointer.digest = e.digest /\ pointer.seq = e.sequence
  BY <1>1 DEF Submitted
<1>. QED BY <1>1, <1>2 DEF Numbered

\* An operation is judged as it starts.
LEMMA StartsTrue ==
  ASSUME Enters
  PROVE  VerdictTrue'
<1>1. ASSUME NEW c \in Candidates, NEW v, Decide(c, v),
             v \in {"SEQUENCE_ROLLBACK", "RECOVERY_NOT_AUTHORIZED"} \/
               (v = "ALREADY_ACTIVE" /\ IsAlreadyActive(c))
      PROVE  VerdictTrue'
  <2>1. op'.pc = "answer" /\ op'.verdict = v /\ op'.cand = c /\ op'.before = pointer
    BY <1>1 DEF Decide
  <2>2. v = "ALREADY_ACTIVE" => pointer.digest = c.digest
    BY <1>1 DEF IsAlreadyActive
  <2>. QED BY <1>1, <2>1, <2>2 DEF VerdictTrue
<1>2. ASSUME NEW c \in Candidates, NEW mode, NEW markers, NEW policy,
             Begin(c, mode, markers, policy)
      PROVE  VerdictTrue'
  BY <1>2 DEF Begin, VerdictTrue
<1>3. ASSUME NEW c \in Candidates, Activate(c) PROVE VerdictTrue'
  BY <1>1, <1>2, <1>3 DEF Activate
<1>4. ASSUME NEW c \in Candidates, NEW a \in Authorizations, Recover(c, a)
      PROVE  VerdictTrue'
  BY <1>1, <1>2, <1>4 DEF Recover
<1>. QED BY <1>3, <1>4 DEF Enters

LEMMA VerdictStep ==
  ASSUME IInv, VerdictTrue, [Next]_vars
  PROVE  VerdictTrue'
<1>1. CASE Enters
  BY <1>1, StartsTrue
<1>2. CASE \/ op' = op \/ op' = Idle
           \/ \E pc \in OpPcs : /\ op \in RunningOp /\ op.pc \notin {"answer", "idle"}
                                /\ \/ op' = [op EXCEPT !.pc = pc]
                                   \/ op' = [op EXCEPT !.pc = pc, !.ctr = NextCounter]
  <2>1. CASE op' = op \/ op' = Idle
    BY <2>1 DEF VerdictTrue, Idle
  <2>2. CASE \E pc \in OpPcs : /\ op \in RunningOp /\ op.pc \notin {"answer", "idle"}
                               /\ \/ op' = [op EXCEPT !.pc = pc]
                                  \/ op' = [op EXCEPT !.pc = pc, !.ctr = NextCounter]
    <3>1. PICK pc \in OpPcs : /\ op \in RunningOp /\ op.pc \notin {"answer", "idle"}
                               /\ \/ op' = [op EXCEPT !.pc = pc]
                                  \/ op' = [op EXCEPT !.pc = pc, !.ctr = NextCounter]
      BY <2>2
    <3>2. NextCounter \in Nat
      BY NextCounterType DEF IInv
    <3>3. op'.verdict = op.verdict
      <4>1. CASE op' = [op EXCEPT !.pc = pc]
        BY <3>1, <4>1, MoveKeeps
      <4>2. CASE op' = [op EXCEPT !.pc = pc, !.ctr = NextCounter]
        BY <3>1, <3>2, <4>2, NumberedMoveKeeps
      <4>. QED BY <3>1, <4>1, <4>2
    <3>. QED BY <3>1, <3>3 DEF VerdictTrue
  <2>. QED BY <1>2, <2>1, <2>2
<1>3. CASE Proceeds \/ Numbers \/ Commits \/ Ends \/ UNCHANGED op
  BY <1>2, <1>3
     DEF Proceeds, StageFollows, Numbers, Commits, Ends, InFlight, PreparationStages, OpPcs
<1>. QED BY <1>1, <1>3, StepKinds DEF IInv

LEMMA SubmittedStep ==
  ASSUME IInv, Submitted, [Next]_vars
  PROVE  Submitted'
<1>1. CASE UNCHANGED pointer
  BY <1>1 DEF Submitted
<1>2. CASE Running({"commit"}) /\ pointer' = NextPointer
  <2>1. op.cand \in Candidates
    BY <1>2, RunningType DEF Running, OpPcs, IInv, RunningOp
  <2>. QED BY <1>2, <2>1 DEF NextPointer, Submitted
<1>. QED BY <1>1, <1>2, PointerMoves

\* What holds whenever a success receipt is handed out.
LEMMA ReceiptTrue ==
  ASSUME IInv, VerdictTrue, [Next]_vars, answer' # answer,
         answer'.reason \in SuccessReasons
  PROVE  /\ answer'.cand \in Candidates
         /\ pointer'.digest = answer'.cand.digest
         /\ pointer'.seq = answer'.cand.sequence \/ pointer' = op.before
<1>1. Commits \/ Ends
  BY StepKinds DEF IInv, Starts, Proceeds, Numbers
<1>2. CASE Commits
  <2>1. /\ answer' = SuccessAnswer /\ pointer' = NextPointer
        /\ op.cand \in Candidates
    BY <1>2 DEF Commits, RunningOp
  <2>. QED BY <2>1 DEF SuccessAnswer, NextPointer
<1>3. CASE Ends
  <2>1. op \in RunningOp /\ op.cand \in Candidates /\ pointer' = pointer
    BY <1>3 DEF Ends, RunningOp
  <2>2. CASE op.pc = "conclude"
    <3>1. pointer.digest = op.cand.digest /\ answer'.cand = op.cand
      BY <1>3, <2>2 DEF Ends, InternalError, SuccessAnswer
    <3>2. op.before = pointer \/ pointer.seq = op.cand.sequence
      BY <2>2 DEF IInv, OperationGrounded, Running
    <3>. QED BY <2>1, <3>1, <3>2
  <2>3. CASE op.pc = "answer"
    <3>1. answer' = StandingAnswer
      BY <1>3, <2>3 DEF Ends, InternalError, SuccessReasons
    <3>2. op.verdict = "ALREADY_ACTIVE" /\ answer'.cand = op.cand
      BY <2>3, <3>1 DEF StandingAnswer, SuccessReasons, VerdictTrue
    <3>3. op.before = pointer
      BY <2>3 DEF IInv, OperationGrounded, Running
    <3>. QED BY <2>1, <2>3, <3>2, <3>3 DEF VerdictTrue
  <2>. QED BY <1>3, <2>2, <2>3 DEF Ends
<1>. QED BY <1>1, <1>2, <1>3

\* A success receipt is the truth: when it is handed out the pointer names the
\* candidate, at its sequence or as the operation found it, whatever candidate,
\* package, recovery or fault the operation met (activate, _prepare_and_commit).
THEOREM SuccessIsTrue == Spec => SuccessIsCommitted
<1>1. Init => VerdictTrue
  BY DEF Init, VerdictTrue, Idle
<1>2. IInv /\ VerdictTrue /\ [Next]_vars => VerdictTrue'
  BY VerdictStep
<1>3. IInv /\ VerdictTrue /\ [Next]_vars =>
        [answer' # answer /\ answer'.reason \in SuccessReasons
           => /\ pointer'.digest = answer'.cand.digest
              /\ pointer'.seq = answer'.cand.sequence \/ pointer' = op.before]_vars
  BY ReceiptTrue
<1>. QED BY <1>1, <1>2, <1>3, InvariantHolds, PTL DEF Spec, SuccessIsCommitted

\* Where each digest has one sequence, a success receipt names the candidate at
\* exactly its sequence, also when there was nothing to do.
SuccessAtSequence ==
  [][ answer' # answer /\ answer'.reason \in SuccessReasons
        => /\ pointer'.digest = answer'.cand.digest
           /\ pointer'.seq = answer'.cand.sequence ]_vars

\* A node whose releases are numbered as the factory numbers them never reports a
\* release at another sequence than the one it has selected.
THEOREM SuccessIsExact ==
  ASSUME Numbered
  PROVE  Spec => SuccessAtSequence
<1>1. Init => Submitted /\ VerdictTrue
  BY DEF Init, Submitted, VerdictTrue, Idle
<1>2. IInv /\ Submitted /\ VerdictTrue /\ [Next]_vars => Submitted' /\ VerdictTrue'
  BY SubmittedStep, VerdictStep
<1>3. ASSUME IInv, Submitted, VerdictTrue, [Next]_vars, answer' # answer,
             answer'.reason \in SuccessReasons
      PROVE  pointer'.digest = answer'.cand.digest /\ pointer'.seq = answer'.cand.sequence
  <2>1. answer'.cand \in Candidates /\ pointer'.digest = answer'.cand.digest
    BY <1>3, ReceiptTrue
  <2>2. Submitted'
    BY <1>3, SubmittedStep
  <2>3. pointer' # EmptyPointer
    BY <2>1, CandidateAssumption, SentinelAssumption DEF EmptyPointer
  <2>4. PICK e \in Candidates : pointer'.digest = e.digest /\ pointer'.seq = e.sequence
    BY <2>2, <2>3 DEF Submitted, EmptyPointer
  <2>. QED BY <2>1, <2>4 DEF Numbered
<1>4. IInv /\ Submitted /\ VerdictTrue /\ [Next]_vars =>
        [answer' # answer /\ answer'.reason \in SuccessReasons
           => /\ pointer'.digest = answer'.cand.digest
              /\ pointer'.seq = answer'.cand.sequence]_vars
  BY <1>3
<1>. QED BY <1>1, <1>2, <1>4, InvariantHolds, PTL DEF Spec, SuccessAtSequence

-----------------------------------------------------------------------------
(* The release that is selected can be served *)

\* Releases as the factory governs them: one sequence for each digest and the
\* package of that digest, recoveries to another release than the one served.
\* And a node whose writes fail before they take effect, if they do, and whose
\* power stays: processes crash and steps fail at any time.
Governed ==
  /\ Numbered
  /\ \A c \in Candidates : c.content = c.digest
  /\ \A a \in Authorizations : a.target # a.current
  /\ FaultKinds \cap {"late_error", "power_loss"} = {}

\* The stages before the pointer has moved, and those that have the package.
Preparing == InFlight \cup {"reject", "conclude"}
Staged == PreparationStages \cup {"receipt", "final", "commit"}

\* A package directory has the content of its release.
PackagesTrue == \A d \in Digest : package[d] \in {Absent, d}

\* An operation writes beside the release that is served, and the release it
\* is about to select is complete.
WorksBeside ==
  /\ Running(Preparing) => op.before = pointer /\ op.cand.digest # pointer.digest
  /\ Running(Staged) => package[op.cand.digest] = op.cand.digest
  /\ Running({"receipt", "final"}) => states[op.cand.digest].state = "READY"
  /\ Running({"commit"}) =>
       states[op.cand.digest] =
         [seq |-> op.cand.sequence, state |-> FinalState(op.mode), prev |-> "READY"]

\* The release that is served was submitted as it is, and its files agree.
SelectionServable ==
  /\ Submitted
  /\ pointer # EmptyPointer => StateAccepted(pointer) /\ PackageAccepted(pointer)

ServableInv == PackagesTrue /\ WorksBeside /\ SelectionServable

\* A state file is written for one release, over the state it had.
LEMMA RecordsBeside ==
  ASSUME TypeOK, NEW c \in Candidates, NEW st, NEW o, RecordState(c, st, o)
  PROVE  /\ \A d \in Digest : d # c.digest => states'[d] = states[d]
         /\ Applied(o) => states'[c.digest] = [seq |-> c.sequence, state |-> st,
                                               prev |-> states[c.digest].state]
<1>1. c.digest \in Digest /\ states \in [Digest -> StateFile]
  BY CandidateAssumption DEF TypeOK
<1>2. CASE Applied(o)
  <2>1. states' = [states EXCEPT ![c.digest] =
                     [seq |-> c.sequence, state |-> st, prev |-> states[c.digest].state]]
    BY <1>2 DEF RecordState
  <2>. QED BY <1>1, <2>1
<1>3. CASE ~Applied(o)
  BY <1>3 DEF RecordState
<1>. QED BY <1>2, <1>3

\* A selection stays servable while its files are left alone.
LEMMA SelectionStays ==
  ASSUME IInv, SelectionServable, pointer' = pointer,
         pointer.digest \in Digest => /\ states'[pointer.digest] = states[pointer.digest]
                                      /\ package'[pointer.digest] = package[pointer.digest]
  PROVE  SelectionServable'
<1>1. pointer # EmptyPointer => pointer.digest \in Digest
  BY DEF IInv, PointerWellFormed, PointerAccepted, TypeOK, Pointer
<1>. QED BY <1>1 DEF SelectionServable, Submitted, StateAccepted, PackageAccepted

\* Every step keeps the invariant, action by action.
LEMMA StartsServable ==
  ASSUME Governed, IInv, ServableInv, Enters
  PROVE  ServableInv'
<1>0. /\ UNCHANGED <<pointer, states, package>>
      /\ pointer.floor \in Nat /\ pointer.seq \in Nat /\ pointer \in Pointer
  BY DEF Enters, Activate, Recover, durable, IInv, TypeOK, Pointer
<1>1. PackagesTrue' /\ SelectionServable'
  BY <1>0, SelectionStays DEF ServableInv, PackagesTrue
\* The release that is served was submitted under the sequence it has.
<1>2. ASSUME NEW c \in Candidates, c.digest = pointer.digest
      PROVE  c.sequence = pointer.seq /\ pointer.seq <= pointer.floor
  <2>1. pointer # EmptyPointer /\ c.sequence = pointer.seq
    BY <1>2, OneSequence DEF Governed, ServableInv, SelectionServable
  <2>. QED BY <2>1 DEF IInv, PointerWellFormed, PointerAccepted
<1>3. ASSUME NEW c \in Candidates, NEW v, Decide(c, v)
      PROVE  WorksBeside'
  BY <1>3 DEF Decide, WorksBeside, Running, Preparing, Staged, InFlight, PreparationStages
<1>4. ASSUME NEW c \in Candidates, NEW mode, NEW markers, NEW policy,
             Begin(c, mode, markers, policy), c.digest # pointer.digest
      PROVE  WorksBeside'
  <2>1. op'.pc = "stage" /\ op'.cand = c /\ op'.before = pointer
    BY <1>4 DEF Begin
  <2>. QED BY <1>0, <1>4, <2>1
          DEF WorksBeside, Running, Preparing, Staged, InFlight, PreparationStages
<1>5. ASSUME NEW c \in Candidates, Activate(c) PROVE WorksBeside'
  <2>1. CASE IsRollback(c) /\ Decide(c, "SEQUENCE_ROLLBACK")
    BY <1>3, <2>1
  <2>2. CASE IsAlreadyActive(c) /\ Decide(c, "ALREADY_ACTIVE")
    BY <1>3, <2>2
  <2>3. CASE ~IsRollback(c) /\ ~IsAlreadyActive(c) /\ Begin(c, "production", <<>>, NoPolicy)
    <3>1. c.sequence \in Nat /\ c.sequence > pointer.floor
      BY <1>0, <2>3, CandidateAssumption DEF IsRollback, IsAlreadyActive, Sequence
    <3>2. c.digest # pointer.digest
      BY <1>0, <1>2, <3>1
    <3>. QED BY <1>4, <2>3, <3>2
  <2>. QED BY <1>5, <2>1, <2>2, <2>3 DEF Activate
<1>6. ASSUME NEW c \in Candidates, NEW a \in Authorizations, Recover(c, a)
      PROVE  WorksBeside'
  <2>1. CASE RecoveryValid(c, a) /\ Begin(c, "recovery", Markers(a), ServingPolicy(a))
    <3>1. c.digest # pointer.digest
      BY <2>1 DEF Governed, RecoveryValid, ExceptionalValid, PreauthorizedValid
    <3>. QED BY <1>4, <2>1, <3>1
  <2>2. CASE Decide(c, "RECOVERY_NOT_AUTHORIZED")
    BY <1>3, <2>2
  <2>. QED BY <1>6, <2>1, <2>2 DEF Recover
<1>7. WorksBeside'
  BY <1>5, <1>6 DEF Enters
<1>. QED BY <1>1, <1>7 DEF ServableInv

\* An operation that goes on in a way its stage allows.
LEMMA GoesOn ==
  ASSUME ServableInv, op \in RunningOp, NEW pc \in OpPcs, pointer' = pointer,
         op.pc # "answer", op.pc # "idle",
         \/ op' = [op EXCEPT !.pc = pc]
         \/ \E n \in Nat : op' = [op EXCEPT !.pc = pc, !.ctr = n]
  PROVE  /\ op'.pc = pc /\ op'.cand = op.cand /\ op'.before = op.before /\ op'.mode = op.mode
         /\ Running(Preparing) => op'.before = pointer' /\ op'.cand.digest # pointer'.digest
<1>1. /\ op'.pc = pc /\ op'.cand = op.cand /\ op'.before = op.before /\ op'.mode = op.mode
  <2>1. CASE op' = [op EXCEPT !.pc = pc]
    BY <2>1, MoveKeeps
  <2>2. CASE \E n \in Nat : op' = [op EXCEPT !.pc = pc, !.ctr = n]
    <3>1. PICK n \in Nat : op' = [op EXCEPT !.pc = pc, !.ctr = n]
      BY <2>2
    <3>. QED BY <3>1 DEF RunningOp
  <2>. QED BY <2>1, <2>2
<1>. QED BY <1>1 DEF ServableInv, WorksBeside

LEMMA StageServable ==
  ASSUME Governed, IInv, ServableInv, StagePackage
  PROVE  ServableInv'
<1>1. /\ op \in RunningOp /\ op.pc = "stage" /\ op.cand \in Candidates
      /\ op.cand.digest \in Digest
  BY RunningType, CandidateAssumption DEF StagePackage, Running, OpPcs, IInv, RunningOp
<1>2. op' = [op EXCEPT !.pc = "STAGED"] /\ UNCHANGED <<pointer, states>>
  BY DEF StagePackage
<1>3. /\ op'.pc = "STAGED" /\ op'.cand = op.cand /\ op'.before = pointer
      /\ op.cand.digest # pointer.digest
  BY <1>1, <1>2, GoesOn
     DEF OpPcs, PreparationStages, Running, Preparing, InFlight, ServableInv, WorksBeside
<1>4. /\ package'[op.cand.digest] = op.cand.digest
      /\ \A d \in Digest : d # op.cand.digest => package'[d] = package[d]
  BY <1>1 DEF StagePackage, ServableInv, PackagesTrue, Governed, IInv, TypeOK
<1>5. PackagesTrue'
  BY <1>4 DEF ServableInv, PackagesTrue
<1>6. SelectionServable'
  BY <1>2, <1>3, <1>4, SelectionStays DEF ServableInv
<1>7. WorksBeside'
  BY <1>2, <1>3, <1>4
     DEF WorksBeside, Running, Preparing, Staged, InFlight, PreparationStages
<1>. QED BY <1>3, <1>5, <1>6, <1>7 DEF ServableInv

\* Neither late errors nor losses of power: what raised was not applied.
LEMMA RaisedIsLost ==
  ASSUME Governed, NEW o \in Outcomes
  PROVE  Raised(o) <=> ~Applied(o)
BY DEF Governed, Outcomes, Raised, Applied

\* A stage that writes a state file leaves the selection alone.
LEMMA RecordedBeside ==
  ASSUME IInv, ServableInv, op \in RunningOp, op.pc \in Preparing,
         NEW st, NEW o, RecordState(op.cand, st, o), UNCHANGED <<pointer, package>>
  PROVE  PackagesTrue' /\ SelectionServable'
<1>1. op.cand \in Candidates /\ op.cand.digest # pointer.digest
  BY DEF ServableInv, WorksBeside, Running, RunningOp
<1>2. pointer.digest \in Digest => states'[pointer.digest] = states[pointer.digest]
  BY <1>1, RecordsBeside DEF IInv
<1>. QED BY <1>2, SelectionStays DEF ServableInv, PackagesTrue

LEMMA CompleteServable ==
  ASSUME Governed, IInv, ServableInv, CompleteStage
  PROVE  ServableInv'
<1>1. /\ op \in RunningOp /\ op.pc \in PreparationStages /\ op.cand \in Candidates
  BY RunningType DEF CompleteStage, Running, OpPcs, IInv, RunningOp
<1>2. PICK o \in Outcomes :
        /\ RecordState(op.cand, op.pc, o)
        /\ op' = [op EXCEPT !.pc = IF Raised(o) THEN "reject" ELSE NextStage[op.pc]]
        /\ UNCHANGED <<pointer, package>>
  BY DEF CompleteStage
<1>. PICK pc : pc = IF Raised(o) THEN "reject" ELSE NextStage[op.pc]
  OBVIOUS
<1>3. /\ pc \in {"VERIFIED", "INDEXED", "CANARY_TESTED", "READY", "receipt", "reject"}
      /\ pc = "receipt" => op.pc = "READY" /\ Applied(o)
  BY <1>1, RaisedIsLost DEF NextStage, PreparationStages
<1>4. op'.pc = pc /\ op'.cand = op.cand /\ op'.before = op.before
  <2>1. pc \in OpPcs /\ op.pc \notin {"answer", "idle"} /\ op' = [op EXCEPT !.pc = pc]
    BY <1>1, <1>2, <1>3 DEF OpPcs, PreparationStages
  <2>. QED BY <1>1, <1>2, <2>1, GoesOn
<1>5. PackagesTrue' /\ SelectionServable'
  BY <1>1, <1>2, RecordedBeside DEF Preparing, InFlight
<1>6. pc = "receipt" => states'[op.cand.digest].state = "READY"
  <2>1. Applied(o) => states'[op.cand.digest] =
          [seq |-> op.cand.sequence, state |-> op.pc, prev |-> states[op.cand.digest].state]
    BY <1>1, <1>2, RecordsBeside DEF IInv
  <2>. QED BY <1>3, <2>1
<1>7. /\ op.before = pointer /\ op.cand.digest # pointer.digest
      /\ package[op.cand.digest] = op.cand.digest
  BY <1>1 DEF ServableInv, WorksBeside, Running, Preparing, Staged, InFlight
<1>8. WorksBeside'
  BY <1>2, <1>3, <1>4, <1>6, <1>7
     DEF WorksBeside, Running, Preparing, Staged, InFlight, PreparationStages
<1>. QED BY <1>4, <1>5, <1>8 DEF ServableInv

LEMMA FailureServable ==
  ASSUME Governed, IInv, ServableInv, VerificationFails \/ StepFails
  PROVE  ServableInv'
<1>1. op \in RunningOp /\ op.pc \in {"stage", "VERIFIED", "INDEXED", "CANARY_TESTED"}
  BY RunningType DEF VerificationFails, StepFails, Running, OpPcs, PreparationStages, IInv
<1>2. op' = [op EXCEPT !.pc = "reject"] /\ UNCHANGED <<pointer, states, package>>
  BY DEF VerificationFails, StepFails, durable
<1>3. op'.pc = "reject" /\ op'.cand = op.cand /\ op'.before = op.before
  BY <1>1, <1>2, GoesOn DEF OpPcs
<1>4. PackagesTrue' /\ SelectionServable'
  BY <1>2, SelectionStays DEF ServableInv, PackagesTrue
<1>5. WorksBeside'
  BY <1>1, <1>2, <1>3
     DEF ServableInv, WorksBeside, Running, Preparing, Staged, InFlight, PreparationStages
<1>. QED BY <1>3, <1>4, <1>5 DEF ServableInv

LEMMA ReceiptServable ==
  ASSUME Governed, IInv, ServableInv, BuildReceipt
  PROVE  ServableInv'
<1>1. op \in RunningOp /\ op.pc = "receipt" /\ NextCounter \in Nat
  BY RunningType, NextCounterType DEF BuildReceipt, Running, OpPcs, IInv
<1>2. /\ UNCHANGED <<pointer, states, package>>
      /\ \/ op' = [op EXCEPT !.pc = "reject"]
         \/ op' = [op EXCEPT !.pc = "final", !.ctr = NextCounter]
  BY DEF BuildReceipt
<1>3. /\ op'.pc \in {"reject", "final"}
      /\ op'.cand = op.cand /\ op'.before = op.before
  BY <1>1, <1>2, GoesOn DEF OpPcs
<1>4. PackagesTrue' /\ SelectionServable'
  BY <1>2, SelectionStays DEF ServableInv, PackagesTrue
<1>5. WorksBeside'
  BY <1>1, <1>2, <1>3
     DEF ServableInv, WorksBeside, Running, Preparing, Staged, InFlight, PreparationStages
<1>. QED BY <1>3, <1>4, <1>5 DEF ServableInv

LEMMA FinalServable ==
  ASSUME Governed, IInv, ServableInv, RecordFinal
  PROVE  ServableInv'
<1>1. op \in RunningOp /\ op.pc = "final" /\ op.cand \in Candidates
  BY RunningType DEF RecordFinal, Running, OpPcs, IInv, RunningOp
<1>2. PICK o \in Outcomes :
        /\ RecordState(op.cand, FinalState(op.mode), o)
        /\ op' = [op EXCEPT !.pc = IF Raised(o) THEN "reject" ELSE "commit"]
        /\ UNCHANGED <<pointer, package>>
  BY DEF RecordFinal
<1>. PICK pc \in {"reject", "commit"} : pc = IF Raised(o) THEN "reject" ELSE "commit"
  OBVIOUS
<1>3. /\ op'.pc = pc /\ op'.cand = op.cand /\ op'.before = op.before /\ op'.mode = op.mode
  BY <1>1, <1>2, GoesOn DEF OpPcs
<1>4. PackagesTrue' /\ SelectionServable'
  BY <1>1, <1>2, RecordedBeside DEF Preparing, InFlight
<1>5. pc = "commit" => states'[op.cand.digest] =
        [seq |-> op.cand.sequence, state |-> FinalState(op.mode), prev |-> "READY"]
  <2>1. states[op.cand.digest].state = "READY"
    BY <1>1 DEF ServableInv, WorksBeside, Running
  <2>. QED BY <1>1, <1>2, <2>1, RaisedIsLost, RecordsBeside DEF IInv
<1>6. /\ op.before = pointer /\ op.cand.digest # pointer.digest
      /\ package[op.cand.digest] = op.cand.digest
  BY <1>1 DEF ServableInv, WorksBeside, Running, Preparing, Staged, InFlight
<1>7. WorksBeside'
  BY <1>2, <1>3, <1>5, <1>6
     DEF WorksBeside, Running, Preparing, Staged, InFlight, PreparationStages
<1>. QED BY <1>3, <1>4, <1>7 DEF ServableInv

\* The moment of selection: what the pointer names is complete.
LEMMA CommitServable ==
  ASSUME Governed, IInv, ServableInv, CommitPointer
  PROVE  ServableInv'
<1>1. op \in RunningOp /\ op.pc = "commit" /\ op.cand \in Candidates
  BY RunningType DEF CommitPointer, Running, OpPcs, IInv, RunningOp
<1>2. /\ UNCHANGED <<states, package>>
      /\ \/ op' = Idle /\ pointer' = NextPointer
         \/ op' = [op EXCEPT !.pc = "reject"] /\ pointer' = pointer
  <2>1. PICK o \in Outcomes :
          /\ IF Applied(o) THEN pointer' = NextPointer ELSE UNCHANGED pointer
          /\ IF Raised(o) THEN op' = [op EXCEPT !.pc = "reject"] ELSE op' = Idle
    BY DEF CommitPointer
  <2>. QED BY <2>1, RaisedIsLost DEF CommitPointer
<1>3. PackagesTrue'
  BY <1>2 DEF ServableInv, PackagesTrue
<1>4. CASE op' = Idle /\ pointer' = NextPointer
  <2>1. /\ pointer'.digest = op.cand.digest /\ pointer'.seq = op.cand.sequence
        /\ pointer'.mode = op.mode
    BY <1>4 DEF NextPointer
  <2>2. /\ package[op.cand.digest] = op.cand.digest
        /\ states[op.cand.digest] =
             [seq |-> op.cand.sequence, state |-> FinalState(op.mode), prev |-> "READY"]
    BY <1>1 DEF ServableInv, WorksBeside, Running, Staged
  <2>3. SelectionServable'
    BY <1>1, <1>2, <2>1, <2>2 DEF SelectionServable, Submitted, StateAccepted, PackageAccepted
  <2>. QED BY <1>3, <1>4, <2>3
          DEF ServableInv, WorksBeside, Running, Idle,
              Preparing, Staged, InFlight, PreparationStages
<1>5. CASE op' = [op EXCEPT !.pc = "reject"] /\ pointer' = pointer
  <2>1. op'.pc = "reject" /\ op'.cand = op.cand /\ op'.before = op.before
    BY <1>1, <1>5, GoesOn DEF OpPcs
  <2>2. SelectionServable'
    BY <1>2, <1>5, SelectionStays DEF ServableInv
  <2>3. WorksBeside'
    BY <1>1, <1>5, <2>1
       DEF ServableInv, WorksBeside, Running, Preparing, Staged, InFlight, PreparationStages
  <2>. QED BY <1>3, <2>1, <2>2, <2>3 DEF ServableInv
<1>. QED BY <1>2, <1>4, <1>5

LEMMA RejectServable ==
  ASSUME Governed, IInv, ServableInv, RecordRejected
  PROVE  ServableInv'
<1>1. op \in RunningOp /\ op.pc = "reject"
  BY RunningType DEF RecordRejected, Running, OpPcs, IInv
<1>2. PICK o : /\ RecordState(op.cand, "REJECTED", o) /\ UNCHANGED <<pointer, package>>
               /\ op' = [op EXCEPT !.pc = "conclude"]
  BY DEF RecordRejected
<1>3. op'.pc = "conclude" /\ op'.cand = op.cand /\ op'.before = op.before
  BY <1>1, <1>2, GoesOn DEF OpPcs
<1>4. PackagesTrue' /\ SelectionServable'
  BY <1>1, <1>2, RecordedBeside DEF Preparing
<1>5. WorksBeside'
  BY <1>1, <1>2, <1>3
     DEF ServableInv, WorksBeside, Running, Preparing, Staged, InFlight, PreparationStages
<1>. QED BY <1>3, <1>4, <1>5 DEF ServableInv

\* Having failed, an operation never finds its candidate selected.
LEMMA ConcludeServable ==
  ASSUME Governed, IInv, ServableInv, Conclude
  PROVE  ServableInv' /\ answer' = answer
<1>1. op \in RunningOp /\ op.pc = "conclude" /\ pointer.digest # op.cand.digest
  BY RunningType DEF Conclude, Running, OpPcs, IInv, ServableInv, WorksBeside, Preparing
<1>2. /\ op' = [op EXCEPT !.pc = "answer"] /\ UNCHANGED <<pointer, states, package, answer>>
  BY <1>1 DEF Conclude, durable
<1>3. op'.pc = "answer"
  BY <1>1, <1>2, GoesOn DEF OpPcs
<1>4. PackagesTrue' /\ SelectionServable'
  BY <1>2, SelectionStays DEF ServableInv, PackagesTrue
<1>5. WorksBeside'
  BY <1>3 DEF WorksBeside, Running, Preparing, Staged, InFlight, PreparationStages
<1>. QED BY <1>2, <1>3, <1>4, <1>5 DEF ServableInv

LEMMA RestServable ==
  ASSUME Governed, IInv, ServableInv,
         Answer \/ Crash \/ WriteBack \/ PowerLoss \/ ReadPointer \/ FinishResolve
           \/ RagStops \/ UNCHANGED vars
  PROVE  ServableInv'
<1>1. ~WriteBack /\ ~PowerLoss
  BY DEF Governed, WriteBack, PowerLoss, FaultPossible
<1>2. UNCHANGED <<pointer, states, package>> /\ (op' = op \/ op' = Idle)
  BY <1>1 DEF Answer, Crash, ReadPointer, FinishResolve, RagStops, vars, durable
<1>3. PackagesTrue' /\ SelectionServable'
  BY <1>2, SelectionStays DEF ServableInv, PackagesTrue
<1>4. WorksBeside'
  BY <1>2 DEF ServableInv, WorksBeside, Running, Idle,
              Preparing, Staged, InFlight, PreparationStages
<1>. QED BY <1>3, <1>4 DEF ServableInv

LEMMA ServableStep ==
  ASSUME Governed, IInv, ServableInv, [Next]_vars
  PROVE  ServableInv'
BY StartsServable, StageServable, CompleteServable, FailureServable, ReceiptServable,
   FinalServable, CommitServable, RejectServable, ConcludeServable, RestServable
   DEF Next, ManagerStep, Enters

LEMMA ServableHolds ==
  ASSUME Governed
  PROVE  Spec => [](IInv /\ ServableInv)
<1>1. Init => ServableInv
  BY DEF Init, ServableInv, PackagesTrue, WorksBeside, SelectionServable, Submitted,
         Running, Idle, Preparing, Staged, InFlight, PreparationStages
<1>2. IInv /\ ServableInv /\ [Next]_vars => ServableInv'
  BY ServableStep
<1>. QED BY <1>1, <1>2, InvariantHolds, PTL DEF Spec

\* After a crash, at any point of any operation, the node can serve the release
\* its pointer names: state file and package agree with it
\* (_prepare_and_commit writes the pointer last, ActiveReleaseResolver).
THEOREM PointerIsServable ==
  ASSUME Governed
  PROVE  Spec => []PointerServable
<1>1. IInv /\ ServableInv => PointerServable
  BY DEF IInv, ServableInv, SelectionServable, PointerWellFormed, PointerServable, Resolves
<1>. QED BY <1>1, ServableHolds, PTL
=============================================================================

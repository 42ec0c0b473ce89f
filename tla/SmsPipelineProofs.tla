-------------------------- MODULE SmsPipelineProofs --------------------------
(***************************************************************************)
(* Proofs about the way of an inbound SMS, for any messages, routers,      *)
(* limits and faults: what the stream keeps for redelivery, that a message *)
(* whose sender was told that it is queued is accounted for, and that a    *)
(* message is answered once but for what was counted as an excuse.         *)
(***************************************************************************)
EXTENDS SmsPipeline, Integers, FiniteSetTheorems, TLAPS

Work == [at : {"resting", "publishing", "posting", "waiting"},
         msg : Message \cup {None}, attempt : Nat]

\* The worker holds a message unless it rests.
GatewayInv ==
  /\ told \in [Message -> {"nothing", "refused", "accepted"}]
  /\ queue \in Seq(Message)
  /\ worker \in Work
  /\ failed \subseteq Message
  /\ worker.at = "resting" <=> worker.msg = None

\* Kafka has no idle entries.
StreamInv ==
  /\ log \in Seq(Message)
  /\ trimmed \in Nat /\ lastRead \in Nat /\ committed \in Nat
  /\ pending \subseteq 1..Len(log) /\ idle \subseteq pending
  /\ Kafka => idle = {}

\* A loop that holds an entry holds one of the log, and acknowledges what it finished.
LoopInv ==
  /\ router \in [Router -> Place]
  /\ finished \subseteq 1..Len(log)
  /\ \A r \in Router : router[r].at = "working" => router[r].entry \in 1..Len(log)
  /\ \A r \in Router : router[r].at = "acking" => router[r].entry \in finished

CountInv ==
  /\ calls \subseteq [msg : Message, attempt : Nat, router : Router]
  /\ faults \in Nat
  /\ answers \in [Message -> Nat] /\ excuses \in [Message -> Nat]
  /\ lost \subseteq Message

PipelineInv == GatewayInv /\ StreamInv /\ LoopInv /\ CountInv

-----------------------------------------------------------------------------
(* Lemmas *)

\* Publication appends one entry and leaves the others where they are.
LEMMA AppendKeeps ==
  ASSUME NEW m \in Message, log \in Seq(Message), trimmed \in Nat, AppendEntry(m)
  PROVE  /\ log' \in Seq(Message)
         /\ Len(log') = Len(log) + 1
         /\ log'[Len(log) + 1] = m
         /\ \A e \in 1..Len(log) : log'[e] = log[e]
         /\ trimmed' \in Nat /\ trimmed <= trimmed'
<1>1. log' = Append(log, m)
  BY DEF AppendEntry
<1>2. log' \in Seq(Message) /\ Len(log') = Len(log) + 1
  BY <1>1
<1>3. trimmed' \in trimmed..Len(log')
  BY DEF AppendEntry
<1>4. Len(log') \in Nat
  BY <1>2
<1>. QED BY <1>1, <1>2, <1>3, <1>4

\* A publication keeps the stream and what the loops hold of it.
LEMMA AppendInv ==
  ASSUME StreamInv, LoopInv, NEW m \in Message, AppendEntry(m),
         UNCHANGED <<lastRead, pending, idle, committed, router, finished>>
  PROVE  StreamInv' /\ LoopInv'
<1>1. /\ log' \in Seq(Message) /\ Len(log') = Len(log) + 1 /\ Len(log) \in Nat
      /\ trimmed' \in Nat
  BY AppendKeeps DEF StreamInv
<1>2. 1..Len(log) \subseteq 1..Len(log')
  BY <1>1
<1>3. StreamInv'
  BY <1>1, <1>2 DEF StreamInv, Kafka
<1>4. LoopInv'
  BY <1>2 DEF LoopInv
<1>. QED BY <1>3, <1>4

\* Whatever holds a message holds one of Message.
LEMMA WorkerHolds ==
  ASSUME GatewayInv, worker.at # "resting"
  PROVE  worker.msg \in Message /\ worker.msg # None
<1>1. worker.msg \in Message \cup {None}
  BY DEF GatewayInv, Work
<1>2. worker.msg # None
  BY DEF GatewayInv
<1>. QED BY <1>1, <1>2

LEMMA HeldInLog ==
  ASSUME StreamInv, LoopInv, NEW r \in Router, Holding(r)
  PROVE  router[r].entry \in 1..Len(log) /\ log[router[r].entry] \in Message
<1>1. router[r].entry \in 1..Len(log)
  BY DEF LoopInv, Holding
<1>. QED BY <1>1 DEF StreamInv

\* A failed attempt leaves the worker with the message, or at rest.
LEMMA NextAttemptInv ==
  ASSUME GatewayInv, worker.at # "resting", NextAttempt, UNCHANGED <<told, queue>>
  PROVE  GatewayInv'
<1>1. worker.msg \in Message /\ worker.msg # None
  BY WorkerHolds
<1>2. worker \in Work
  BY DEF GatewayInv
<1>3. CASE worker.attempt < Retries
  <2>1. worker' = [worker EXCEPT !.at = "posting", !.attempt = @ + 1] /\ failed' = failed
    BY <1>3 DEF NextAttempt
  <2>2. worker.attempt \in Nat
    BY <1>2 DEF Work
  <2>3. worker' = [at |-> "posting", msg |-> worker.msg, attempt |-> worker.attempt + 1]
    BY <1>2, <2>1 DEF Work
  <2>4. worker.attempt + 1 \in Nat
    BY <2>2
  <2>5. worker' \in Work /\ worker'.at = "posting" /\ worker'.msg = worker.msg
    BY <1>1, <2>3, <2>4 DEF Work
  <2>. QED BY <1>1, <2>1, <2>5 DEF GatewayInv
<1>4. CASE ~(worker.attempt < Retries)
  <2>1. worker' = Resting /\ failed' = failed \cup {worker.msg}
    BY <1>4 DEF NextAttempt
  <2>2. Resting \in Work /\ Resting.at = "resting" /\ Resting.msg = None
    BY DEF Resting, Work
  <2>. QED BY <1>1, <2>1, <2>2 DEF GatewayInv
<1>. QED BY <1>3, <1>4

\* Counting an answer or an excuse keeps the counts natural.
LEMMA ServedTypes ==
  ASSUME CountInv, NEW m \in Message,
         \/ CutShort(m)
         \/ Answered(m) /\ UNCHANGED excuses
         \/ Excused(m) /\ UNCHANGED answers
         \/ UNCHANGED served
  PROVE  answers' \in [Message -> Nat] /\ excuses' \in [Message -> Nat]
<1>1. /\ answers' = answers \/ answers' = [answers EXCEPT ![m] = @ + 1]
      /\ excuses' = excuses \/ excuses' = [excuses EXCEPT ![m] = @ + 1]
  BY DEF CutShort, Answered, Excused, served
<1>. QED BY <1>1 DEF CountInv

LEMMA FaultTypes == CountInv /\ (Fault \/ UNCHANGED faults) => faults' \in Nat
BY DEF CountInv, Fault

-----------------------------------------------------------------------------
(* Types *)

\* Every step keeps values of their kinds.
LEMMA InvStep == PipelineInv /\ [Next]_vars => PipelineInv'
<1>. SUFFICES ASSUME GatewayInv, StreamInv, LoopInv, CountInv, [Next]_vars
              PROVE  PipelineInv'
  BY DEF PipelineInv
<1>. USE DEF gateway, stream
<1>1. ASSUME NEW m \in Message, Receive(m) PROVE PipelineInv'
  <2>1. told' \in [Message -> {"nothing", "refused", "accepted"}]
    BY <1>1 DEF Receive, GatewayInv
  <2>2. queue' \in Seq(Message)
    BY <1>1 DEF Receive, GatewayInv
  <2>3. GatewayInv'
    BY <1>1, <2>1, <2>2 DEF Receive, GatewayInv
  <2>4. StreamInv' /\ LoopInv' /\ CountInv'
    BY <1>1 DEF Receive, StreamInv, LoopInv, CountInv, Kafka, served
  <2>. QED BY <2>3, <2>4 DEF PipelineInv
<1>2. CASE TakeQueued
  <2>1. Head(queue) \in Message /\ Tail(queue) \in Seq(Message)
    BY <1>2 DEF TakeQueued, GatewayInv
  <2>2. worker' = [at |-> "publishing", msg |-> Head(queue), attempt |-> 0]
    BY <1>2 DEF TakeQueued
  <2>3. worker' \in Work /\ worker'.at # "resting" /\ worker'.msg # None
    BY <2>1, <2>2, MessageAssumption DEF Work
  <2>4. GatewayInv'
    BY <1>2, <2>1, <2>3 DEF TakeQueued, GatewayInv
  <2>5. StreamInv' /\ LoopInv' /\ CountInv'
    BY <1>2 DEF TakeQueued, StreamInv, LoopInv, CountInv, Kafka, served
  <2>. QED BY <2>4, <2>5 DEF PipelineInv
<1>3. CASE Publish
  <2>1. worker.msg \in Message
    BY <1>3, WorkerHolds DEF Publish
  <2>2. StreamInv' /\ LoopInv'
    BY <1>3, <2>1, AppendInv DEF Publish
  <2>3. Resting \in Work /\ Resting.at = "resting" /\ Resting.msg = None
    BY DEF Resting, Work
  <2>4. GatewayInv' /\ CountInv'
    BY <1>3, <2>3 DEF Publish, GatewayInv, CountInv, served
  <2>. QED BY <2>2, <2>4 DEF PipelineInv
<1>4. CASE PublishFails
  <2>1. worker.msg \in Message /\ worker.msg # None
    BY <1>4, WorkerHolds DEF PublishFails
  <2>2. StreamInv' /\ LoopInv'
    <3>1. CASE AppendEntry(worker.msg)
      BY <1>4, <2>1, <3>1, AppendInv DEF PublishFails
    <3>2. CASE UNCHANGED <<log, trimmed>>
      BY <1>4, <3>2 DEF PublishFails, StreamInv, LoopInv, Kafka
    <3>. QED BY <1>4, <3>1, <3>2 DEF PublishFails
  <2>3. worker' = [worker EXCEPT !.at = "posting", !.attempt = 1]
    BY <1>4 DEF PublishFails
  <2>4. worker' \in Work /\ worker'.at = "posting" /\ worker'.msg = worker.msg
    BY <2>3 DEF GatewayInv, Work
  <2>5. GatewayInv'
    BY <1>4, <2>1, <2>4 DEF PublishFails, GatewayInv
  <2>6. CountInv'
    BY <1>4, <2>1, ServedTypes, FaultTypes DEF PublishFails, CountInv
  <2>. QED BY <2>2, <2>5, <2>6 DEF PipelineInv
<1>5. CASE Post
  <2>1. worker.msg \in Message /\ worker.msg # None
    BY <1>5, WorkerHolds DEF Post
  <2>2. PICK r \in Router :
          calls' = calls \cup {[msg |-> worker.msg, attempt |-> worker.attempt, router |-> r]}
    BY <1>5 DEF Post
  <2>3. worker' = [worker EXCEPT !.at = "waiting"]
    BY <1>5 DEF Post
  <2>4. worker.attempt \in Nat
    BY DEF GatewayInv, Work
  <2>5. worker' \in Work /\ worker'.at = "waiting" /\ worker'.msg = worker.msg
    BY <2>3 DEF GatewayInv, Work
  <2>6. GatewayInv'
    BY <1>5, <2>1, <2>5 DEF Post, GatewayInv
  <2>7. StreamInv' /\ LoopInv'
    BY <1>5 DEF Post, StreamInv, LoopInv, Kafka
  <2>8. CountInv'
    BY <1>5, <2>1, <2>2, <2>4 DEF Post, CountInv, served
  <2>. QED BY <2>6, <2>7, <2>8 DEF PipelineInv
<1>6. CASE PostFails \/ PostTimesOut
  <2>1. GatewayInv'
    BY <1>6, NextAttemptInv DEF PostFails, PostTimesOut
  <2>2. StreamInv' /\ LoopInv'
    BY <1>6 DEF PostFails, PostTimesOut, StreamInv, LoopInv, Kafka
  <2>3. worker.msg \in Message
    BY <1>6, WorkerHolds DEF PostFails, PostTimesOut
  <2>4. answers' \in [Message -> Nat] /\ excuses' \in [Message -> Nat]
    BY <1>6, <2>3, ServedTypes DEF PostFails, PostTimesOut
  <2>5. CountInv'
    BY <1>6, <2>4, FaultTypes DEF PostFails, PostTimesOut, CountInv
  <2>. QED BY <2>1, <2>2, <2>5 DEF PipelineInv
<1>7. CASE GatewayStops
  <2>1. Resting \in Work /\ Resting.at = "resting" /\ Resting.msg = None
    BY DEF Resting, Work
  <2>2. GatewayInv'
    BY <1>7, <2>1 DEF GatewayStops, GatewayInv
  <2>3. StreamInv' /\ LoopInv'
    BY <1>7 DEF GatewayStops, StreamInv, LoopInv, Kafka
  <2>4. CountInv'
    BY <1>7, FaultTypes DEF GatewayStops, CountInv, served
  <2>. QED BY <2>2, <2>3, <2>4 DEF PipelineInv
<1>8. ASSUME NEW r \in Router, Connect(r) PROVE PipelineInv'
  <2>1. StreamInv'
    BY <1>8 DEF Connect, StreamInv, Kafka
  <2>2. Free \in Place /\ Free.at = "free"
    BY DEF Free, Place
  <2>3. router' = [router EXCEPT ![r] = Free] /\ UNCHANGED <<log, finished>>
    BY <1>8 DEF Connect
  <2>4. LoopInv'
    BY <2>2, <2>3 DEF LoopInv
  <2>5. GatewayInv' /\ CountInv'
    BY <1>8 DEF Connect, GatewayInv, CountInv, served
  <2>. QED BY <2>1, <2>4, <2>5 DEF PipelineInv
<1>9. ASSUME NEW r \in Router, TakeNew(r) \/ Claim(r) PROVE PipelineInv'
  <2>1. PICK e \in 1..Len(log) : router' = [router EXCEPT ![r] = [at |-> "working", entry |-> e]]
    BY <1>9 DEF TakeNew, Claim, First, Unread, Claimable, StreamInv
  <2>2. [at |-> "working", entry |-> e] \in Place
    BY DEF Place
  <2>3. UNCHANGED <<log, finished>>
    BY <1>9 DEF TakeNew, Claim
  <2>4. LoopInv'
    BY <2>1, <2>2, <2>3 DEF LoopInv
  <2>5. StreamInv'
    <3>1. CASE TakeNew(r)
      BY <3>1 DEF TakeNew, StreamInv, Kafka, First, Unread
    <3>2. CASE Claim(r)
      BY <3>2 DEF Claim, StreamInv, Kafka, First, Claimable
    <3>. QED BY <1>9, <3>1, <3>2
  <2>6. GatewayInv' /\ faults' \in Nat /\ UNCHANGED <<calls, answers, lost>>
    BY <1>9, FaultTypes DEF TakeNew, Claim, GatewayInv, CountInv, served
  <2>7. excuses' \in [Message -> Nat]
    <3>1. CASE TakeNew(r)
      BY <3>1 DEF TakeNew, CountInv, served
    <3>2. CASE Claim(r)
      <4>1. PICK f \in Claimable : Excused(log[f]) \/ UNCHANGED excuses
        BY <3>2 DEF Claim, First
      <4>2. log[f] \in Message
        BY <4>1 DEF Claimable, StreamInv
      <4>. QED BY <4>1, <4>2 DEF CountInv, Excused
    <3>. QED BY <1>9, <3>1, <3>2
  <2>8. CountInv'
    BY <2>6, <2>7 DEF CountInv
  <2>. QED BY <2>4, <2>5, <2>6, <2>8 DEF PipelineInv
<1>10. ASSUME NEW r \in Router, Process(r) PROVE PipelineInv'
  <2>1. router[r].entry \in 1..Len(log) /\ log[router[r].entry] \in Message
    BY <1>10, HeldInLog DEF Process, Holding
  <2>2. /\ router' = [router EXCEPT ![r].at = "acking"]
        /\ finished' = finished \cup {router[r].entry}
        /\ log' = log
    BY <1>10 DEF Process
  <2>3. router \in [Router -> Place] /\ router[r] \in Place
    BY DEF LoopInv
  <2>4. router'[r] \in Place /\ router'[r].at = "acking" /\ router'[r].entry = router[r].entry
    BY <2>2, <2>3 DEF Place
  <2>5. \A q \in Router \ {r} : router'[q] = router[q]
    BY <2>2, <2>3
  <2>6. router' \in [Router -> Place]
    BY <2>2, <2>3, <2>4, <2>5
  <2>7. LoopInv'
    BY <2>1, <2>2, <2>4, <2>5, <2>6 DEF LoopInv
  <2>8. answers' \in [Message -> Nat] /\ excuses' \in [Message -> Nat]
    BY <1>10, <2>1, ServedTypes DEF Process
  <2>9. GatewayInv' /\ StreamInv' /\ CountInv'
    BY <1>10, <2>8 DEF Process, GatewayInv, StreamInv, CountInv, Kafka
  <2>. QED BY <2>7, <2>9 DEF PipelineInv
<1>11. ASSUME NEW r \in Router, ProcessFails(r) \/ Ack(r) \/ AckFails(r) \/ RouterStops(r)
       PROVE PipelineInv'
  <2>1. PICK place \in {Free, [at |-> "down", entry |-> 0]} : router' = [router EXCEPT ![r] = place]
    BY <1>11 DEF ProcessFails, Ack, AckFails, RouterStops
  <2>2. place \in Place /\ place.at \notin {"working", "acking"}
    BY DEF Free, Place
  <2>3. UNCHANGED <<log, finished>>
    BY <1>11 DEF ProcessFails, Ack, AckFails, RouterStops
  <2>4. LoopInv'
    BY <2>1, <2>2, <2>3 DEF LoopInv
  <2>5. StreamInv'
    <3>1. CASE ProcessFails(r) \/ RouterStops(r)
      BY <3>1 DEF ProcessFails, RouterStops, StreamInv, Kafka
    <3>2. CASE Ack(r)
      <4>1. router[r].entry \in 1..Len(log)
        BY <3>2, HeldInLog DEF Ack, Holding
      <4>2. committed' \in Nat /\ UNCHANGED <<log, trimmed, lastRead>>
        BY <3>2, <4>1 DEF Ack, StreamInv
      <4>3. /\ pending' = pending \ {router[r].entry}
            /\ idle' = idle \ {router[r].entry}
        BY <3>2 DEF Ack
      <4>. QED BY <4>2, <4>3 DEF StreamInv, Kafka
    <3>3. CASE AckFails(r)
      BY <3>3 DEF AckFails, StreamInv, Kafka
    <3>. QED BY <1>11, <3>1, <3>2, <3>3
  <2>6. answers' \in [Message -> Nat] /\ excuses' \in [Message -> Nat]
    <3>1. CASE Holding(r)
      <4>1. log[router[r].entry] \in Message
        BY <3>1, HeldInLog
      <4>. QED BY <1>11, <3>1, <4>1, ServedTypes
               DEF ProcessFails, Ack, AckFails, RouterStops, served
    <3>2. CASE ~Holding(r)
      BY <1>11, <3>2 DEF ProcessFails, Ack, AckFails, RouterStops, Holding, served, CountInv
    <3>. QED BY <3>1, <3>2
  <2>7. GatewayInv' /\ CountInv'
    BY <1>11, <2>6, FaultTypes
    DEF ProcessFails, Ack, AckFails, RouterStops, GatewayInv, CountInv
  <2>. QED BY <2>4, <2>5, <2>7 DEF PipelineInv
<1>12. ASSUME NEW call \in calls, CallReturns(call) \/ CallFails(call) PROVE PipelineInv'
  <2>1. call.msg \in Message
    BY DEF CountInv
  <2>2. answers' \in [Message -> Nat] /\ excuses' \in [Message -> Nat]
    BY <1>12, <2>1, ServedTypes DEF CallReturns, CallFails
  <2>3. StreamInv' /\ LoopInv' /\ CountInv'
    BY <1>12, <2>2, FaultTypes DEF CallReturns, CallFails, StreamInv, LoopInv, CountInv, Kafka
  <2>4. Resting \in Work /\ Resting.at = "resting" /\ Resting.msg = None
    BY DEF Resting, Work
  <2>5. GatewayInv'
    <3>1. CASE CallReturns(call)
      BY <2>4, <3>1 DEF CallReturns, GatewayInv
    <3>2. CASE CallFails(call) /\ Awaited(call)
      BY <3>2, NextAttemptInv DEF CallFails, Awaited
    <3>3. CASE CallFails(call) /\ ~Awaited(call)
      BY <3>3 DEF CallFails, GatewayInv
    <3>. QED BY <1>12, <3>1, <3>2, <3>3
  <2>. QED BY <2>3, <2>5 DEF PipelineInv
<1>13. ASSUME NEW e \in pending, IdleElapses(e) PROVE PipelineInv'
  BY <1>13 DEF PipelineInv, IdleElapses, GatewayInv, StreamInv, LoopInv, CountInv, Kafka, served
<1>14. CASE UNCHANGED vars
  BY <1>14 DEF PipelineInv, GatewayInv, StreamInv, LoopInv, CountInv, Kafka, served, vars
<1>. QED BY <1>1, <1>2, <1>3, <1>4, <1>5, <1>6, <1>7, <1>8, <1>9, <1>10, <1>11, <1>12,
            <1>13, <1>14 DEF Next, GatewayStep, RouterStep

LEMMA InvInit == Init => PipelineInv
BY DEF Init, PipelineInv, GatewayInv, StreamInv, LoopInv, CountInv, Work, Resting, Place

\* The types, and what the worker and the loops hold, in every state of the pipeline.
THEOREM InvariantHolds == Spec => []PipelineInv
BY InvInit, InvStep, PTL DEF Spec

\* Every variable holds a value of its kind, in every state of the pipeline.
THEOREM TypeCorrect == Spec => []TypeOK
<1>1. PipelineInv => TypeOK
  BY DEF PipelineInv, GatewayInv, StreamInv, LoopInv, CountInv, Work, TypeOK
<1>. QED BY <1>1, InvariantHolds, PTL

-----------------------------------------------------------------------------
(* What the stream keeps *)

\* With Redis, the group has not been given an entry that was never added.
RedisInv == lastRead <= Len(log) /\ UnfinishedAvailable

LEMMA RedisStep ==
  ASSUME Backend = "redis", PipelineInv, RedisInv, [Next]_vars
  PROVE  RedisInv'
<1>. USE DEF gateway
<1>0. /\ ~Kafka /\ Len(log) \in Nat /\ lastRead \in Nat /\ trimmed \in Nat
      /\ lastRead <= Len(log)
      /\ \A e \in 1..Len(log) : e \in finished \/ e <= trimmed \/ e > lastRead \/ e \in pending
  BY DEF PipelineInv, StreamInv, Kafka, RedisInv, UnfinishedAvailable, Available
<1>a. ASSUME UNCHANGED <<log, trimmed, lastRead>>, pending \subseteq pending', finished \subseteq finished'
      PROVE  RedisInv'
  BY <1>0, <1>a DEF RedisInv, UnfinishedAvailable, Available, Kafka
<1>1. ASSUME NEW m \in Message, AppendEntry(m), UNCHANGED <<lastRead, pending, finished>>
      PROVE  RedisInv'
  <2>1. Len(log') = Len(log) + 1 /\ trimmed' \in Nat /\ trimmed <= trimmed'
    BY <1>1, AppendKeeps DEF PipelineInv, StreamInv
  <2>2. ASSUME NEW e \in 1..Len(log')
        PROVE  e \in finished \/ e <= trimmed' \/ e > lastRead \/ e \in pending
    <3>1. CASE e \in 1..Len(log)
      BY <1>0, <2>1, <3>1
    <3>2. CASE e = Len(log) + 1
      BY <1>0, <3>2
    <3>. QED BY <1>0, <2>1, <3>1, <3>2
  <2>. QED BY <1>0, <1>1, <2>1, <2>2 DEF RedisInv, UnfinishedAvailable, Available, Kafka
<1>2. ASSUME NEW m \in Message, Receive(m) PROVE RedisInv'
  BY <1>a, <1>2 DEF Receive, stream
<1>3. CASE GatewayStep
  <2>1. CASE TakeQueued \/ Post \/ PostFails \/ PostTimesOut
    BY <1>a, <2>1 DEF TakeQueued, Post, PostFails, PostTimesOut, stream
  <2>2. CASE Publish \/ PublishFails
    <3>1. worker.msg \in Message
      BY <2>2, WorkerHolds DEF PipelineInv, Publish, PublishFails
    <3>2. CASE UNCHANGED <<log, trimmed>>
      BY <1>a, <2>2, <3>2 DEF Publish, PublishFails
    <3>3. CASE AppendEntry(worker.msg)
      BY <1>1, <2>2, <3>1, <3>3 DEF Publish, PublishFails
    <3>. QED BY <2>2, <3>2, <3>3 DEF Publish, PublishFails
  <2>. QED BY <1>3, <2>1, <2>2 DEF GatewayStep
<1>4. CASE GatewayStops \/ UNCHANGED vars
  BY <1>a, <1>4 DEF GatewayStops, vars, stream
<1>5. ASSUME NEW r \in Router, Connect(r) PROVE RedisInv'
  BY <1>0, <1>a, <1>5 DEF Connect
<1>6. ASSUME NEW r \in Router, TakeNew(r) PROVE RedisInv'
  <2>1. PICK first \in First(Unread) : lastRead' = first /\ pending' = pending \cup {first}
    BY <1>6 DEF TakeNew
  <2>2. first \in 1..Len(log) /\ first > lastRead
    BY <2>1 DEF First, Unread
  <2>3. UNCHANGED <<log, trimmed, finished>>
    BY <1>6 DEF TakeNew
  <2>4. ASSUME NEW e \in 1..Len(log)
        PROVE  e \in finished \/ e <= trimmed \/ e > first \/ e \in pending'
    <3>1. CASE e \in Unread
      <4>1. first <= e
        BY <2>1, <3>1 DEF First
      <4>. QED BY <2>1, <2>2, <4>1
    <3>2. CASE e \notin Unread
      BY <1>0, <2>1, <3>2 DEF Unread
    <3>. QED BY <3>1, <3>2
  <2>. QED BY <1>0, <2>1, <2>2, <2>3, <2>4 DEF RedisInv, UnfinishedAvailable, Available, Kafka
<1>7. ASSUME NEW r \in Router, Claim(r) PROVE RedisInv'
  <2>1. pending' = pending \ (idle \ Claimable) /\ UNCHANGED <<log, trimmed, lastRead, finished>>
    BY <1>7 DEF Claim
  <2>2. \A e \in idle \ Claimable : ~(e > trimmed)
    BY DEF Claimable
  <2>3. ASSUME NEW e \in 1..Len(log)
        PROVE  e \in finished \/ e <= trimmed \/ e > lastRead \/ e \in pending'
    BY <1>0, <2>1, <2>2
  <2>. QED BY <1>0, <2>1, <2>3 DEF RedisInv, UnfinishedAvailable, Available, Kafka
<1>8. ASSUME NEW r \in Router, Process(r) \/ ProcessFails(r) \/ RouterStops(r) PROVE RedisInv'
  BY <1>a, <1>8 DEF Process, ProcessFails, RouterStops, stream
<1>9. ASSUME NEW r \in Router, Ack(r) PROVE RedisInv'
  <2>1. router[r].entry \in finished
    BY <1>9 DEF Ack, PipelineInv, LoopInv
  <2>2. pending' = pending \ {router[r].entry} /\ UNCHANGED <<log, trimmed, lastRead, finished>>
    BY <1>9 DEF Ack
  <2>. QED BY <1>0, <2>1, <2>2 DEF RedisInv, UnfinishedAvailable, Available, Kafka
<1>10. ASSUME NEW r \in Router, AckFails(r) PROVE RedisInv'
  BY <1>0, <1>a, <1>10 DEF AckFails
<1>11. ASSUME NEW call \in calls, CallReturns(call) \/ CallFails(call) PROVE RedisInv'
  BY <1>a, <1>11 DEF CallReturns, CallFails, stream
<1>12. ASSUME NEW e \in pending, IdleElapses(e) PROVE RedisInv'
  BY <1>a, <1>12 DEF IdleElapses
<1>. QED BY <1>2, <1>3, <1>4, <1>5, <1>6, <1>7, <1>8, <1>9, <1>10, <1>11, <1>12
         DEF Next, RouterStep

\* With Redis Streams, an entry whose processing never returned is still to be
\* delivered, unless the full stream has dropped it, whatever fails, stops or
\* is claimed (streams.py: consume, ack; main.py: _stream_consumer_loop).
THEOREM RedisRedelivers ==
  ASSUME Backend = "redis"
  PROVE  Spec => []UnfinishedAvailable
<1>1. Init => RedisInv
  BY DEF Init, RedisInv, UnfinishedAvailable
<1>2. PipelineInv /\ RedisInv /\ [Next]_vars => RedisInv'
  BY RedisStep
<1>3. RedisInv => UnfinishedAvailable
  BY DEF RedisInv
<1>. QED BY <1>1, <1>2, <1>3, InvariantHolds, PTL DEF Spec

-----------------------------------------------------------------------------
(* What becomes of an accepted message *)

Queued(m) == \E i \in 1..Len(queue) : queue[i] = m
Streamed(m) == \E e \in 1..Len(log) : log[e] = m
Kept(m) == InMemory(m) \/ m \in lost \/ Streamed(m) \/ answers[m] > 0
Seen(m) == InMemory(m) \/ Streamed(m) \/ answers[m] > 0 \/ \E call \in calls : call.msg = m

\* What is seen anywhere was accepted, and what was accepted is kept.
AccountInv ==
  /\ \A m \in Message : told[m] = "accepted" => Kept(m)
  /\ \A m \in Message : Seen(m) => told[m] = "accepted"

LEMMA MemoryParts ==
  ASSUME NEW m
  PROVE  InMemory(m) <=> (Queued(m) \/ worker.msg = m \/ m \in failed)
BY DEF InMemory, Queued

\* A step that accepts nothing and shows nothing new keeps the account.
LEMMA AccountKept ==
  ASSUME AccountInv, told' = told,
         \A m \in Message : Kept(m) => Kept(m)',
         \A m \in Message : Seen(m)' => Seen(m)
  PROVE  AccountInv'
BY DEF AccountInv

\* Publication adds its message to the stream, and no other.
LEMMA Published ==
  ASSUME NEW m \in Message, log \in Seq(Message), trimmed \in Nat, AppendEntry(m)
  PROVE  \A x \in Message : Streamed(x)' <=> (Streamed(x) \/ x = m)
<1>1. /\ Len(log) \in Nat /\ Len(log') = Len(log) + 1 /\ log'[Len(log) + 1] = m
      /\ \A e \in 1..Len(log) : log'[e] = log[e]
  BY AppendKeeps
<1>2. ASSUME NEW x \in Message, Streamed(x) PROVE Streamed(x)'
  BY <1>1, <1>2 DEF Streamed
<1>3. Streamed(m)'
  BY <1>1 DEF Streamed
<1>4. ASSUME NEW x \in Message, NEW e \in 1..Len(log'), log'[e] = x
      PROVE  Streamed(x) \/ x = m
  <2>1. e \in 1..Len(log) \/ e = Len(log) + 1
    BY <1>1
  <2>. QED BY <1>1, <1>4, <2>1 DEF Streamed
<1>. QED BY <1>2, <1>3, <1>4 DEF Streamed

\* Counting an answer shows the message, and no other.
LEMMA Counted ==
  ASSUME CountInv, NEW m \in Message,
         \/ CutShort(m)
         \/ Answered(m) /\ UNCHANGED excuses
         \/ Excused(m) /\ UNCHANGED answers
         \/ UNCHANGED served
  PROVE  \A x \in Message : /\ answers[x] > 0 => answers'[x] > 0
                            /\ answers'[x] > 0 => answers[x] > 0 \/ x = m
<1>1. answers' = answers \/ answers' = [answers EXCEPT ![m] = @ + 1]
  BY DEF CutShort, Answered, Excused, served
<1>2. \A x \in Message : answers[x] \in Nat
  BY DEF CountInv
<1>. QED BY <1>1, <1>2 DEF CountInv

\* A failed attempt keeps the message with the worker or among the failed.
LEMMA NextAttemptKeeps ==
  ASSUME GatewayInv, worker.at # "resting", NextAttempt, queue' = queue
  PROVE  \A m \in Message : InMemory(m)' <=> InMemory(m)
<1>1. worker \in Work /\ worker.msg \in Message
  BY WorkerHolds DEF GatewayInv
<1>2. \/ worker'.msg = worker.msg /\ failed' = failed
      \/ worker'.msg = None /\ failed' = failed \cup {worker.msg}
  <2>1. CASE worker.attempt < Retries
    <3>1. worker' = [at |-> "posting", msg |-> worker.msg, attempt |-> worker.attempt + 1]
      BY <1>1, <2>1 DEF NextAttempt, Work
    <3>2. failed' = failed
      BY <2>1 DEF NextAttempt
    <3>. QED BY <3>1, <3>2
  <2>2. CASE ~(worker.attempt < Retries)
    BY <2>2 DEF NextAttempt, Resting
  <2>. QED BY <2>1, <2>2
<1>. QED BY <1>1, <1>2, MessageAssumption DEF InMemory

LEMMA AccountStep == PipelineInv /\ AccountInv /\ [Next]_vars => AccountInv'
<1>. SUFFICES ASSUME GatewayInv, StreamInv, LoopInv, CountInv, AccountInv, [Next]_vars
              PROVE  AccountInv'
  BY DEF PipelineInv
<1>1. ASSUME NEW m \in Message, Receive(m) PROVE AccountInv'
  <2>1. UNCHANGED <<worker, failed, log, calls, answers, lost>> /\ told[m] # "accepted"
    BY <1>1 DEF Receive, stream, served
  <2>2. CASE told' = [told EXCEPT ![m] = "refused"] /\ queue' = queue
    <3>1. \A x \in Message : (Kept(x)' <=> Kept(x)) /\ (Seen(x)' <=> Seen(x))
      BY <2>1, <2>2 DEF Kept, Seen, InMemory, Streamed
    <3>2. \A x \in Message : told'[x] = "accepted" <=> told[x] = "accepted"
      BY <2>1, <2>2 DEF GatewayInv
    <3>. QED BY <3>1, <3>2 DEF AccountInv
  <2>3. CASE told' = [told EXCEPT ![m] = "accepted"] /\ queue' = Append(queue, m)
    <3>1. \A x \in Message : Queued(x)' <=> Queued(x) \/ x = m
      <4>1. /\ Len(queue) \in Nat /\ Len(queue') = Len(queue) + 1
            /\ queue'[Len(queue) + 1] = m
            /\ \A i \in 1..Len(queue) : queue'[i] = queue[i]
        BY <2>3 DEF GatewayInv
      <4>2. Queued(m)'
        BY <4>1 DEF Queued
      <4>3. ASSUME NEW x \in Message, Queued(x) PROVE Queued(x)'
        BY <4>1, <4>3 DEF Queued
      <4>4. ASSUME NEW x \in Message, NEW i \in 1..Len(queue'), queue'[i] = x
            PROVE  Queued(x) \/ x = m
        <5>1. i \in 1..Len(queue) \/ i = Len(queue) + 1
          BY <4>1
        <5>. QED BY <4>1, <4>4, <5>1 DEF Queued
      <4>. QED BY <4>2, <4>3, <4>4 DEF Queued
    <3>2. \A x \in Message : /\ Kept(x)' <=> Kept(x) \/ x = m
                             /\ Seen(x)' <=> Seen(x) \/ x = m
      <4>1. \A x \in Message : InMemory(x)' <=> InMemory(x) \/ x = m
        BY <2>1, <3>1 DEF InMemory, Queued
      <4>. QED BY <2>1, <4>1 DEF Kept, Seen, Streamed
    <3>3. \A x \in Message : told'[x] = "accepted" <=> told[x] = "accepted" \/ x = m
      BY <2>3 DEF GatewayInv
    <3>. QED BY <3>2, <3>3 DEF AccountInv
  <2>. QED BY <1>1, <2>2, <2>3 DEF Receive
<1>2. CASE TakeQueued
  <2>1. /\ worker.msg = None /\ worker'.msg = Head(queue) /\ queue' = Tail(queue)
        /\ queue # <<>> /\ UNCHANGED <<told, failed, log, calls, answers, lost>>
    BY <1>2 DEF TakeQueued, GatewayInv, stream, served
  <2>2. \A x \in Message : Queued(x) <=> Queued(x)' \/ x = Head(queue)
    <3>1. /\ Len(queue) \in Nat \ {0} /\ Len(queue') = Len(queue) - 1
          /\ Head(queue) = queue[1]
          /\ \A i \in 1..Len(queue') : queue'[i] = queue[i + 1]
      BY <2>1 DEF GatewayInv
    <3>2. ASSUME NEW x \in Message, NEW i \in 1..Len(queue), queue[i] = x
          PROVE  Queued(x)' \/ x = Head(queue)
      <4>1. CASE i = 1
        BY <3>1, <3>2, <4>1
      <4>2. CASE i # 1
        <5>1. i - 1 \in 1..Len(queue') /\ queue'[i - 1] = queue[i]
          BY <3>1, <4>2
        <5>. QED BY <3>2, <5>1 DEF Queued
      <4>. QED BY <4>1, <4>2
    <3>3. ASSUME NEW x \in Message, NEW i \in 1..Len(queue'), queue'[i] = x
          PROVE  Queued(x)
      <4>1. i + 1 \in 1..Len(queue) /\ queue[i + 1] = x
        BY <3>1, <3>3
      <4>. QED BY <4>1 DEF Queued
    <3>4. \A x \in Message : x = Head(queue) => Queued(x)
      BY <3>1 DEF Queued
    <3>. QED BY <3>2, <3>3, <3>4 DEF Queued
  <2>3. \A x \in Message : InMemory(x)' <=> InMemory(x)
    BY <2>1, <2>2, MessageAssumption DEF InMemory, Queued
  <2>. QED BY <2>1, <2>3, AccountKept DEF Kept, Seen, Streamed
<1>3. CASE Publish \/ PublishFails
  <2>1. worker.msg \in Message
    BY <1>3, WorkerHolds DEF Publish, PublishFails
  <2>2. UNCHANGED <<told, queue, failed, calls, answers, lost>>
    BY <1>3 DEF Publish, PublishFails, served
  <2>3. worker'.msg = worker.msg \/ (worker'.msg = None /\ AppendEntry(worker.msg))
    <3>1. CASE Publish
      BY <3>1 DEF Publish, Resting
    <3>2. CASE PublishFails
      <4>1. worker' = [at |-> "posting", msg |-> worker.msg, attempt |-> 1]
        BY <3>2 DEF PublishFails, GatewayInv, Work
      <4>. QED BY <4>1
    <3>. QED BY <1>3, <3>1, <3>2
  <2>4. \A x \in Message : Streamed(x)' => Streamed(x) \/ x = worker.msg
    BY <1>3, <2>1, Published DEF Publish, PublishFails, StreamInv, Streamed
  <2>5. \A x \in Message : Streamed(x) => Streamed(x)'
    BY <1>3, <2>1, Published DEF Publish, PublishFails, StreamInv, Streamed
  <2>6. ASSUME AppendEntry(worker.msg) PROVE \E e \in 1..Len(log') : log'[e] = worker.msg
    <3>1. Len(log) \in Nat /\ Len(log') = Len(log) + 1 /\ log'[Len(log) + 1] = worker.msg
      BY <2>1, <2>6, AppendKeeps DEF StreamInv
    <3>2. Len(log) + 1 \in 1..Len(log')
      BY <3>1
    <3>. QED BY <3>1, <3>2
  <2>7. InMemory(worker.msg)
    BY DEF InMemory
  <2>9. ASSUME NEW x \in Message, InMemory(x)' PROVE InMemory(x)
    <3>1. x # None
      BY MessageAssumption
    <3>. QED BY <2>2, <2>3, <2>9, <3>1 DEF InMemory
  <2>8. \A x \in Message : InMemory(x) => InMemory(x)' \/ Streamed(x)'
    BY <2>2, <2>3, <2>6 DEF InMemory, Streamed
  <2>. QED BY <2>2, <2>4, <2>5, <2>7, <2>9, <2>8, AccountKept DEF Kept, Seen
<1>4. CASE Post
  <2>1. worker.msg \in Message
    BY <1>4, WorkerHolds DEF Post
  <2>2. /\ worker'.msg = worker.msg
        /\ UNCHANGED <<told, queue, failed, log, answers, lost>>
        /\ \A call \in calls' : call \in calls \/ call.msg = worker.msg
    BY <1>4 DEF Post, GatewayInv, Work, stream, served
  <2>3. InMemory(worker.msg) /\ \A x \in Message : InMemory(x)' <=> InMemory(x)
    BY <2>2 DEF InMemory
  <2>. QED BY <2>2, <2>3, AccountKept DEF Kept, Seen, Streamed
<1>5. CASE PostFails \/ PostTimesOut
  <2>1. \A x \in Message : InMemory(x)' <=> InMemory(x)
    BY <1>5, NextAttemptKeeps DEF PostFails, PostTimesOut
  <2>2. UNCHANGED <<told, log, calls, answers, lost>>
    BY <1>5 DEF PostFails, PostTimesOut, stream, served
  <2>. QED BY <2>1, <2>2, AccountKept DEF Kept, Seen, Streamed
<1>6. CASE GatewayStops
  <2>1. /\ UNCHANGED <<told, log, calls, answers>>
        /\ lost' = lost \cup {m \in Message : InMemory(m)}
        /\ queue' = <<>> /\ worker'.msg = None /\ failed' = {}
    BY <1>6 DEF GatewayStops, stream, served, Resting
  <2>2. \A x \in Message : ~InMemory(x)'
    BY <2>1, MessageAssumption DEF InMemory
  <2>. QED BY <2>1, <2>2, AccountKept DEF Kept, Seen, Streamed
<1>7. ASSUME NEW r \in Router,
             Connect(r) \/ TakeNew(r) \/ Claim(r) \/ Ack(r) \/ AckFails(r)
      PROVE  AccountInv'
  <2>1. UNCHANGED <<gateway, log, calls, answers, lost>>
    BY <1>7 DEF Connect, TakeNew, Claim, Ack, AckFails, served
  <2>. QED BY <2>1, AccountKept DEF Kept, Seen, Streamed, InMemory, gateway
<1>8. ASSUME NEW r \in Router, Process(r) \/ ProcessFails(r) \/ RouterStops(r)
      PROVE  AccountInv'
  <2>1. UNCHANGED <<gateway, log, calls, lost>>
    BY <1>8 DEF Process, ProcessFails, RouterStops, stream
  <2>2. CASE Holding(r)
    <3>1. log[router[r].entry] \in Message /\ Streamed(log[router[r].entry])
      BY <2>2, HeldInLog DEF Streamed
    <3>2. \A x \in Message : /\ answers[x] > 0 => answers'[x] > 0
                             /\ answers'[x] > 0 => answers[x] > 0 \/ x = log[router[r].entry]
      BY <1>8, <3>1, Counted DEF Process, ProcessFails, RouterStops
    <3>. QED BY <2>1, <3>1, <3>2, AccountKept DEF Kept, Seen, Streamed, InMemory, gateway
  <2>3. CASE ~Holding(r)
    <3>1. UNCHANGED answers
      BY <1>8, <2>3 DEF Process, ProcessFails, RouterStops, Holding, served
    <3>. QED BY <2>1, <3>1, AccountKept DEF Kept, Seen, Streamed, InMemory, gateway
  <2>. QED BY <2>2, <2>3
<1>9. ASSUME NEW call \in calls, CallReturns(call) \/ CallFails(call) PROVE AccountInv'
  <2>1. call.msg \in Message /\ Seen(call.msg)
    BY DEF CountInv, Seen
  <2>2. UNCHANGED <<told, queue, log, lost>> /\ calls' = calls \ {call}
    BY <1>9 DEF CallReturns, CallFails, stream
  <2>3. \A x \in Message : /\ answers[x] > 0 => answers'[x] > 0
                           /\ answers'[x] > 0 => answers[x] > 0 \/ x = call.msg
    BY <1>9, <2>1, Counted DEF CallReturns, CallFails
  <2>4. CallReturns(call) => answers'[call.msg] > 0
    BY <2>1 DEF CallReturns, Answered, CountInv
  <2>5. \A x \in Message : /\ InMemory(x)' => InMemory(x)
                           /\ InMemory(x) => InMemory(x)' \/ answers'[x] > 0
    <3>1. CASE CallFails(call) /\ Awaited(call)
      BY <2>2, <3>1, NextAttemptKeeps DEF CallFails, Awaited
    <3>2. CASE CallFails(call) /\ ~Awaited(call)
      BY <2>2, <3>2 DEF CallFails, InMemory
    <3>3. CASE CallReturns(call)
      <4>1. \/ worker' = worker
            \/ worker'.msg = None /\ worker.msg = call.msg
        BY <3>3 DEF CallReturns, Awaited, Resting
      <4>2. failed' = failed
        BY <3>3 DEF CallReturns
      <4>. QED BY <2>2, <2>4, <3>3, <4>1, <4>2, MessageAssumption DEF InMemory
    <3>. QED BY <1>9, <3>1, <3>2, <3>3
  <2>. QED BY <2>1, <2>2, <2>3, <2>5, AccountKept DEF Kept, Seen, Streamed
<1>10. ASSUME (\E e \in pending : IdleElapses(e)) \/ UNCHANGED vars PROVE AccountInv'
  <2>1. UNCHANGED <<gateway, log, calls, answers, lost>>
    BY <1>10 DEF IdleElapses, vars, stream, served
  <2>. QED BY <2>1, AccountKept DEF Kept, Seen, Streamed, InMemory, gateway
<1>. QED BY <1>1, <1>2, <1>3, <1>4, <1>5, <1>6, <1>7, <1>8, <1>9, <1>10
         DEF Next, GatewayStep, RouterStep

LEMMA AccountInit == Init => AccountInv
BY MessageAssumption DEF Init, AccountInv, Kept, Seen, Streamed, InMemory, Resting

\* A message whose sender was told that it is queued is in the gateway, in the
\* stream, answered, or was lost with the gateway's memory; one whose sender was
\* not told so is nowhere (sms_gateway/main.py: receive_message, _forward_worker).
THEOREM AcceptedIsAccounted == Spec => []AcceptedAccounted
<1>1. Init => AccountInv
  BY AccountInit
<1>2. PipelineInv /\ AccountInv => AcceptedAccounted
  <2>1. SUFFICES ASSUME PipelineInv, AccountInv PROVE AcceptedAccounted
    OBVIOUS
  <2>2. \A m \in Message : answers[m] \in Nat
    BY <2>1 DEF PipelineInv, CountInv
  <2>. QED BY <2>1, <2>2 DEF AcceptedAccounted, AccountInv, Kept, Seen, Streamed
<1>. QED BY <1>1, <1>2, AccountStep, InvariantHolds, PTL DEF Spec

-----------------------------------------------------------------------------
(* How often a message is answered *)

\* The ways in which m may still be answered: the gateway may forward it, the group may
\* deliver an entry of it, a loop works on one, or a call is under way.
Forwardable(m) ==
  \/ told[m] # "accepted"
  \/ Queued(m)
  \/ worker.msg = m /\ worker.at \in {"publishing", "posting"}
Unheld == {e \in pending : ~Held(e)}
Due(m) == {e \in 1..Len(log) : log[e] = m /\ (e > lastRead \/ e \in Unheld)}
WorkedOn(m) == {r \in Router : router[r].at = "working" /\ log[router[r].entry] = m}
Called(m) == {call \in calls : call.msg = m}

Forwards(m) == IF Forwardable(m) THEN 1 ELSE 0

\* The answers of m, sent and still possible, are one and the excused ones.
Owed(m) ==
  /\ IsFiniteSet(Due(m)) /\ IsFiniteSet(WorkedOn(m)) /\ IsFiniteSet(Called(m))
  /\ answers[m] + Forwards(m) + Cardinality(Due(m)) + Cardinality(WorkedOn(m))
       + Cardinality(Called(m)) <= 1 + excuses[m]

\* The gateway holds a message once, and with Redis only delivered entries are pending.
GatewayOnce ==
  /\ \A i, j \in 1..Len(queue) : queue[i] = queue[j] => i = j
  /\ \A i \in 1..Len(queue) : queue[i] # worker.msg
DebtInv ==
  /\ GatewayOnce
  /\ \A e \in pending : e <= lastRead
  /\ \A m \in Message : Owed(m)

\* The set S gives T and loses an element, neither loses nor gains one, or gains one.
Becomes(S, T, n) ==
  \/ n = -1 /\ \E x \in S : T \subseteq S \ {x}
  \/ n = 0 /\ T \subseteq S
  \/ n = 1 /\ \E x : T \subseteq S \cup {x}

LEMMA SetCounts ==
  ASSUME NEW S, IsFiniteSet(S)
  PROVE  Cardinality(S) \in Nat
BY FS_CardinalityType, Zenon

LEMMA SetStays ==
  ASSUME NEW S, NEW T, IsFiniteSet(S), T \subseteq S
  PROVE  IsFiniteSet(T) /\ Cardinality(T) \in Nat /\ Cardinality(T) <= Cardinality(S)
<1>1. T \in SUBSET S
  OBVIOUS
<1>2. IsFiniteSet(T) /\ Cardinality(T) <= Cardinality(S)
  BY <1>1, FS_Subset, Zenon
<1>. QED BY <1>2, SetCounts

LEMMA SetGrows ==
  ASSUME NEW S, NEW x, NEW T, IsFiniteSet(S), T \subseteq S \cup {x}
  PROVE  IsFiniteSet(T) /\ Cardinality(T) \in Nat /\ Cardinality(T) <= Cardinality(S) + 1
<1>1. PICK U : U = S \cup {x}
  OBVIOUS
<1>2. /\ IsFiniteSet(U)
      /\ Cardinality(U) = IF x \in S THEN Cardinality(S) ELSE Cardinality(S) + 1
  BY <1>1, FS_AddElement
<1>3. IsFiniteSet(T) /\ Cardinality(T) \in Nat /\ Cardinality(T) <= Cardinality(U)
  BY <1>1, <1>2, SetStays
<1>. QED BY <1>2, <1>3, SetCounts

LEMMA SetShrinks ==
  ASSUME NEW S, NEW x \in S, NEW T, IsFiniteSet(S), T \subseteq S \ {x}
  PROVE  IsFiniteSet(T) /\ Cardinality(T) \in Nat /\ Cardinality(T) + 1 <= Cardinality(S)
<1>1. PICK U : U = S \ {x}
  OBVIOUS
<1>2. /\ IsFiniteSet(U)
      /\ Cardinality(U) = IF x \in S THEN Cardinality(S) - 1 ELSE Cardinality(S)
  BY <1>1, FS_RemoveElement
<1>3. IsFiniteSet(T) /\ Cardinality(T) \in Nat /\ Cardinality(T) <= Cardinality(U)
  BY <1>1, <1>2, SetStays
<1>. QED BY <1>2, <1>3, SetCounts

\* The counts of a message are natural, before and after a step.
LEMMA CountsNatural ==
  ASSUME CountInv, CountInv', NEW m \in Message, Owed(m)
  PROVE  /\ answers[m] \in Nat /\ excuses[m] \in Nat /\ Forwards(m) \in 0..1
         /\ answers'[m] \in Nat /\ excuses'[m] \in Nat /\ Forwards(m)' \in 0..1
         /\ Cardinality(Due(m)) \in Nat /\ Cardinality(WorkedOn(m)) \in Nat
         /\ Cardinality(Called(m)) \in Nat
BY SetCounts DEF CountInv, Owed, Forwards

LEMMA Becoming ==
  ASSUME NEW S, NEW T, NEW n, IsFiniteSet(S), Becomes(S, T, n)
  PROVE  /\ IsFiniteSet(T) /\ Cardinality(T) \in Nat
         /\ n \in -1..1 /\ Cardinality(T) <= Cardinality(S) + n
<1>1. CASE n = -1
  BY <1>1, SetShrinks, SetCounts DEF Becomes
<1>2. CASE n = 0
  BY <1>2, SetStays, SetCounts DEF Becomes
<1>3. CASE n = 1
  <2>1. PICK x : T \subseteq S \cup {x}
    BY <1>3 DEF Becomes
  <2>2. IsFiniteSet(T) /\ Cardinality(T) \in Nat /\ Cardinality(T) <= Cardinality(S) + 1
    BY <2>1, SetGrows
  <2>. QED BY <1>3, <2>2
<1>. QED BY <1>1, <1>2, <1>3 DEF Becomes

\* What a step adds to the answers of m, sent and possible, it adds to the excuses.
LEMMA OwedMoves ==
  ASSUME CountInv, CountInv', NEW m \in Message, Owed(m),
         NEW a \in Int, NEW k \in Int, NEW f \in Int, NEW d, NEW w, NEW c,
         answers'[m] <= answers[m] + a, excuses[m] + k <= excuses'[m],
         Forwards(m)' <= Forwards(m) + f,
         Becomes(Due(m), Due(m)', d), Becomes(WorkedOn(m), WorkedOn(m)', w),
         Becomes(Called(m), Called(m)', c),
         a + f + d + w + c <= k
  PROVE  Owed(m)'
<1>1. /\ IsFiniteSet(Due(m)') /\ Cardinality(Due(m)') \in Nat
      /\ d \in -1..1 /\ Cardinality(Due(m)') <= Cardinality(Due(m)) + d
  BY Becoming DEF Owed
<1>2. /\ IsFiniteSet(WorkedOn(m)') /\ Cardinality(WorkedOn(m)') \in Nat
      /\ w \in -1..1 /\ Cardinality(WorkedOn(m)') <= Cardinality(WorkedOn(m)) + w
  BY Becoming DEF Owed
<1>3. /\ IsFiniteSet(Called(m)') /\ Cardinality(Called(m)') \in Nat
      /\ c \in -1..1 /\ Cardinality(Called(m)') <= Cardinality(Called(m)) + c
  BY Becoming DEF Owed
<1>. QED BY <1>1, <1>2, <1>3, CountsNatural DEF Owed

\* A step that adds no way of answering m and no answer.
LEMMA OwedStays ==
  ASSUME CountInv, CountInv', NEW m \in Message, Owed(m),
         answers'[m] = answers[m], excuses[m] <= excuses'[m],
         Forwardable(m)' => Forwardable(m),
         Due(m)' \subseteq Due(m), WorkedOn(m)' \subseteq WorkedOn(m),
         Called(m)' \subseteq Called(m)
  PROVE  Owed(m)'
<1>1. Forwards(m)' <= Forwards(m) + 0
  BY DEF Forwards
<1>2. answers'[m] <= answers[m] + 0 /\ excuses[m] + 0 <= excuses'[m]
  BY CountsNatural
<1>3. /\ Becomes(Due(m), Due(m)', 0) /\ Becomes(WorkedOn(m), WorkedOn(m)', 0)
      /\ Becomes(Called(m), Called(m)', 0)
  BY DEF Becomes
<1>. QED BY <1>1, <1>2, <1>3, OwedMoves

-----------------------------------------------------------------------------

\* The gateway is given a message once: it is not accepted again.
LEMMA GatewayOnceStep ==
  ASSUME PipelineInv, AccountInv, GatewayOnce, [Next]_vars
  PROVE  GatewayOnce'
<1>0. /\ queue \in Seq(Message) /\ Len(queue) \in Nat /\ worker \in Work
      /\ None \notin Message /\ \A i \in 1..Len(queue) : queue[i] \in Message
  BY MessageAssumption DEF PipelineInv, GatewayInv
<1>1. ASSUME queue' = queue, worker'.msg \in {worker.msg, None} PROVE GatewayOnce'
  BY <1>0, <1>1 DEF GatewayOnce
<1>2. ASSUME NEW m \in Message, Receive(m) PROVE GatewayOnce'
  <2>1. told[m] # "accepted" /\ worker' = worker
    BY <1>2 DEF Receive
  <2>2. worker.msg # m /\ \A i \in 1..Len(queue) : queue[i] # m
    BY <2>1 DEF AccountInv, Seen, InMemory
  <2>3. CASE queue' = queue
    BY <1>1, <2>1, <2>3
  <2>4. CASE queue' = Append(queue, m)
    <3>1. /\ Len(queue') = Len(queue) + 1 /\ queue'[Len(queue) + 1] = m
          /\ \A i \in 1..Len(queue) : queue'[i] = queue[i]
      BY <1>0, <2>4
    <3>2. \A i \in 1..Len(queue') : i \in 1..Len(queue) \/ i = Len(queue) + 1
      BY <1>0, <3>1
    <3>. QED BY <2>1, <2>2, <3>1, <3>2 DEF GatewayOnce
  <2>. QED BY <1>2, <2>3, <2>4 DEF Receive
<1>3. CASE TakeQueued
  <2>1. queue # <<>> /\ queue' = Tail(queue) /\ worker'.msg = Head(queue)
    BY <1>3 DEF TakeQueued
  <2>2. /\ Len(queue) \in Nat \ {0} /\ Len(queue') = Len(queue) - 1
        /\ Head(queue) = queue[1]
        /\ \A i \in 1..Len(queue') : queue'[i] = queue[i + 1]
    BY <1>0, <2>1
  <2>3. \A i \in 1..Len(queue') : i + 1 \in 1..Len(queue) /\ i + 1 # 1
    BY <2>2
  <2>4. 1 \in 1..Len(queue) /\ \A i, j \in 1..Len(queue') : i + 1 = j + 1 => i = j
    BY <2>2
  <2>. QED BY <2>1, <2>2, <2>3, <2>4 DEF GatewayOnce
<1>4. CASE Publish \/ PublishFails \/ Post
  <2>1. CASE Publish
    BY <1>1, <2>1 DEF Publish, Resting
  <2>2. CASE PublishFails
    <3>1. worker' = [at |-> "posting", msg |-> worker.msg, attempt |-> 1] /\ queue' = queue
      BY <1>0, <2>2 DEF PublishFails, Work
    <3>. QED BY <1>1, <3>1
  <2>3. CASE Post
    <3>1. worker' = [at |-> "waiting", msg |-> worker.msg, attempt |-> worker.attempt]
      BY <1>0, <2>3 DEF Post, Work
    <3>. QED BY <1>1, <2>3, <3>1 DEF Post
  <2>. QED BY <1>4, <2>1, <2>2, <2>3
<1>5. ASSUME worker.at # "resting", NextAttempt, queue' = queue PROVE GatewayOnce'
  <2>1. CASE worker.attempt < Retries
    <3>1. worker' = [at |-> "posting", msg |-> worker.msg, attempt |-> worker.attempt + 1]
      BY <1>0, <1>5, <2>1 DEF NextAttempt, Work
    <3>. QED BY <1>1, <1>5, <3>1
  <2>2. CASE ~(worker.attempt < Retries)
    BY <1>1, <1>5, <2>2 DEF NextAttempt, Resting
  <2>. QED BY <2>1, <2>2
<1>6. CASE PostFails \/ PostTimesOut
  BY <1>5, <1>6 DEF PostFails, PostTimesOut
<1>7. CASE GatewayStops
  <2>1. queue' = <<>>
    BY <1>7 DEF GatewayStops
  <2>. QED BY <2>1 DEF GatewayOnce
<1>8. ASSUME NEW r \in Router, RouterStep(r) \/ RouterStops(r) PROVE GatewayOnce'
  <2>1. UNCHANGED gateway
    BY <1>8 DEF RouterStep, RouterStops, Connect, TakeNew, Claim, Process, ProcessFails, Ack,
                AckFails
  <2>. QED BY <1>1, <2>1 DEF gateway
<1>9. ASSUME NEW call \in calls, CallReturns(call) \/ CallFails(call) PROVE GatewayOnce'
  <2>1. CASE CallReturns(call)
    BY <1>1, <2>1 DEF CallReturns, Resting
  <2>2. CASE CallFails(call) /\ Awaited(call)
    BY <1>5, <2>2 DEF CallFails, Awaited
  <2>3. CASE CallFails(call) /\ ~Awaited(call)
    BY <1>1, <2>3 DEF CallFails
  <2>. QED BY <1>9, <2>1, <2>2, <2>3
<1>10. CASE (\E e \in pending : IdleElapses(e)) \/ UNCHANGED vars
  BY <1>1, <1>10 DEF IdleElapses, vars, gateway
<1>. QED BY <1>2, <1>3, <1>4, <1>6, <1>7, <1>8, <1>9, <1>10 DEF Next, GatewayStep

\* With Redis, an entry is pending once it has been delivered.
LEMMA DeliveredStep ==
  ASSUME Backend = "redis", PipelineInv, \A e \in pending : e <= lastRead, [Next]_vars
  PROVE  \A e \in pending' : e <= lastRead'
<1>1. ASSUME lastRead' = lastRead, pending' \subseteq pending
      PROVE  \A e \in pending' : e <= lastRead'
  BY <1>1
<1>2. ASSUME NEW r \in Router, TakeNew(r) PROVE \A e \in pending' : e <= lastRead'
  <2>1. PICK first \in First(Unread) : lastRead' = first /\ pending' = pending \cup {first}
    BY <1>2 DEF TakeNew
  <2>2. /\ first \in Nat /\ first > lastRead /\ lastRead \in Nat
        /\ pending \subseteq Nat
    BY <2>1 DEF First, Unread, PipelineInv, StreamInv
  <2>. QED BY <2>1, <2>2
<1>3. ASSUME NEW r \in Router, RouterStep(r) \/ RouterStops(r), ~TakeNew(r)
      PROVE  \A e \in pending' : e <= lastRead'
  <2>1. lastRead' = lastRead /\ pending' \subseteq pending
    BY <1>3 DEF RouterStep, RouterStops, Connect, Claim, Process, ProcessFails, Ack, AckFails,
                stream, Kafka
  <2>. QED BY <1>1, <2>1
<1>4. CASE GatewayStep \/ GatewayStops \/ UNCHANGED vars
  BY <1>1, <1>4 DEF GatewayStep, GatewayStops, TakeQueued, Publish, PublishFails, Post, PostFails,
                    PostTimesOut, stream, vars
<1>5. ASSUME NEW m \in Message, Receive(m) PROVE \A e \in pending' : e <= lastRead'
  BY <1>1, <1>5 DEF Receive, stream
<1>6. ASSUME NEW call \in calls, CallReturns(call) \/ CallFails(call)
      PROVE  \A e \in pending' : e <= lastRead'
  BY <1>1, <1>6 DEF CallReturns, CallFails, stream
<1>7. ASSUME NEW e \in pending, IdleElapses(e) PROVE \A f \in pending' : f <= lastRead'
  BY <1>1, <1>7 DEF IdleElapses
<1>. QED BY <1>2, <1>3, <1>4, <1>5, <1>6, <1>7 DEF Next

\* What a step counts for a message.
LEMMA Counting ==
  ASSUME CountInv, NEW m \in Message, NEW x \in Message
  PROVE  /\ UNCHANGED served => answers'[x] = answers[x] /\ excuses'[x] = excuses[x]
         /\ Answered(m) => /\ x = m => answers'[x] = answers[x] + 1
                           /\ x # m => answers'[x] = answers[x]
         /\ Excused(m) => /\ x = m => excuses'[x] = excuses[x] + 1
                          /\ x # m => excuses'[x] = excuses[x]
         /\ CutShort(m) => /\ \E k \in 0..1 : /\ answers'[x] = answers[x] + k
                                              /\ excuses'[x] = excuses[x] + k
                           /\ x # m => answers'[x] = answers[x] /\ excuses'[x] = excuses[x]
<1>1. \A y \in Message : answers[y] \in Nat /\ excuses[y] \in Nat
  BY DEF CountInv
<1>2. Answered(m) => /\ x = m => answers'[x] = answers[x] + 1
                     /\ x # m => answers'[x] = answers[x]
  BY DEF CountInv, Answered
<1>3. Excused(m) => /\ x = m => excuses'[x] = excuses[x] + 1
                    /\ x # m => excuses'[x] = excuses[x]
  BY DEF CountInv, Excused
<1>4. UNCHANGED served => answers'[x] = answers[x] /\ excuses'[x] = excuses[x]
  BY DEF served
<1>5. ASSUME CutShort(m)
      PROVE  /\ \E k \in 0..1 : answers'[x] = answers[x] + k /\ excuses'[x] = excuses[x] + k
             /\ x # m => answers'[x] = answers[x] /\ excuses'[x] = excuses[x]
  <2>1. CASE UNCHANGED served \/ x # m
    <3>1. answers'[x] = answers[x] + 0 /\ excuses'[x] = excuses[x] + 0
      BY <1>1, <1>2, <1>3, <1>4, <1>5, <2>1 DEF CutShort
    <3>. QED BY <1>1, <3>1
  <2>2. CASE Answered(m) /\ Excused(m) /\ x = m
    BY <1>1, <1>2, <1>3, <2>2
  <2>. QED BY <1>5, <2>1, <2>2 DEF CutShort
<1>. QED BY <1>2, <1>3, <1>4, <1>5

\* While stream and loops stay, so does what they still deliver of a message.
LEMMA DueStays ==
  ASSUME NEW x, UNCHANGED <<log, lastRead, pending, router>>
  PROVE  Due(x)' = Due(x) /\ WorkedOn(x)' = WorkedOn(x)
<1>1. Unheld' = Unheld
  BY DEF Unheld, Held, Holding
<1>. QED BY <1>1 DEF Due, WorkedOn

\* Publication makes the new entry due.
LEMMA AppendDue ==
  ASSUME StreamInv, LoopInv, NEW m \in Message, NEW x \in Message, AppendEntry(m),
         UNCHANGED <<lastRead, pending, router>>
  PROVE  /\ WorkedOn(x)' \subseteq WorkedOn(x)
         /\ Due(x)' \subseteq Due(x) \cup {Len(log) + 1}
         /\ x # m => Due(x)' \subseteq Due(x)
<1>1. /\ Len(log') = Len(log) + 1 /\ Len(log) \in Nat
      /\ log'[Len(log) + 1] = m /\ \A e \in 1..Len(log) : log'[e] = log[e]
  BY AppendKeeps DEF StreamInv
<1>2. Unheld' = Unheld
  BY DEF Unheld, Held, Holding
<1>3. \A e \in 1..Len(log') : e \in 1..Len(log) \/ e = Len(log) + 1
  BY <1>1
<1>4. WorkedOn(x)' \subseteq WorkedOn(x)
  BY <1>1 DEF WorkedOn, LoopInv
<1>5. ASSUME NEW e \in Due(x)' PROVE e \in Due(x) \/ (e = Len(log) + 1 /\ x = m)
  <2>1. e \in 1..Len(log') /\ log'[e] = x /\ (e > lastRead \/ e \in Unheld)
    BY <1>2 DEF Due
  <2>2. CASE e \in 1..Len(log)
    <3>1. log[e] = x
      BY <1>1, <2>1, <2>2
    <3>. QED BY <2>1, <2>2, <3>1 DEF Due
  <2>3. CASE e = Len(log) + 1
    BY <1>1, <2>1, <2>3
  <2>. QED BY <1>3, <2>1, <2>2, <2>3
<1>. QED BY <1>4, <1>5

\* A failed attempt makes only the worker's message one to be forwarded.
LEMMA AttemptForwards ==
  ASSUME GatewayInv, worker.at # "resting", NextAttempt, UNCHANGED <<told, queue>>,
         NEW x \in Message
  PROVE  Forwardable(x)' => Forwardable(x) \/ x = worker.msg
<1>1. worker'.msg = worker.msg \/ worker'.msg = None
  <2>1. CASE worker.attempt < Retries
    <3>1. worker' = [at |-> "posting", msg |-> worker.msg, attempt |-> worker.attempt + 1]
      BY <2>1 DEF NextAttempt, GatewayInv, Work
    <3>. QED BY <3>1
  <2>2. CASE ~(worker.attempt < Retries)
    BY <2>2 DEF NextAttempt, Resting
  <2>. QED BY <2>1, <2>2
<1>. QED BY <1>1, MessageAssumption DEF Forwardable, Queued

\* The gateway's steps: the one way of forwarding m becomes an entry or a call, or m is
\* excused.
LEMMA OwedGateway ==
  ASSUME PipelineInv, PipelineInv', AccountInv, GatewayOnce, GatewayOnce',
         NEW x \in Message, Owed(x),
         (\E m \in Message : Receive(m)) \/ GatewayStep \/ GatewayStops
  PROVE  Owed(x)'
<1>0. /\ GatewayInv /\ StreamInv /\ LoopInv /\ CountInv /\ CountInv' /\ worker \in Work
      /\ x # None
  BY MessageAssumption DEF PipelineInv, GatewayInv
<1>1. /\ answers[x] \in Nat /\ excuses[x] \in Nat /\ Forwards(x) \in 0..1
      /\ answers'[x] \in Nat /\ excuses'[x] \in Nat /\ Forwards(x)' \in 0..1
  BY <1>0, CountsNatural
<1>2. ASSUME UNCHANGED <<log, lastRead, pending, router, calls>>,
             answers'[x] = answers[x], excuses[x] <= excuses'[x],
             Forwardable(x)' => Forwardable(x)
      PROVE  Owed(x)'
  <2>1. Called(x)' = Called(x)
    BY <1>2 DEF Called
  <2>. QED BY <1>0, <1>2, <2>1, DueStays, OwedStays
<1>3. ASSUME NEW m \in Message, Receive(m) PROVE Owed(x)'
  <2>1. Forwardable(x)' => Forwardable(x)
    <3>1. told[m] # "accepted" /\ UNCHANGED <<worker>>
      BY <1>3 DEF Receive
    <3>2. CASE x = m
      BY <3>1, <3>2 DEF Forwardable
    <3>3. CASE x # m
      <4>1. told'[x] = told[x]
        BY <1>0, <1>3, <3>3 DEF Receive, GatewayInv
      <4>2. Queued(x)' => Queued(x)
        <5>1. CASE queue' = queue
          BY <5>1 DEF Queued
        <5>2. CASE queue' = Append(queue, m)
          <6>1. /\ Len(queue') = Len(queue) + 1 /\ Len(queue) \in Nat
                /\ queue'[Len(queue) + 1] = m
                /\ \A i \in 1..Len(queue) : queue'[i] = queue[i]
            BY <1>0, <5>2 DEF GatewayInv
          <6>2. \A i \in 1..Len(queue') : i \in 1..Len(queue) \/ i = Len(queue) + 1
            BY <6>1
          <6>. QED BY <3>3, <6>1, <6>2 DEF Queued
        <5>. QED BY <1>3, <5>1, <5>2 DEF Receive
      <4>. QED BY <3>1, <4>1, <4>2 DEF Forwardable
    <3>. QED BY <3>2, <3>3
  <2>2. UNCHANGED <<log, lastRead, pending, router, calls, answers, excuses>>
    BY <1>3 DEF Receive, stream, served
  <2>. QED BY <1>1, <1>2, <2>1, <2>2
<1>4. CASE TakeQueued
  <2>1. /\ queue # <<>> /\ queue' = Tail(queue) /\ worker'.msg = Head(queue)
        /\ UNCHANGED <<told, log, lastRead, pending, router, calls, answers, excuses>>
    BY <1>4 DEF TakeQueued, stream, served
  <2>2. /\ Len(queue) \in Nat \ {0} /\ Len(queue') = Len(queue) - 1
        /\ Head(queue) = queue[1]
        /\ \A i \in 1..Len(queue') : queue'[i] = queue[i + 1]
    BY <1>0, <2>1 DEF GatewayInv
  <2>3. 1 \in 1..Len(queue) /\ \A i \in 1..Len(queue') : i + 1 \in 1..Len(queue)
    BY <2>2
  <2>4. (Queued(x)' => Queued(x)) /\ (worker'.msg = x => Queued(x))
    BY <2>1, <2>2, <2>3 DEF Queued
  <2>5. Forwardable(x)' => Forwardable(x)
    BY <2>1, <2>4 DEF Forwardable
  <2>. QED BY <1>1, <1>2, <2>1, <2>5
<1>5. CASE Publish \/ PublishFails
  <2>1. worker.msg \in Message /\ worker.at = "publishing"
    BY <1>0, <1>5, WorkerHolds DEF Publish, PublishFails
  <2>2. UNCHANGED <<told, queue, lastRead, pending, router, calls, answers>>
    BY <1>5 DEF Publish, PublishFails, served
  <2>3. Called(x)' = Called(x)
    BY <2>2 DEF Called
  <2>4. ASSUME AppendEntry(worker.msg)
        PROVE  /\ Becomes(Due(x), Due(x)', IF x = worker.msg THEN 1 ELSE 0)
               /\ Becomes(WorkedOn(x), WorkedOn(x)', 0) /\ Becomes(Called(x), Called(x)', 0)
    <3>1. /\ WorkedOn(x)' \subseteq WorkedOn(x)
          /\ Due(x)' \subseteq Due(x) \cup {Len(log) + 1}
          /\ x # worker.msg => Due(x)' \subseteq Due(x)
      BY <1>0, <2>1, <2>2, <2>4, AppendDue
    <3>. QED BY <2>3, <3>1 DEF Becomes
  <2>5. CASE Publish
    <3>1. /\ AppendEntry(worker.msg) /\ worker'.at = "resting" /\ worker'.msg = None
          /\ UNCHANGED excuses
      BY <2>5 DEF Publish, Resting, served
    <3>2. Forwardable(x)' => Forwardable(x)
      BY <1>0, <2>2, <3>1 DEF Forwardable, Queued
    <3>3. CASE x # worker.msg
      BY <1>0, <1>1, <2>2, <2>4, <3>1, <3>2, <3>3, OwedStays DEF Becomes
    <3>4. CASE x = worker.msg
      <4>1. told[x] = "accepted" /\ ~Queued(x)
        BY <3>4 DEF AccountInv, Seen, InMemory, GatewayOnce, Queued
      <4>2. Forwards(x) = 1 /\ Forwards(x)' = 0
        BY <1>0, <2>1, <2>2, <3>1, <3>4, <4>1 DEF Forwards, Forwardable, Queued
      <4>3. /\ answers'[x] <= answers[x] + 0 /\ excuses[x] + 0 <= excuses'[x]
            /\ Forwards(x)' <= Forwards(x) + (-1) /\ 0 + (-1) + 1 + 0 + 0 <= 0
        BY <1>1, <2>2, <3>1, <4>2
      <4>4. /\ Becomes(Due(x), Due(x)', 1) /\ Becomes(WorkedOn(x), WorkedOn(x)', 0)
            /\ Becomes(Called(x), Called(x)', 0)
        BY <2>4, <3>1, <3>4
      <4>. QED BY <1>0, <4>3, <4>4, OwedMoves
    <3>. QED BY <3>3, <3>4
  <2>6. CASE PublishFails
    <3>1. worker' = [at |-> "posting", msg |-> worker.msg, attempt |-> 1]
      BY <1>0, <2>6 DEF PublishFails, Work
    <3>2. Forwardable(x)' => Forwardable(x)
      BY <1>0, <2>1, <2>2, <3>1 DEF Forwardable, Queued
    <3>3. CASE UNCHANGED <<log, trimmed, served>>
      BY <1>1, <1>2, <2>2, <3>2, <3>3 DEF served
    <3>4. CASE AppendEntry(worker.msg) /\ Excused(worker.msg)
      <4>1. /\ x = worker.msg => excuses'[x] = excuses[x] + 1
            /\ x # worker.msg => excuses'[x] = excuses[x]
        BY <1>0, <2>1, <3>4, Counting
      <4>2. CASE x # worker.msg
        BY <1>0, <1>1, <2>2, <2>4, <3>2, <3>4, <4>1, <4>2, OwedStays DEF Becomes
      <4>3. CASE x = worker.msg
        <5>1. Forwards(x)' <= Forwards(x) + 0
          BY <1>1, <3>2 DEF Forwards
        <5>2. /\ answers'[x] <= answers[x] + 0 /\ excuses[x] + 1 <= excuses'[x]
              /\ 0 + 0 + 1 + 0 + 0 <= 1
          BY <1>1, <2>2, <4>1, <4>3
        <5>3. /\ Becomes(Due(x), Due(x)', 1) /\ Becomes(WorkedOn(x), WorkedOn(x)', 0)
              /\ Becomes(Called(x), Called(x)', 0)
          BY <2>4, <3>4, <4>3
        <5>. QED BY <1>0, <5>1, <5>2, <5>3, OwedMoves
      <4>. QED BY <4>2, <4>3
    <3>. QED BY <2>6, <3>3, <3>4 DEF PublishFails
  <2>. QED BY <1>5, <2>5, <2>6
<1>6. CASE Post
  <2>1. worker.msg \in Message /\ worker.at = "posting"
    BY <1>0, <1>6, WorkerHolds DEF Post
  <2>2. UNCHANGED <<told, queue, log, lastRead, pending, router, answers, excuses>>
    BY <1>6 DEF Post, stream, served
  <2>3. PICK r \in Router :
          calls' = calls \cup {[msg |-> worker.msg, attempt |-> worker.attempt, router |-> r]}
    BY <1>6 DEF Post
  <2>4. worker' = [at |-> "waiting", msg |-> worker.msg, attempt |-> worker.attempt]
    BY <1>0, <1>6 DEF Post, Work
  <2>5. Due(x)' = Due(x) /\ WorkedOn(x)' = WorkedOn(x)
    BY <2>2, DueStays
  <2>6. CASE x # worker.msg
    <3>1. Called(x)' \subseteq Called(x)
      BY <2>3, <2>6 DEF Called
    <3>2. Forwardable(x)' => Forwardable(x)
      BY <2>2, <2>4, <2>6 DEF Forwardable, Queued
    <3>. QED BY <1>0, <1>1, <2>2, <2>5, <3>1, <3>2, OwedStays
  <2>7. CASE x = worker.msg
    <3>1. told[x] = "accepted" /\ ~Queued(x)
      BY <2>7 DEF AccountInv, Seen, InMemory, GatewayOnce, Queued
    <3>2. Forwards(x) = 1 /\ Forwards(x)' = 0
      BY <2>1, <2>2, <2>4, <2>7, <3>1 DEF Forwards, Forwardable, Queued
    <3>3. Becomes(Called(x), Called(x)', 1)
      BY <2>3 DEF Called, Becomes
    <3>4. Becomes(Due(x), Due(x)', 0) /\ Becomes(WorkedOn(x), WorkedOn(x)', 0)
      BY <2>5 DEF Becomes
    <3>5. /\ answers'[x] <= answers[x] + 0 /\ excuses[x] + 0 <= excuses'[x]
          /\ Forwards(x)' <= Forwards(x) + (-1) /\ 0 + (-1) + 0 + 0 + 1 <= 0
      BY <1>1, <2>2, <3>2
    <3>. QED BY <1>0, <3>3, <3>4, <3>5, OwedMoves
  <2>. QED BY <2>6, <2>7
<1>7. CASE PostFails
  <2>1. worker.at = "posting" /\ NextAttempt /\ UNCHANGED <<told, queue>>
    BY <1>7 DEF PostFails
  <2>2. Forwardable(x)' => Forwardable(x)
    BY <1>0, <2>1, AttemptForwards DEF Forwardable
  <2>. QED BY <1>1, <1>2, <1>7, <2>2 DEF PostFails, stream, served
<1>8. CASE PostTimesOut
  <2>1. /\ worker.at = "waiting" /\ NextAttempt /\ Excused(worker.msg)
        /\ UNCHANGED <<told, queue, log, lastRead, pending, router, calls, answers>>
    BY <1>8 DEF PostTimesOut, stream
  <2>2. worker.msg \in Message
    BY <1>0, <2>1, WorkerHolds
  <2>3. /\ x = worker.msg => excuses'[x] = excuses[x] + 1
        /\ x # worker.msg => excuses'[x] = excuses[x]
    BY <1>0, <2>1, <2>2, Counting
  <2>4. Forwardable(x)' => Forwardable(x) \/ x = worker.msg
    BY <1>0, <2>1, AttemptForwards
  <2>5. CASE x # worker.msg
    BY <1>1, <1>2, <2>1, <2>3, <2>4, <2>5
  <2>6. CASE x = worker.msg
    <3>1. Due(x)' = Due(x) /\ WorkedOn(x)' = WorkedOn(x) /\ Called(x)' = Called(x)
      BY <2>1, DueStays DEF Called
    <3>2. /\ Becomes(Due(x), Due(x)', 0) /\ Becomes(WorkedOn(x), WorkedOn(x)', 0)
          /\ Becomes(Called(x), Called(x)', 0)
      BY <3>1 DEF Becomes
    <3>. QED BY <1>0, <1>1, <2>1, <2>3, <2>6, <3>2, OwedMoves
  <2>. QED BY <2>5, <2>6
<1>9. CASE GatewayStops
  <2>1. /\ queue' = <<>> /\ worker'.at = "resting"
        /\ UNCHANGED <<told, log, lastRead, pending, router, calls, answers, excuses>>
    BY <1>9 DEF GatewayStops, Resting, stream, served
  <2>2. Forwardable(x)' => Forwardable(x)
    BY <2>1 DEF Forwardable, Queued
  <2>. QED BY <1>1, <1>2, <2>1, <2>2
<1>. QED BY <1>3, <1>4, <1>5, <1>6, <1>7, <1>8, <1>9 DEF GatewayStep

\* A loop that rests or is down, and stays so, changes nothing.
LEMMA LoopRests ==
  ASSUME LoopInv, NEW r \in Router, ~Holding(r), NEW place, place.at \notin {"working", "acking"},
         router' = [router EXCEPT ![r] = place], NEW x \in Message,
         UNCHANGED <<log, lastRead>>, pending' \subseteq pending
  PROVE  Due(x)' \subseteq Due(x) /\ WorkedOn(x)' \subseteq WorkedOn(x)
<1>1. \A q \in Router : q # r => router'[q] = router[q]
  BY DEF LoopInv
<1>2. router'[r] = place
  BY DEF LoopInv
<1>3. \A e : Held(e) => Held(e)'
  BY <1>1 DEF Held, Holding
<1>4. Unheld' \subseteq Unheld
  BY <1>3 DEF Unheld
<1>5. Due(x)' \subseteq Due(x)
  BY <1>4 DEF Due
<1>6. WorkedOn(x)' \subseteq WorkedOn(x)
  BY <1>1, <1>2 DEF WorkedOn
<1>. QED BY <1>5, <1>6

\* A loop that lets go of its entry leaves it to be delivered, while it is pending.
LEMMA LoopReleases ==
  ASSUME LoopInv, NEW r \in Router, Holding(r), NEW place, place.at \notin {"working", "acking"},
         router' = [router EXCEPT ![r] = place], NEW x \in Message,
         UNCHANGED <<log, lastRead>>, pending' \subseteq pending
  PROVE  /\ Due(x)' \subseteq Due(x) \cup {router[r].entry}
         /\ x # log[router[r].entry] \/ router[r].entry \notin pending' =>
              Due(x)' \subseteq Due(x)
         /\ WorkedOn(x)' \subseteq WorkedOn(x) \ {r}
         /\ x = log[router[r].entry] /\ router[r].at = "working" => r \in WorkedOn(x)
<1>1. \A q \in Router : q # r => router'[q] = router[q]
  BY DEF LoopInv
<1>2. router'[r] = place
  BY DEF LoopInv
<1>3. \A e : e # router[r].entry /\ Held(e) => Held(e)'
  BY <1>1 DEF Held, Holding
<1>4. Unheld' \subseteq Unheld \cup ({router[r].entry} \cap pending')
  BY <1>3 DEF Unheld
<1>5. /\ Due(x)' \subseteq Due(x) \cup {router[r].entry}
      /\ x # log[router[r].entry] \/ router[r].entry \notin pending' => Due(x)' \subseteq Due(x)
  BY <1>4 DEF Due
<1>6. WorkedOn(x)' \subseteq WorkedOn(x) \ {r}
  BY <1>1, <1>2 DEF WorkedOn
<1>7. x = log[router[r].entry] /\ router[r].at = "working" => r \in WorkedOn(x)
  BY DEF WorkedOn
<1>. QED BY <1>5, <1>6, <1>7

\* A free loop that takes an entry makes it one that is worked on.
LEMMA LoopTakes ==
  ASSUME LoopInv, NEW r \in Router, ~Holding(r), NEW e \in 1..Len(log),
         router' = [router EXCEPT ![r] = [at |-> "working", entry |-> e]],
         NEW x \in Message, log' = log, pending' \subseteq pending \cup {e}
  PROVE  /\ WorkedOn(x)' \subseteq WorkedOn(x) \cup {r}
         /\ x # log[e] => WorkedOn(x)' \subseteq WorkedOn(x)
         /\ Unheld' \subseteq Unheld \ {e}
<1>1. \A q \in Router : q # r => router'[q] = router[q]
  BY DEF LoopInv
<1>2. router'[r] = [at |-> "working", entry |-> e]
  BY DEF LoopInv
<1>3. \A f : Held(f) => Held(f)'
  BY <1>1 DEF Held, Holding
<1>4. Held(e)'
  BY <1>2 DEF Held, Holding
<1>5. Unheld' \subseteq Unheld \ {e}
  BY <1>3, <1>4 DEF Unheld
<1>6. WorkedOn(x)' \subseteq WorkedOn(x) \cup {r} /\ (x # log[e] => WorkedOn(x)' \subseteq WorkedOn(x))
  BY <1>1, <1>2 DEF WorkedOn
<1>. QED BY <1>5, <1>6

\* The steps of the loops: an entry that may be delivered becomes one that is worked on,
\* and then an answer; whatever else adds a way of answering is excused.
LEMMA OwedLoops ==
  ASSUME ~Kafka, PipelineInv, PipelineInv', \A e \in pending : e <= lastRead,
         NEW x \in Message, Owed(x),
         NEW r \in Router, RouterStep(r) \/ RouterStops(r)
  PROVE  Owed(x)'
<1>0. /\ StreamInv /\ LoopInv /\ CountInv /\ CountInv' /\ lastRead \in Nat /\ Len(log) \in Nat
      /\ pending \subseteq 1..Len(log) /\ idle \subseteq pending
  BY DEF PipelineInv, StreamInv
<1>1. /\ answers[x] \in Nat /\ excuses[x] \in Nat /\ Forwards(x) \in 0..1
      /\ answers'[x] \in Nat /\ excuses'[x] \in Nat /\ Forwards(x)' \in 0..1
      /\ 0 \in Int /\ 1 \in Int
  BY <1>0, CountsNatural
<1>2. UNCHANGED gateway /\ UNCHANGED <<log, calls>>
  BY DEF RouterStep, RouterStops, Connect, TakeNew, Claim, Process, ProcessFails, Ack, AckFails,
         stream
<1>3. /\ Forwardable(x)' <=> Forwardable(x)
      /\ Forwards(x)' <= Forwards(x) + 0
      /\ Called(x)' = Called(x)
      /\ Becomes(Called(x), Called(x)', 0)
  <2>1. (Forwardable(x)' <=> Forwardable(x)) /\ Called(x)' = Called(x)
    BY <1>2 DEF Forwardable, Queued, gateway, Called
  <2>2. Forwards(x)' = Forwards(x)
    BY <2>1 DEF Forwards
  <2>. QED BY <1>1, <2>1, <2>2 DEF Becomes
<1>4. ASSUME answers'[x] = answers[x], excuses[x] <= excuses'[x],
             Due(x)' \subseteq Due(x), WorkedOn(x)' \subseteq WorkedOn(x)
      PROVE  Owed(x)'
  BY <1>0, <1>3, <1>4, OwedStays
<1>5. CASE Connect(r) \/ (RouterStops(r) /\ ~Holding(r))
  <2>1. ~Holding(r) /\ UNCHANGED <<lastRead, pending, answers, excuses>>
    BY <1>0, <1>5 DEF Connect, RouterStops, Holding, stream, served
  <2>2. PICK place : /\ place.at \notin {"working", "acking"}
                     /\ router' = [router EXCEPT ![r] = place]
    BY <1>5 DEF Connect, RouterStops, Free
  <2>3. Due(x)' \subseteq Due(x) /\ WorkedOn(x)' \subseteq WorkedOn(x)
    BY <1>0, <1>2, <2>1, <2>2, LoopRests
  <2>. QED BY <1>1, <1>4, <2>1, <2>3
<1>6. CASE TakeNew(r)
  <2>1. PICK e \in First(Unread) :
          /\ lastRead' = e /\ pending' = pending \cup {e}
          /\ router' = [router EXCEPT ![r] = [at |-> "working", entry |-> e]]
    BY <1>6 DEF TakeNew
  <2>2. e \in 1..Len(log) /\ e > lastRead
    BY <2>1 DEF First, Unread
  <2>3. ~Holding(r) /\ UNCHANGED <<answers, excuses>>
    BY <1>6 DEF TakeNew, Holding, served
  <2>4. /\ WorkedOn(x)' \subseteq WorkedOn(x) \cup {r}
        /\ x # log[e] => WorkedOn(x)' \subseteq WorkedOn(x)
        /\ Unheld' \subseteq Unheld \ {e}
    BY <1>0, <1>2, <2>1, <2>2, <2>3, LoopTakes
  <2>5. Due(x)' \subseteq Due(x) \ {e}
    <3>1. \A f \in 1..Len(log) : f > e => f > lastRead
      BY <1>0, <2>2
    <3>2. ~(e > e)
      BY <2>2
    <3>. QED BY <1>2, <2>1, <2>4, <3>1, <3>2 DEF Due
  <2>6. CASE x # log[e]
    BY <1>1, <1>4, <2>3, <2>4, <2>5, <2>6
  <2>7. CASE x = log[e]
    <3>1. e \in Due(x)
      BY <2>2, <2>7 DEF Due
    <3>2. Becomes(Due(x), Due(x)', -1) /\ Becomes(WorkedOn(x), WorkedOn(x)', 1)
      BY <2>4, <2>5, <3>1 DEF Becomes
    <3>3. /\ answers'[x] <= answers[x] + 0 /\ excuses[x] + 0 <= excuses'[x]
          /\ 0 + 0 + (-1) + 1 + 0 <= 0
      BY <1>1, <2>3
    <3>. QED BY <1>0, <1>1, <1>3, <3>2, <3>3, OwedMoves, Zenon
  <2>. QED BY <2>6, <2>7
<1>7. CASE Claim(r)
  <2>1. PICK e \in First(Claimable) :
          /\ router' = [router EXCEPT ![r] = [at |-> "working", entry |-> e]]
          /\ IF Held(e) THEN Fault /\ Excused(log[e]) ELSE UNCHANGED <<faults, excuses>>
          /\ pending' = pending \ (idle \ Claimable)
    BY <1>7 DEF Claim
  <2>2. e \in pending /\ e \in 1..Len(log) /\ ~(e > lastRead) /\ log[e] \in Message
    BY <1>0, <2>1 DEF First, Claimable, StreamInv
  <2>3. ~Holding(r) /\ UNCHANGED <<answers, lastRead>>
    BY <1>7 DEF Claim, Holding
  <2>4. /\ WorkedOn(x)' \subseteq WorkedOn(x) \cup {r}
        /\ x # log[e] => WorkedOn(x)' \subseteq WorkedOn(x)
        /\ Unheld' \subseteq Unheld \ {e}
    BY <1>0, <1>2, <2>1, <2>2, <2>3, LoopTakes
  <2>5. Due(x)' \subseteq Due(x) \ {e}
    BY <1>2, <2>2, <2>3, <2>4 DEF Due
  <2>6. IF Held(e) THEN x = log[e] => excuses'[x] = excuses[x] + 1 ELSE e \in Unheld
    <3>1. CASE Held(e)
      BY <1>0, <2>1, <2>2, <3>1, Counting
    <3>2. CASE ~Held(e)
      BY <2>2, <3>2 DEF Unheld
    <3>. QED BY <3>1, <3>2
  <2>7. CASE x # log[e]
    <3>1. excuses'[x] = excuses[x]
      <4>1. CASE Held(e)
        BY <1>0, <2>1, <2>2, <2>7, <4>1, Counting
      <4>. QED BY <2>1, <4>1
    <3>. QED BY <1>1, <1>4, <2>3, <2>4, <2>5, <2>7, <3>1
  <2>8. CASE x = log[e] /\ Held(e)
    <3>1. Becomes(Due(x), Due(x)', 0) /\ Becomes(WorkedOn(x), WorkedOn(x)', 1)
      BY <2>4, <2>5 DEF Becomes
    <3>2. /\ answers'[x] <= answers[x] + 0 /\ excuses[x] + 1 <= excuses'[x]
          /\ 0 + 0 + 0 + 1 + 0 <= 1
      BY <1>1, <2>3, <2>6, <2>8
    <3>. QED BY <1>0, <1>1, <1>3, <3>1, <3>2, OwedMoves, Zenon
  <2>9. CASE x = log[e] /\ ~Held(e)
    <3>1. e \in Due(x)
      BY <2>2, <2>6, <2>9 DEF Due
    <3>2. Becomes(Due(x), Due(x)', -1) /\ Becomes(WorkedOn(x), WorkedOn(x)', 1)
      BY <2>4, <2>5, <3>1 DEF Becomes
    <3>3. excuses' = excuses
      BY <2>1, <2>9
    <3>4. /\ answers'[x] <= answers[x] + 0 /\ excuses[x] + 0 <= excuses'[x]
          /\ 0 + 0 + (-1) + 1 + 0 <= 0
      BY <1>1, <2>3, <3>3
    <3>. QED BY <1>0, <1>1, <1>3, <3>2, <3>4, OwedMoves, Zenon
  <2>. QED BY <2>7, <2>8, <2>9
<1>8. CASE Process(r)
  <2>1. /\ router[r].at = "working" /\ router' = [router EXCEPT ![r].at = "acking"]
        /\ Answered(log[router[r].entry]) /\ UNCHANGED <<excuses, lastRead, pending>>
    BY <1>8 DEF Process, stream
  <2>2. log[router[r].entry] \in Message
    BY <1>0, <2>1, HeldInLog DEF Holding
  <2>3. router'[r].at = "acking" /\ router'[r].entry = router[r].entry
    BY <1>0, <2>1 DEF LoopInv, Place
  <2>4. \A q \in Router : q # r => router'[q] = router[q]
    BY <1>0, <2>1 DEF LoopInv
  <2>5. \A f : Held(f) => Held(f)'
    BY <2>3, <2>4 DEF Held, Holding
  <2>6. Unheld' \subseteq Unheld
    BY <2>1, <2>5 DEF Unheld
  <2>7. Due(x)' \subseteq Due(x)
    BY <1>2, <2>1, <2>6 DEF Due
  <2>8. WorkedOn(x)' \subseteq WorkedOn(x) \ {r}
    BY <1>2, <2>3, <2>4 DEF WorkedOn
  <2>9. /\ x = log[router[r].entry] => answers'[x] = answers[x] + 1
        /\ x # log[router[r].entry] => answers'[x] = answers[x]
    BY <1>0, <2>1, <2>2, Counting
  <2>10. CASE x # log[router[r].entry]
    BY <1>1, <1>4, <2>1, <2>7, <2>8, <2>9, <2>10
  <2>11. CASE x = log[router[r].entry]
    <3>1. r \in WorkedOn(x)
      BY <2>1, <2>11 DEF WorkedOn
    <3>2. Becomes(Due(x), Due(x)', 0) /\ Becomes(WorkedOn(x), WorkedOn(x)', -1)
      BY <2>7, <2>8, <3>1 DEF Becomes
    <3>3. /\ answers'[x] <= answers[x] + 1 /\ excuses[x] + 0 <= excuses'[x]
          /\ 1 + 0 + 0 + (-1) + 0 <= 0
      BY <1>1, <2>1, <2>9, <2>11
    <3>. QED BY <1>0, <1>1, <1>3, <3>2, <3>3, OwedMoves, Zenon
  <2>. QED BY <2>10, <2>11
<1>9. CASE ProcessFails(r) \/ Ack(r) \/ AckFails(r) \/ (RouterStops(r) /\ Holding(r))
  <2>1. Holding(r) /\ lastRead' = lastRead /\ pending' \subseteq pending
    BY <1>9 DEF ProcessFails, Ack, AckFails, RouterStops, Holding, stream, Kafka
  <2>2. PICK place : /\ place.at \notin {"working", "acking"}
                     /\ router' = [router EXCEPT ![r] = place]
    BY <1>9 DEF ProcessFails, Ack, AckFails, RouterStops, Free
  <2>3. log[router[r].entry] \in Message
    BY <1>0, <2>1, HeldInLog
  <2>4. /\ Due(x)' \subseteq Due(x) \cup {router[r].entry}
        /\ x # log[router[r].entry] \/ router[r].entry \notin pending' =>
             Due(x)' \subseteq Due(x)
        /\ WorkedOn(x)' \subseteq WorkedOn(x) \ {r}
        /\ x = log[router[r].entry] /\ router[r].at = "working" => r \in WorkedOn(x)
    BY <1>0, <1>2, <2>1, <2>2, LoopReleases
  <2>5. CASE Ack(r)
    <3>1. router[r].entry \notin pending' /\ UNCHANGED <<answers, excuses>>
      BY <2>5 DEF Ack, served
    <3>. QED BY <1>1, <1>4, <2>4, <3>1
  <2>6. CASE CutShort(log[router[r].entry]) /\ router[r].at = "working"
    <3>1. PICK k \in 0..1 : answers'[x] = answers[x] + k /\ excuses'[x] = excuses[x] + k
      BY <1>0, <2>3, <2>6, Counting
    <3>2. CASE x # log[router[r].entry]
      <4>1. answers'[x] = answers[x] /\ excuses'[x] = excuses[x]
        BY <1>0, <2>3, <2>6, <3>2, Counting
      <4>. QED BY <1>1, <1>4, <2>4, <3>2, <4>1
    <3>3. CASE x = log[router[r].entry]
      <4>1. Becomes(Due(x), Due(x)', 1) /\ Becomes(WorkedOn(x), WorkedOn(x)', -1)
        BY <2>4, <2>6, <3>3 DEF Becomes
      <4>2. /\ k \in Int /\ 0 \in Int
            /\ answers'[x] <= answers[x] + k /\ excuses[x] + k <= excuses'[x]
            /\ k + 0 + 1 + (-1) + 0 <= k
        BY <1>1, <3>1
      <4>. QED BY <1>0, <1>1, <1>3, <4>1, <4>2, OwedMoves, Zenon
    <3>. QED BY <3>2, <3>3
  <2>7. CASE Excused(log[router[r].entry]) /\ UNCHANGED answers
    <3>1. /\ x = log[router[r].entry] => excuses'[x] = excuses[x] + 1
          /\ x # log[router[r].entry] => excuses'[x] = excuses[x]
      BY <1>0, <2>3, <2>7, Counting
    <3>2. CASE x # log[router[r].entry]
      BY <1>1, <1>4, <2>4, <2>7, <3>1, <3>2
    <3>3. CASE x = log[router[r].entry]
      <4>1. Becomes(Due(x), Due(x)', 1) /\ Becomes(WorkedOn(x), WorkedOn(x)', 0)
        BY <2>4 DEF Becomes
      <4>2. /\ answers'[x] <= answers[x] + 0 /\ excuses[x] + 1 <= excuses'[x]
            /\ 0 + 0 + 1 + 0 + 0 <= 1
        BY <1>1, <2>7, <3>1, <3>3
      <4>. QED BY <1>0, <1>1, <1>3, <4>1, <4>2, OwedMoves, Zenon
    <3>. QED BY <3>2, <3>3
  <2>. QED BY <1>9, <2>5, <2>6, <2>7 DEF ProcessFails, AckFails, RouterStops, Holding
<1>. QED BY <1>5, <1>6, <1>7, <1>8, <1>9 DEF RouterStep

\* A call becomes an answer, or the gateway's next attempt, or nothing.
LEMMA OwedCalls ==
  ASSUME PipelineInv, PipelineInv', NEW x \in Message, Owed(x),
         NEW call \in calls, CallReturns(call) \/ CallFails(call)
  PROVE  Owed(x)'
<1>0. /\ GatewayInv /\ CountInv /\ CountInv' /\ call.msg \in Message /\ x # None
  BY MessageAssumption DEF PipelineInv, CountInv
<1>1. /\ answers[x] \in Nat /\ excuses[x] \in Nat /\ Forwards(x) \in 0..1
      /\ answers'[x] \in Nat /\ excuses'[x] \in Nat /\ Forwards(x)' \in 0..1
      /\ 0 \in Int /\ 1 \in Int
  BY <1>0, CountsNatural
<1>2. /\ calls' = calls \ {call}
      /\ UNCHANGED <<told, queue, log, lastRead, pending, router>>
  BY DEF CallReturns, CallFails, stream
<1>3. Due(x)' = Due(x) /\ WorkedOn(x)' = WorkedOn(x)
  BY <1>2, DueStays
<1>4. Called(x)' \subseteq Called(x) \ {call}
  BY <1>2 DEF Called
<1>5. /\ Becomes(Due(x), Due(x)', 0) /\ Becomes(WorkedOn(x), WorkedOn(x)', 0)
      /\ x = call.msg => Becomes(Called(x), Called(x)', -1)
  BY <1>3, <1>4 DEF Becomes, Called
<1>6. CASE CallReturns(call)
  <2>1. /\ worker' = worker \/ worker'.msg = None
        /\ Answered(call.msg) /\ UNCHANGED excuses
    BY <1>6 DEF CallReturns, Resting
  <2>2. Forwardable(x)' => Forwardable(x)
    BY <1>0, <1>2, <2>1 DEF Forwardable, Queued
  <2>3. /\ x = call.msg => answers'[x] = answers[x] + 1
        /\ x # call.msg => answers'[x] = answers[x]
    BY <1>0, <2>1, Counting
  <2>4. CASE x # call.msg
    BY <1>0, <1>1, <1>3, <1>4, <2>1, <2>2, <2>3, <2>4, OwedStays
  <2>5. CASE x = call.msg
    <3>1. /\ answers'[x] <= answers[x] + 1 /\ excuses[x] + 0 <= excuses'[x]
          /\ Forwards(x)' <= Forwards(x) + 0 /\ 1 + 0 + 0 + 0 + (-1) <= 0
      BY <1>1, <2>1, <2>2, <2>3, <2>5 DEF Forwards
    <3>. QED BY <1>0, <1>1, <1>5, <2>5, <3>1, OwedMoves, Zenon
  <2>. QED BY <2>4, <2>5
<1>7. CASE CallFails(call)
  <2>1. CutShort(call.msg)
    BY <1>7 DEF CallFails
  <2>2. PICK k \in 0..1 : answers'[x] = answers[x] + k /\ excuses'[x] = excuses[x] + k
    BY <1>0, <2>1, Counting
  <2>3. CASE x # call.msg
    <3>1. answers'[x] = answers[x] /\ excuses'[x] = excuses[x]
      BY <1>0, <2>1, <2>3, Counting
    <3>2. Forwardable(x)' => Forwardable(x)
      <4>1. CASE Awaited(call)
        BY <1>0, <1>2, <1>7, <2>3, <4>1, AttemptForwards DEF CallFails, Awaited
      <4>2. CASE ~Awaited(call)
        BY <1>2, <1>7, <4>2 DEF CallFails, Forwardable, Queued
      <4>. QED BY <4>1, <4>2
    <3>. QED BY <1>0, <1>1, <1>3, <1>4, <3>1, <3>2, OwedStays
  <2>4. CASE x = call.msg
    <3>1. /\ k \in Int /\ answers'[x] <= answers[x] + k /\ excuses[x] + k <= excuses'[x]
          /\ Forwards(x)' <= Forwards(x) + 1 /\ k + 1 + 0 + 0 + (-1) <= k
      BY <1>1, <2>2
    <3>. QED BY <1>0, <1>1, <1>5, <2>4, <3>1, OwedMoves, Zenon
  <2>. QED BY <2>3, <2>4
<1>. QED BY <1>6, <1>7

LEMMA DebtStep ==
  ASSUME Backend = "redis", PipelineInv, PipelineInv', AccountInv, DebtInv, [Next]_vars
  PROVE  DebtInv'
<1>0. GatewayOnce /\ GatewayOnce' /\ \A e \in pending : e <= lastRead
  BY GatewayOnceStep DEF DebtInv
<1>1. \A e \in pending' : e <= lastRead'
  BY <1>0, DeliveredStep
<1>2. ASSUME NEW x \in Message PROVE Owed(x)'
  <2>0. Owed(x) /\ ~Kafka
    BY DEF DebtInv, Kafka
  <2>1. CASE (\E m \in Message : Receive(m)) \/ GatewayStep \/ GatewayStops
    BY <1>0, <2>0, <2>1, OwedGateway
  <2>2. CASE \E r \in Router : RouterStep(r) \/ RouterStops(r)
    BY <1>0, <2>0, <2>2, OwedLoops
  <2>3. CASE \E call \in calls : CallReturns(call) \/ CallFails(call)
    BY <2>0, <2>3, OwedCalls
  <2>4. CASE (\E e \in pending : IdleElapses(e)) \/ UNCHANGED vars
    <3>1. UNCHANGED <<gateway, log, lastRead, pending, router, calls, answers, excuses>>
      BY <2>4 DEF IdleElapses, vars, stream, served
    <3>2. /\ Due(x)' = Due(x) /\ WorkedOn(x)' = WorkedOn(x) /\ Called(x)' = Called(x)
          /\ Forwardable(x)' => Forwardable(x)
      BY <3>1, DueStays DEF Called, Forwardable, Queued, gateway
    <3>3. CountInv /\ CountInv' /\ excuses[x] <= excuses'[x]
      BY <3>1 DEF PipelineInv, CountInv
    <3>. QED BY <2>0, <3>1, <3>2, <3>3, OwedStays
  <2>. QED BY <2>1, <2>2, <2>3, <2>4 DEF Next
<1>. QED BY <1>0, <1>1, <1>2 DEF DebtInv

\* With Redis Streams, a message is answered twice only for a reason that was counted: an
\* answer or a publication that was lost, a processing or an acknowledgement cut short, or
\* an entry claimed from a loop still working on it; and at most once for each
\* (sms_gateway/main.py: _forward_worker; streams.py: consume, ack).
THEOREM DuplicatesAreExplained ==
  ASSUME Backend = "redis"
  PROVE  Spec => []DuplicatesExplained
<1>1. Init => DebtInv
  <2>. SUFFICES ASSUME Init PROVE DebtInv
    OBVIOUS
  <2>1. GatewayOnce /\ \A e \in pending : e <= lastRead
    BY DEF Init, GatewayOnce
  <2>2. ASSUME NEW x \in Message PROVE Owed(x)
    <3>1. Due(x) = {} /\ WorkedOn(x) = {} /\ Called(x) = {}
      BY <2>2 DEF Init, Due, WorkedOn, Called
    <3>2. answers[x] = 0 /\ excuses[x] = 0 /\ Forwards(x) = 1
      BY <2>2 DEF Init, Forwards, Forwardable
    <3>. QED BY <3>1, <3>2, FS_EmptySet DEF Owed
  <2>. QED BY <2>1, <2>2 DEF DebtInv
<1>2. PipelineInv /\ DebtInv => DuplicatesExplained
  <2>. SUFFICES ASSUME PipelineInv, DebtInv, NEW x \in Message
                PROVE  answers[x] <= 1 + excuses[x]
    BY DEF DuplicatesExplained
  <2>1. Owed(x) /\ CountInv
    BY DEF DebtInv, PipelineInv
  <2>2. /\ Cardinality(Due(x)) \in Nat /\ Cardinality(WorkedOn(x)) \in Nat
        /\ Cardinality(Called(x)) \in Nat
    BY <2>1, SetCounts DEF Owed
  <2>3. answers[x] \in Nat /\ excuses[x] \in Nat /\ Forwards(x) \in 0..1
    BY <2>1 DEF CountInv, Forwards
  <2>. QED BY <2>1, <2>2, <2>3 DEF Owed
<1>3. PipelineInv /\ PipelineInv' /\ AccountInv /\ DebtInv /\ [Next]_vars => DebtInv'
  BY DebtStep
<1>. QED BY <1>1, <1>2, <1>3, AccountInit, AccountStep, InvariantHolds, PTL DEF Spec
==============================================================================

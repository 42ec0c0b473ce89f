----------------------------- MODULE SmsPipeline -----------------------------
(***************************************************************************)
(* The way of an inbound SMS: the SMS gateway accepts it into a bounded    *)
(* queue in memory (sms_gateway/main.py), its worker publishes it to the   *)
(* durable stream or falls back to HTTP (shared/streams.py), and a message *)
(* router consumes it, answers it and acknowledges it                      *)
(* (message_router/main.py).                                               *)
(*                                                                         *)
(* Two routers run at once while Kubernetes replaces the pod. The stream   *)
(* is Redis Streams (the field profile) or Kafka with one partition. What  *)
(* an answer says is in MessageRouter; here it is sent or not.             *)
(***************************************************************************)
EXTENDS Naturals, Sequences, FiniteSets

CONSTANTS
  Message,     \* messages of the field users
  Router,      \* router processes
  Backend,     \* STREAM_BACKEND
  QueueMax,    \* sms_inbound_queue_maxsize
  Retries,     \* sms_forward_max_retries
  StreamMax,   \* stream_max_len
  None,        \* the worker holds no message
  MaxFaults    \* bound: failed calls, crashes, exceptions, slow answers

ASSUME BackendAssumption == Backend \in {"redis", "kafka"}
ASSUME LimitAssumption ==
  /\ QueueMax \in Nat \ {0} /\ Retries \in Nat \ {0} /\ StreamMax \in Nat \ {0}
  /\ MaxFaults \in Nat
ASSUME MessageAssumption == None \notin Message

VARIABLES
  told,      \* what the sender of each message was told
  queue,     \* _inbound_queue of the gateway
  worker,    \* _forward_worker: where it is, with which message and attempt
  failed,    \* _failed_forwards
  log,       \* the entries ever added to the stream
  trimmed,   \* the first entries of the log, which XADD MAXLEN has removed
  lastRead,  \* last delivered entry of the group; position of the consumer
  pending,   \* Redis: the pending entries of the group; Kafka: _pending
  idle,      \* pending entries not delivered for stream_claim_idle_ms
  committed, \* Kafka: the committed offset
  router,    \* the stream consumer loop of each router
  calls,     \* executions of POST /route
  faults,    \* faults so far
  finished,  \* history: the entries whose processing returned
  answers,   \* history: how often each message was answered
  excuses,   \* history: events that may answer a message once more
  lost       \* history: messages whose only record a gateway process lost

gateway == <<told, queue, worker, failed>>
stream == <<log, trimmed, lastRead, pending, idle, committed>>
served == <<answers, excuses>>
vars == <<gateway, stream, router, calls, faults, finished, served, lost>>

Kafka == Backend = "kafka"
Free == [at |-> "free", entry |-> 0]
Resting == [at |-> "resting", msg |-> None, attempt |-> 0]

Fault == faults < MaxFaults /\ faults' = faults + 1
Answered(m) == answers' = [answers EXCEPT ![m] = @ + 1]
Excused(m) == excuses' = [excuses EXCEPT ![m] = @ + 1]

\* Processing is cut short, before or after the answer was sent.
CutShort(m) == UNCHANGED served \/ (Answered(m) /\ Excused(m))

Holding(r) == router[r].at \in {"working", "acking"}
Held(e) == \E r \in Router : Holding(r) /\ router[r].entry = e

-----------------------------------------------------------------------------
(* The gateway *)

\* Mutant of Receive: a full queue drops the message and the sender is told
\* that it was queued.
ReceiveDropping(m) ==
  /\ told[m] # "accepted"
  /\ \/ told' = [told EXCEPT ![m] = "refused"] /\ UNCHANGED queue
     \/ /\ told' = [told EXCEPT ![m] = "accepted"]
        /\ queue' = IF Len(queue) < QueueMax THEN Append(queue, m) ELSE queue
  /\ UNCHANGED <<worker, failed, stream, router, calls, faults, finished, served, lost>>

\* receive_message: the rate limit (429), the content (422) or the full queue
\* (503) refuse it, and the sender may try again.
Receive(m) ==
  /\ told[m] # "accepted"
  /\ \/ told' = [told EXCEPT ![m] = "refused"] /\ UNCHANGED queue
     \/ /\ Len(queue) < QueueMax
        /\ told' = [told EXCEPT ![m] = "accepted"]
        /\ queue' = Append(queue, m)
  /\ UNCHANGED <<worker, failed, stream, router, calls, faults, finished, served, lost>>

\* _forward_worker takes the next message.
TakeQueued ==
  /\ worker.at = "resting" /\ queue # <<>>
  /\ worker' = [at |-> "publishing", msg |-> Head(queue), attempt |-> 0]
  /\ queue' = Tail(queue)
  /\ UNCHANGED <<told, failed, stream, router, calls, faults, finished, served, lost>>

\* XADD with an approximate MAXLEN, which removes entries at the front.
AppendEntry(m) ==
  /\ log' = Append(log, m)
  /\ \E n \in trimmed..Len(log') :
       /\ trimmed' = n
       /\ n = trimmed \/ n + StreamMax <= Len(log')

Publish ==
  /\ worker.at = "publishing"
  /\ AppendEntry(worker.msg)
  /\ worker' = Resting
  /\ UNCHANGED <<told, queue, failed, lastRead, pending, idle, committed,
                 router, calls, faults, finished, served, lost>>

\* Not connected, refused, or the answer of the broker is lost: HTTP fallback.
PublishFails ==
  /\ worker.at = "publishing" /\ Fault
  /\ \/ UNCHANGED <<log, trimmed, served>>
     \/ AppendEntry(worker.msg) /\ Excused(worker.msg) /\ UNCHANGED answers
  /\ worker' = [worker EXCEPT !.at = "posting", !.attempt = 1]
  /\ UNCHANGED <<told, queue, failed, lastRead, pending, idle, committed,
                 router, calls, finished, lost>>

\* Mutant of NextAttempt: what could not be forwarded is forgotten.
NextAttemptForgets ==
  /\ worker' = IF worker.attempt < Retries
                 THEN [worker EXCEPT !.at = "posting", !.attempt = @ + 1]
                 ELSE Resting
  /\ UNCHANGED failed

\* An attempt of _forward_to_router_http has failed.
NextAttempt ==
  IF worker.attempt < Retries
    THEN /\ worker' = [worker EXCEPT !.at = "posting", !.attempt = @ + 1]
         /\ UNCHANGED failed
    ELSE /\ worker' = Resting
         /\ failed' = failed \cup {worker.msg}

Post ==
  /\ worker.at = "posting"
  /\ \E r \in Router :
       /\ router[r].at # "down"
       /\ calls' = calls \cup {[msg |-> worker.msg, attempt |-> worker.attempt, router |-> r]}
  /\ worker' = [worker EXCEPT !.at = "waiting"]
  /\ UNCHANGED <<told, queue, failed, stream, router, faults, finished, served, lost>>

PostFails ==
  /\ worker.at = "posting"
  /\ \/ Fault
     \/ (\A r \in Router : router[r].at = "down") /\ UNCHANGED faults
  /\ NextAttempt
  /\ UNCHANGED <<told, queue, stream, router, calls, finished, served, lost>>

\* The router answers too late for sms_router_timeout_seconds, or the response
\* is lost: the call goes on.
PostTimesOut ==
  /\ worker.at = "waiting" /\ Fault
  /\ Excused(worker.msg) /\ UNCHANGED answers
  /\ NextAttempt
  /\ UNCHANGED <<told, queue, stream, router, calls, finished, lost>>

Awaited(call) ==
  /\ worker.at = "waiting"
  /\ worker.msg = call.msg /\ worker.attempt = call.attempt

InMemory(m) ==
  \/ \E i \in 1..Len(queue) : queue[i] = m
  \/ worker.msg = m
  \/ m \in failed

\* The gateway's process ends: stop() or a crash.
GatewayStops ==
  /\ Fault
  /\ queue' = <<>> /\ worker' = Resting /\ failed' = {}
  /\ lost' = lost \cup {m \in Message : InMemory(m)}
  /\ UNCHANGED <<told, stream, router, calls, finished, served>>

-----------------------------------------------------------------------------
(* The routers *)

\* The pod starts and its loop connects. A Kafka consumer resumes at the
\* committed offset.
Connect(r) ==
  /\ router[r].at = "down" /\ \A call \in calls : call.router # r
  /\ router' = [router EXCEPT ![r] = Free]
  /\ lastRead' = IF Kafka THEN committed ELSE lastRead
  /\ pending' = IF Kafka THEN {} ELSE pending
  /\ UNCHANGED <<gateway, log, trimmed, idle, committed, calls, faults,
                 finished, served, lost>>

Unread == {e \in 1..Len(log) : e > lastRead /\ e > trimmed}
Claimable == {e \in idle : e > trimmed}
First(entries) == {e \in entries : \A f \in entries : e <= f}

\* Mutant of TakeNew: the entry is acknowledged as it is read (NOACK).
TakeNewNoAck(r) ==
  /\ router[r].at = "free"
  /\ Claimable = {}
  /\ \E e \in First(Unread) :
       /\ lastRead' = e
       /\ router' = [router EXCEPT ![r] = [at |-> "working", entry |-> e]]
  /\ UNCHANGED <<gateway, log, trimmed, pending, idle, committed, calls, faults,
                 finished, served, lost>>

\* consume: XREADGROUP, once nothing can be claimed; getmany of Kafka.
TakeNew(r) ==
  /\ router[r].at = "free"
  /\ Claimable = {}
  /\ \E e \in First(Unread) :
       /\ lastRead' = e
       /\ pending' = pending \cup {e}
       /\ router' = [router EXCEPT ![r] = [at |-> "working", entry |-> e]]
  /\ UNCHANGED <<gateway, log, trimmed, idle, committed, calls, faults,
                 finished, served, lost>>

\* consume: XAUTOCLAIM comes first. It also forgets the pending entries that
\* were trimmed. An entry that another router still works on is answered again.
Claim(r) ==
  /\ router[r].at = "free"
  /\ \E e \in First(Claimable) :
       /\ router' = [router EXCEPT ![r] = [at |-> "working", entry |-> e]]
       /\ IF Held(e) THEN Fault /\ Excused(log[e]) ELSE UNCHANGED <<faults, excuses>>
       /\ idle' = Claimable \ {e}
       /\ pending' = pending \ (idle \ Claimable)
  /\ UNCHANGED <<gateway, log, trimmed, lastRead, committed, calls,
                 finished, answers, lost>>

\* stream_claim_idle_ms have passed since the entry was delivered.
IdleElapses(e) ==
  /\ ~Kafka /\ e \in pending \ idle
  /\ idle' = idle \cup {e}
  /\ UNCHANGED <<gateway, log, trimmed, lastRead, pending, committed, router,
                 calls, faults, finished, served, lost>>

\* process_message returns: the answer was sent, or its failure was counted.
Process(r) ==
  /\ router[r].at = "working"
  /\ router' = [router EXCEPT ![r].at = "acking"]
  /\ finished' = finished \cup {router[r].entry}
  /\ Answered(log[router[r].entry]) /\ UNCHANGED excuses
  /\ UNCHANGED <<gateway, stream, calls, faults, lost>>

\* The fields do not validate, or processing raises: no acknowledgement.
ProcessFails(r) ==
  /\ router[r].at = "working" /\ Fault
  /\ CutShort(log[router[r].entry])
  /\ router' = [router EXCEPT ![r] = Free]
  /\ UNCHANGED <<gateway, stream, calls, finished, lost>>

\* Mutant of Ack: the acknowledgement is left out.
AckForgotten(r) ==
  /\ router[r].at = "acking"
  /\ router' = [router EXCEPT ![r] = Free]
  /\ UNCHANGED <<gateway, stream, calls, faults, finished, served, lost>>

\* XACK, or a commit of the offset behind the entry.
Ack(r) ==
  /\ router[r].at = "acking"
  /\ LET e == router[r].entry IN
       /\ pending' = pending \ {e}
       /\ idle' = idle \ {e}
       /\ committed' = IF Kafka THEN e ELSE committed
  /\ router' = [router EXCEPT ![r] = Free]
  /\ UNCHANGED <<gateway, log, trimmed, lastRead, calls, faults, finished,
                 served, lost>>

\* The acknowledgement raises. Kafka has popped the entry from _pending.
AckFails(r) ==
  /\ router[r].at = "acking" /\ Fault
  /\ pending' = IF Kafka THEN pending \ {router[r].entry} ELSE pending
  /\ Excused(log[router[r].entry]) /\ UNCHANGED answers
  /\ router' = [router EXCEPT ![r] = Free]
  /\ UNCHANGED <<gateway, log, trimmed, lastRead, idle, committed, calls,
                 finished, lost>>

\* route_message returns; the gateway has its answer if it still waits.
CallReturns(call) ==
  /\ router[call.router].at # "down"
  /\ calls' = calls \ {call}
  /\ Answered(call.msg) /\ UNCHANGED excuses
  /\ worker' = IF Awaited(call) THEN Resting ELSE worker
  /\ UNCHANGED <<told, queue, failed, stream, router, faults, finished, lost>>

\* route_message answers 500, or ends with its process.
CallFails(call) ==
  /\ \/ router[call.router].at # "down" /\ Fault
     \/ router[call.router].at = "down" /\ UNCHANGED faults
  /\ calls' = calls \ {call}
  /\ CutShort(call.msg)
  /\ IF Awaited(call) THEN NextAttempt ELSE UNCHANGED <<worker, failed>>
  /\ UNCHANGED <<told, queue, stream, router, finished, lost>>

\* The pod of a router ends, and with it what it was executing.
RouterStops(r) ==
  /\ router[r].at # "down" /\ Fault
  /\ router' = [router EXCEPT ![r] = [at |-> "down", entry |-> 0]]
  /\ IF Holding(r)
       THEN IF router[r].at = "working"
              THEN CutShort(log[router[r].entry])
              ELSE Excused(log[router[r].entry]) /\ UNCHANGED answers
       ELSE UNCHANGED served
  /\ UNCHANGED <<gateway, stream, calls, finished, lost>>

-----------------------------------------------------------------------------

Init ==
  /\ told = [m \in Message |-> "nothing"]
  /\ queue = <<>> /\ worker = Resting /\ failed = {}
  /\ log = <<>> /\ trimmed = 0 /\ lastRead = 0 /\ pending = {} /\ idle = {}
  /\ committed = 0
  /\ router = [r \in Router |-> [at |-> "down", entry |-> 0]]
  /\ calls = {}
  /\ faults = 0 /\ finished = {}
  /\ answers = [m \in Message |-> 0] /\ excuses = [m \in Message |-> 0]
  /\ lost = {}

GatewayStep ==
  \/ TakeQueued \/ Publish \/ PublishFails \/ Post \/ PostFails \/ PostTimesOut

RouterStep(r) ==
  \/ Connect(r) \/ TakeNew(r) \/ Claim(r)
  \/ Process(r) \/ ProcessFails(r) \/ Ack(r) \/ AckFails(r)

Next ==
  \/ \E m \in Message : Receive(m)
  \/ GatewayStep \/ GatewayStops
  \/ \E r \in Router : RouterStep(r) \/ RouterStops(r)
  \/ \E call \in calls : CallReturns(call) \/ CallFails(call)
  \/ \E e \in pending : IdleElapses(e)

Spec == Init /\ [][Next]_vars

\* The worker and the loops run on, calls return, Kubernetes starts the pods,
\* and time passes.
FairSpec ==
  /\ Spec
  /\ WF_vars(GatewayStep)
  /\ \A r \in Router : WF_vars(RouterStep(r))
  /\ WF_vars(\E call \in calls : CallReturns(call) \/ CallFails(call))
  /\ WF_vars(\E e \in pending : ~Held(e) /\ IdleElapses(e))

-----------------------------------------------------------------------------
(* Properties *)

Place == [at : {"down", "free", "working", "acking"}, entry : Nat]

\* Every variable holds a value of its kind.
TypeOK ==
  /\ told \in [Message -> {"nothing", "refused", "accepted"}]
  /\ queue \in Seq(Message)
  /\ worker \in [at : {"resting", "publishing", "posting", "waiting"},
                 msg : Message \cup {None}, attempt : Nat]
  /\ failed \subseteq Message
  /\ log \in Seq(Message)
  /\ trimmed \in Nat /\ lastRead \in Nat /\ committed \in Nat
  /\ pending \subseteq 1..Len(log) /\ idle \subseteq pending
  /\ router \in [Router -> Place]
  /\ calls \subseteq [msg : Message, attempt : Nat, router : Router]
  /\ faults \in Nat
  /\ finished \subseteq 1..Len(log)
  /\ answers \in [Message -> Nat] /\ excuses \in [Message -> Nat]
  /\ lost \subseteq Message

\* The group would still deliver the entry.
Available(e) == IF Kafka THEN e > committed ELSE e > lastRead \/ e \in pending

\* "Do NOT ack -- message will be redelivered": an entry that no router has
\* processed to the end is still to be delivered, whatever failed, crashed or
\* was claimed, unless the stream was full and has dropped it.
UnfinishedAvailable ==
  \A e \in 1..Len(log) : e \in finished \/ e <= trimmed \/ Available(e)

\* A message whose sender was told that it is queued does not vanish: it is
\* under way, answered, recorded as failed, or was lost with the memory of the
\* gateway. A refused message is nowhere, so that trying again is safe.
AcceptedAccounted ==
  \A m \in Message :
    IF told[m] = "accepted"
      THEN \/ InMemory(m) \/ m \in lost
           \/ \E e \in 1..Len(log) : log[e] = m
           \/ answers[m] > 0
      ELSE ~InMemory(m) /\ answers[m] = 0 /\ \A e \in 1..Len(log) : log[e] # m

\* A message is answered twice only for a reason: its publication or its HTTP
\* answer was lost, its processing or acknowledgement cut short after the
\* answer, or it was claimed from a router still working on it.
DuplicatesExplained == \A m \in Message : answers[m] <= 1 + excuses[m]

\* Every accepted message is answered, recorded as failed, lost with the memory
\* of the gateway, or dropped with the front of a full stream.
AcceptedResolved ==
  \A m \in Message :
    told[m] = "accepted" ~> \/ answers[m] > 0
                            \/ m \in failed \/ m \in lost
                            \/ \E e \in 1..trimmed : log[e] = m
=============================================================================

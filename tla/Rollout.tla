------------------------------- MODULE Rollout -------------------------------
(***************************************************************************)
(* The rollout of one promoted release on a Lil EVY node: the              *)
(* DeploymentRolloutController (backend/services/rag_service/              *)
(* deployment_rollout.py) with the worker and the API that advance it      *)
(* (deployment_rollout_runtime.py, deployment_rollout_api.py), its ports   *)
(* to the activation operator, the Kubernetes API and the RAG service      *)
(* (deployment_rollout_http.py, deployment_restart.py) and the reconciler  *)
(* that judges the observed status (deployment_reconciliation.py).         *)
(*                                                                         *)
(* Controller, operator and RAG service are containers of one pod, and the *)
(* restart the controller asks for replaces that pod, itself included.     *)
(* What survives is on the volume (record, selected, floor) or in the      *)
(* Kubernetes API (template). A call can be lost before it takes effect,   *)
(* or time out and take effect later.                                      *)
(*                                                                         *)
(* activation.py is seen here through what module Activation shows of it:  *)
(* an activation that reports success has committed, one that fails has    *)
(* changed nothing, and the floor never falls.                             *)
(***************************************************************************)
EXTENDS Naturals, FiniteSets

CONSTANTS
  Release,             \* releases of the corpus
  SeqOf,               \* the sequence of each release
  Target,              \* the candidate of this rollout
  None,                \* no record, no selection, no answer
  MaxActivations,      \* maximum_activation_attempts
  MaxRestarts,         \* maximum_restart_attempts
  MaxPolls,            \* maximum_status_polls
  AttemptCap,          \* what the attempt fields of the record can hold (100)
  Timeout,             \* timeout_seconds, in clock ticks
  MaxClock,            \* bound: the clock stops here
  MaxFaults,           \* bound: crashes and storage errors of the controller
  MaxStepsBack,        \* bound: times the clock is set back
  MaxOthers            \* bound: operations of other operators

ASSUME ReleaseAssumption ==
  /\ SeqOf \in [Release -> Nat \ {0}]
  /\ Target \in Release
  /\ None \notin Release
ASSUME LimitAssumption ==
  /\ MaxActivations \in Nat \ {0} /\ MaxRestarts \in Nat \ {0}
  /\ MaxPolls \in Nat \ {0} /\ Timeout \in Nat \ {0}
  /\ AttemptCap \in Nat /\ MaxActivations <= AttemptCap /\ MaxRestarts <= AttemptCap
ASSUME BoundAssumption ==
  /\ MaxClock \in Nat /\ MaxFaults \in Nat
  /\ MaxStepsBack \in Nat /\ MaxOthers \in Nat

VARIABLES
  record,    \* the persisted rollout state
  ctl,       \* the controller process: where it is and what it holds
  worker,    \* whether its worker task still advances the rollout
  selected,  \* what current.json selects
  floor,     \* the anti-rollback floor beside it
  late,      \* calls that timed out and may still take effect
  template,  \* the restart operation on the Deployment's pod template
  pod,       \* the restart operation of the template the pod was made from
  serving,   \* what the RAG service booted with
  clock,     \* the node's wall clock, from the first start of the controller
  faults, stepsBack, others, \* bounded environment events so far
  replaced,  \* history: pod replacements
  served     \* history: whether the RAG service served Target in production

release == <<selected, floor>>
cluster == <<template, pod, replaced>>
rag == <<serving, served>>
environment == <<clock, stepsBack, others>>
vars == <<record, ctl, worker, release, late, cluster, rag, environment, faults>>

-----------------------------------------------------------------------------
(* The persisted record *)

Terminal == {"verified", "failed"}
Selection == [rel : Release, mode : {"production", "recovery"}]
Production(r) == [rel |-> r, mode |-> "production"]

Restart == 1    \* the operation id "<rollout_id>:restart:1"
Unpatched == 0  \* a template without the annotation

InitialRecord ==
  [phase |-> "activating", reason |-> "ACTIVATION_REQUIRED", receipt |-> FALSE,
   activations |-> 0, restarts |-> 0, acknowledged |-> FALSE, polls |-> 0,
   observed |-> None, started |-> clock, updated |-> clock]

FailureReasons ==
  {"ACTIVATION_ATTEMPTS_EXHAUSTED", "RESTART_ATTEMPTS_EXHAUSTED",
   "STATUS_POLLS_EXHAUSTED", "ROLLOUT_TIMEOUT", "RECONCILIATION_TIMEOUT",
   "TARGET_STATUS_REJECTED"}

Record ==
  [phase : {"activating", "restarting", "observing"} \cup Terminal,
   reason : {"ACTIVATION_REQUIRED", "RESTART_REQUIRED", "RESTART_IN_PROGRESS",
             "AWAITING_TARGET_STATUS", "TARGET_SERVING_VERIFIED"}
              \cup FailureReasons,
   receipt : BOOLEAN, activations : Nat, restarts : Nat,
   acknowledged : BOOLEAN, polls : Nat, observed : Release \cup {None},
   started : Nat, updated : Nat]

ASSUME RecordAssumption == None \notin Record

\* PersistedRolloutState.coherent.
Coherent(r) ==
  /\ r.updated >= r.started
  /\ ~r.receipt => r.phase \in {"activating", "failed"}
  /\ ~r.receipt /\ r.phase = "failed" =>
       r.reason \in {"ACTIVATION_ATTEMPTS_EXHAUSTED", "ROLLOUT_TIMEOUT"}
  /\ r.acknowledged => r.restarts >= 1
  /\ r.phase = "activating" =>
       /\ r.restarts = 0 /\ ~r.receipt /\ ~r.acknowledged
       /\ r.polls = 0 /\ r.observed = None /\ r.reason = "ACTIVATION_REQUIRED"
  /\ r.phase = "restarting" =>
       /\ ~r.acknowledged /\ r.polls = 0 /\ r.observed = None
       /\ r.reason \in {"RESTART_REQUIRED", "RESTART_IN_PROGRESS"}
  /\ r.phase = "observing" =>
       r.acknowledged /\ r.reason = "AWAITING_TARGET_STATUS"
  /\ r.phase = "verified" =>
       /\ r.acknowledged /\ r.polls >= 1 /\ r.observed = Target
       /\ r.reason = "TARGET_SERVING_VERIFIED"
  /\ r.phase = "failed" => r.reason \in FailureReasons

\* What load() accepts. save() does not check it: model_copy and the validation
\* of an instance run neither the validator nor the bounds of the fields.
Loadable(r) ==
  Coherent(r) /\ r.activations <= AttemptCap /\ r.restarts <= AttemptCap

-----------------------------------------------------------------------------
(* The controller process *)

Caller == {"worker", "api"}

\* Where it is, the clock it has read, for whom it advances, the status it saw.
Process(pc, now, by) == [pc |-> pc, now |-> now, by |-> by, seen |-> None]
Down == Process("down", 0, None)
Idle == Process("idle", 0, None)
At(pc) == ctl.pc = pc
Goes(pc) == ctl' = [ctl EXCEPT !.pc = pc]

\* A RolloutStateError ends the worker that meets it: it does not try again in
\* this process. An API call answers 409 and leaves the worker running.
StateErrorFor(by) == worker' = IF by = "worker" THEN "stopped" ELSE worker

\* LocalRolloutStateStore.save and what follows it. It can raise, before or
\* after its os.replace.
Persist(r, next, by) ==
  \/ record' = r /\ ctl' = next /\ UNCHANGED <<worker, faults>>
  \/ /\ faults < MaxFaults
     /\ record' \in {record, r}
     /\ ctl' = Idle
     /\ StateErrorFor(by)
     /\ faults' = faults + 1

\* Mutant of Ended: phase and reason change places.
EndedSwapped(r, reason, now) ==
  [r EXCEPT !.phase = reason, !.reason = "failed", !.updated = now]

Ended(r, reason, now) ==
  [r EXCEPT !.phase = "failed", !.reason = reason, !.updated = now]

\* lifespan(): current_result creates the record on the very first start, and
\* fails when it cannot load the one there is.
ControllerStarts ==
  /\ At("down") /\ (record # None => Loadable(record))
  /\ record' = IF record = None THEN InitialRecord ELSE record
  /\ ctl' = Idle
  /\ worker' = "running"
  /\ UNCHANGED <<release, late, cluster, rag, environment, faults>>

\* advance() loads the record and runs under operation_lock, called by the
\* worker or through the API, which still works when the worker has stopped.
MayAdvance(by) ==
  /\ At("idle") /\ record # None /\ Loadable(record)
  /\ record.phase \notin Terminal
  /\ by = "worker" => worker = "running"

ClockMovedBack == clock < record.updated
\* Mutant of Expired: waiting for a status has no deadline.
ExpiredUnlessObserving ==
  record.phase # "observing" /\ clock - record.started >= Timeout

Expired == clock - record.started >= Timeout

ClockError(by) ==
  /\ MayAdvance(by) /\ ClockMovedBack
  /\ StateErrorFor(by)
  /\ UNCHANGED <<record, ctl, release, late, cluster, rag, environment, faults>>

Expire(by) ==
  /\ MayAdvance(by) /\ ~ClockMovedBack /\ Expired
  /\ Persist(Ended(record, "ROLLOUT_TIMEOUT", clock), Idle, by)
  /\ UNCHANGED <<release, late, cluster, rag, environment>>

InTime(by, phase) ==
  MayAdvance(by) /\ ~ClockMovedBack /\ ~Expired /\ record.phase = phase

-----------------------------------------------------------------------------
(* ACTIVATING *)

IntendActivation(by) ==
  /\ InTime(by, "activating")
  /\ Persist([record EXCEPT !.activations = @ + 1, !.updated = clock],
             Process("activate", clock, by), by)
  /\ UNCHANGED <<release, late, cluster, rag, environment>>

AlreadySelected ==
  selected # None /\ selected.rel = Target /\ SeqOf[Target] = floor
MovesForward == SeqOf[Target] > floor

\* What POST /v1/activation does on the node; ok means a success receipt.
OperatorActivates(ok) ==
  \/ ok /\ AlreadySelected /\ UNCHANGED release
  \/ ok /\ MovesForward
        /\ selected' = Production(Target) /\ floor' = SeqOf[Target]
  \/ ~ok /\ ~AlreadySelected /\ UNCHANGED release

\* HttpActivationPort.activate: answered, lost, or timed out on the way.
CallActivation ==
  /\ At("activate")
  /\ \/ \E ok \in BOOLEAN :
          /\ OperatorActivates(ok)
          /\ Goes(IF ok THEN "accepted" ELSE "refused")
          /\ UNCHANGED late
     \/ /\ late' \in {late, late \cup {"activate"}}
        /\ Goes("refused")
        /\ UNCHANGED release
  /\ UNCHANGED <<record, worker, cluster, rag, environment, faults>>

\* Mutant of AcceptActivation: acknowledged before any restart was requested.
AcceptActivationAcknowledged ==
  /\ At("accepted")
  /\ Persist([record EXCEPT !.phase = "restarting", !.receipt = TRUE,
                !.reason = "RESTART_REQUIRED", !.acknowledged = TRUE,
                !.updated = ctl.now], Idle, ctl.by)
  /\ UNCHANGED <<release, late, cluster, rag, environment>>

AcceptActivation ==
  /\ At("accepted")
  /\ Persist([record EXCEPT !.phase = "restarting", !.receipt = TRUE,
                !.reason = "RESTART_REQUIRED", !.updated = ctl.now], Idle, ctl.by)
  /\ UNCHANGED <<release, late, cluster, rag, environment>>

\* Below the limit advance() raises RolloutPortError, which the worker retries.
ActivationRefused ==
  /\ At("refused")
  /\ IF record.activations >= MaxActivations
       THEN Persist(Ended(record, "ACTIVATION_ATTEMPTS_EXHAUSTED", ctl.now), Idle,
                    ctl.by)
       ELSE ctl' = Idle /\ UNCHANGED <<record, worker, faults>>
  /\ UNCHANGED <<release, late, cluster, rag, environment>>

-----------------------------------------------------------------------------
(* RESTARTING *)

IntendRestart(by) ==
  /\ InTime(by, "restarting")
  /\ Persist([record EXCEPT !.restarts = @ + 1, !.updated = clock,
                            !.reason = "RESTART_IN_PROGRESS"],
             Process("restart", clock, by), by)
  /\ UNCHANGED <<release, late, cluster, rag, environment>>

\* Mutant of RestartOperation: every attempt carries an identifier of its own.
RestartOperationPerAttempt(attempt) == attempt

\* One stable id for every attempt, so that a repeated PATCH changes nothing.
RestartOperation(attempt) == Restart

\* KubernetesDeploymentRestarter.request_restart.
CallRestart ==
  /\ At("restart")
  /\ \/ /\ template' = RestartOperation(record.restarts)
        /\ Goes("patched")
        /\ UNCHANGED late
     \/ /\ late' \in {late, late \cup {"restart"}}
        /\ Goes("unpatched")
        /\ UNCHANGED template
  /\ UNCHANGED <<record, worker, release, pod, replaced, rag, environment, faults>>

AcknowledgeRestart ==
  /\ At("patched")
  /\ Persist([record EXCEPT !.phase = "observing", !.acknowledged = TRUE,
                !.reason = "AWAITING_TARGET_STATUS", !.updated = ctl.now], Idle, ctl.by)
  /\ UNCHANGED <<release, late, cluster, rag, environment>>

\* Mutant of RestartRefused: the attempts are never exhausted.
RestartRefusedForever ==
  /\ At("unpatched")
  /\ ctl' = Idle
  /\ UNCHANGED <<record, worker, faults>>
  /\ UNCHANGED <<release, late, cluster, rag, environment>>

RestartRefused ==
  /\ At("unpatched")
  /\ IF record.restarts >= MaxRestarts
       THEN Persist(Ended(record, "RESTART_ATTEMPTS_EXHAUSTED", ctl.now), Idle,
                    ctl.by)
       ELSE ctl' = Idle /\ UNCHANGED <<record, worker, faults>>
  /\ UNCHANGED <<release, late, cluster, rag, environment>>

-----------------------------------------------------------------------------
(* OBSERVING *)

BeginObserving(by) ==
  /\ InTime(by, "observing")
  /\ ctl' = Process("observe", clock, by)
  /\ UNCHANGED <<record, worker, release, late, cluster, rag, environment, faults>>

\* HttpStatusPort: a failed read raises RolloutPortError and costs no poll.
ReadStatus ==
  /\ At("observe")
  /\ \/ serving # None /\ ctl' = [ctl EXCEPT !.pc = "observed", !.seen = serving]
     \/ ctl' = Idle
  /\ UNCHANGED <<record, worker, release, late, cluster, rag, environment, faults>>

\* Mutant of Verdict: a recovery of the target passes for its production.
VerdictAnyMode(seen, restarts, polls) ==
  IF restarts > MaxRestarts THEN <<"failed", "RESTART_ATTEMPTS_EXHAUSTED">>
  ELSE IF seen.rel = Target THEN <<"verified", "TARGET_SERVING_VERIFIED">>
  ELSE IF restarts >= MaxRestarts THEN <<"failed", "RESTART_ATTEMPTS_EXHAUSTED">>
  ELSE IF polls >= MaxPolls THEN <<"failed", "STATUS_POLLS_EXHAUSTED">>
  ELSE <<"observing", "AWAITING_TARGET_STATUS">>

\* DeploymentReconciler.evaluate before the deadline, then the poll budget.
Verdict(seen, restarts, polls) ==
  IF restarts > MaxRestarts THEN <<"failed", "RESTART_ATTEMPTS_EXHAUSTED">>
  ELSE IF seen = Production(Target) THEN <<"verified", "TARGET_SERVING_VERIFIED">>
  ELSE IF seen.rel = Target THEN <<"failed", "TARGET_STATUS_REJECTED">>
  ELSE IF restarts >= MaxRestarts THEN <<"failed", "RESTART_ATTEMPTS_EXHAUSTED">>
  ELSE IF polls >= MaxPolls THEN <<"failed", "STATUS_POLLS_EXHAUSTED">>
  ELSE <<"observing", "AWAITING_TARGET_STATUS">>

Reconcile ==
  /\ At("observed")
  /\ LET polls == record.polls + 1
         verdict == Verdict(ctl.seen, record.restarts, polls)
     IN  Persist([record EXCEPT !.phase = verdict[1], !.reason = verdict[2],
                    !.polls = polls, !.observed = ctl.seen.rel,
                    !.updated = ctl.now], Idle, ctl.by)
  /\ UNCHANGED <<release, late, cluster, rag, environment>>

-----------------------------------------------------------------------------
(* The rest of the pod and the cluster *)

\* A call that timed out takes effect after all.
LateActivation ==
  /\ "activate" \in late
  /\ \E ok \in BOOLEAN : OperatorActivates(ok)
  /\ late' = late \ {"activate"}
  /\ UNCHANGED <<record, ctl, worker, cluster, rag, environment, faults>>

LateRestart ==
  /\ "restart" \in late
  /\ template' = RestartOperation(record.restarts)
  /\ late' = late \ {"restart"}
  /\ UNCHANGED <<record, ctl, worker, release, pod, replaced, rag, environment,
                 faults>>

\* The Deployment's strategy is Recreate: a changed template replaces the pod,
\* with the RAG service, the operator and the controller in it.
ReplacePod ==
  /\ pod # template
  /\ pod' = template
  /\ replaced' = replaced + 1
  /\ serving' = None
  /\ ctl' = Down
  /\ late' = late \ {"activate"}
  /\ UNCHANGED <<record, worker, release, template, served, environment, faults>>

\* At boot the RAG service resolves what current.json selects; its status is
\* that selection until it stops.
RagStarts ==
  /\ serving = None
  /\ selected # None
  /\ serving' = selected
  /\ served' = (served \/ selected = Production(Target))
  /\ UNCHANGED <<record, ctl, worker, release, late, cluster, environment, faults>>

RagStops ==
  /\ serving # None
  /\ serving' = None
  /\ UNCHANGED <<record, ctl, worker, release, late, cluster, served,
                 environment, faults>>

ControllerCrashes ==
  /\ ~At("down")
  /\ faults < MaxFaults
  /\ faults' = faults + 1
  /\ ctl' = Down
  /\ UNCHANGED <<record, worker, release, late, cluster, rag, environment>>

\* Somebody else activates or recovers a release on this node.
OtherOperation ==
  /\ others < MaxOthers
  /\ others' = others + 1
  /\ \E r \in Release :
       \/ SeqOf[r] > floor /\ selected' = Production(r) /\ floor' = SeqOf[r]
       \/ /\ selected # None
          /\ selected' = [rel |-> r, mode |-> "recovery"]
          /\ floor' = IF SeqOf[r] > floor THEN SeqOf[r] ELSE floor
  /\ UNCHANGED <<record, ctl, worker, late, cluster, rag, clock, stepsBack, faults>>

Tick ==
  /\ record # None
  /\ clock < MaxClock
  /\ clock' = clock + 1
  /\ UNCHANGED <<record, ctl, worker, release, late, cluster, rag, stepsBack,
                 others, faults>>

ClockStepsBack ==
  /\ clock > 0 /\ stepsBack < MaxStepsBack
  /\ clock' = clock - 1
  /\ stepsBack' = stepsBack + 1
  /\ UNCHANGED <<record, ctl, worker, release, late, cluster, rag, others, faults>>

-----------------------------------------------------------------------------

\* A fresh node, or one that already selects and serves some release.
Init ==
  /\ record = None
  /\ ctl = Down
  /\ worker = "running"
  /\ \/ selected = None /\ floor = 0
     \/ \E r \in Release : selected = Production(r) /\ floor = SeqOf[r]
  /\ late = {}
  /\ template = Unpatched /\ pod = Unpatched
  /\ serving = selected
  /\ clock = 0
  /\ faults = 0 /\ stepsBack = 0 /\ others = 0
  /\ replaced = 0
  /\ served = (selected = Production(Target))

Advance(by) ==
  \/ ClockError(by) \/ Expire(by)
  \/ IntendActivation(by) \/ IntendRestart(by) \/ BeginObserving(by)

Continue ==
  \/ CallActivation \/ AcceptActivation \/ ActivationRefused
  \/ CallRestart \/ AcknowledgeRestart \/ RestartRefused
  \/ ReadStatus \/ Reconcile

Next ==
  \/ ControllerStarts
  \/ \E by \in Caller : Advance(by)
  \/ Continue
  \/ LateActivation \/ LateRestart
  \/ ReplacePod \/ RagStarts \/ RagStops \/ ControllerCrashes
  \/ OtherOperation \/ Tick \/ ClockStepsBack

Spec == Init /\ [][Next]_vars

\* The kubelet restarts the controller, its worker polls while it runs, every
\* call has a timeout, and time passes. Nothing is assumed of the others.
FairSpec ==
  Spec /\ WF_vars(ControllerStarts) /\ WF_vars(Advance("worker"))
       /\ WF_vars(Continue) /\ WF_vars(Tick)
-----------------------------------------------------------------------------
(* Properties *)

Pcs == {"down", "idle", "activate", "accepted", "refused",
        "restart", "patched", "unpatched", "observe", "observed"}

\* Every variable holds a value of its kind.
TypeOK ==
  /\ record \in Record \cup {None}
  /\ ctl \in [pc : Pcs, now : Nat, by : Caller \cup {None},
             seen : Selection \cup {None}]
  /\ worker \in {"running", "stopped"}
  /\ selected \in Selection \cup {None} /\ floor \in Nat
  /\ late \subseteq {"activate", "restart"}
  /\ template \in Nat /\ pod \in Nat /\ replaced \in Nat
  /\ serving \in Selection \cup {None} /\ served \in BOOLEAN
  /\ clock \in Nat /\ faults \in Nat /\ stepsBack \in Nat /\ others \in Nat

\* Whatever interrupts the controller, the record on the volume is one that
\* load() accepts: a rollout is never stuck on its own state file. It takes
\* attempt fields with room for the attempts that interruptions add.
RecordCoherent == record # None => Loadable(record)

\* However often the restart is requested, repeated after an ambiguous failure
\* or delivered late, the pod is replaced once.
PodReplacedOnce == replaced <= 1

\* A rollout reported as verified was really cut over: Kubernetes has accepted
\* its restart and the RAG service served the target as production.
VerifiedIsEarned ==
  record # None /\ record.phase = "verified" =>
    template = Restart /\ served

\* The pod is never told to restart into a release older than the target: by
\* then the activation is durable, also when its answer got lost.
RestartFollowsActivation == template # Unpatched => floor >= SeqOf[Target]

\* The limits hold up to interruptions: only a crash, a storage error or the
\* pod replacement between an intent and its outcome buys another attempt.
AttemptsBudgeted ==
  record # None =>
    /\ record.activations <= MaxActivations + faults + replaced
    /\ record.restarts <= MaxRestarts + faults + replaced
    /\ record.polls <= MaxPolls

\* No rollout stays open: it is verified or failed, or its worker has stopped
\* and says so.
RolloutSettles ==
  record # None ~>
    record # None /\ (record.phase \in Terminal \/ worker = "stopped")

\* The configured limits bound the attempts that are counted and made.
AttemptLimit ==
  record # None =>
    record.activations <= MaxActivations /\ record.restarts <= MaxRestarts

\* A rollout is verified only by a status observed after the restart.
VerifiedAfterRestart ==
  record # None /\ record.phase = "verified" => replaced >= 1
=============================================================================

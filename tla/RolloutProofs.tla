---------------------------- MODULE RolloutProofs ----------------------------
(***************************************************************************)
(* The inductive invariant of Rollout and the safety theorems that follow  *)
(* from it, for any releases, limits, faults and clocks.                   *)
(***************************************************************************)
EXTENDS Rollout, TLAPS

-----------------------------------------------------------------------------
(* The inductive invariant *)

\* What a record claims has happened.
Grounded(r) ==
  /\ r.receipt => floor >= SeqOf[Target]
  /\ r.acknowledged => template = Restart
  /\ r.phase = "verified" => served

\* What the attempts beyond the limits are owed to.
Interruptions == faults + replaced

\* What a record has spent. A poll is counted only while one is left.
Budgeted(r) ==
  /\ r.activations <= MaxActivations + Interruptions
  /\ r.restarts <= MaxRestarts + Interruptions
  /\ r.polls <= MaxPolls
  /\ r.phase = "observing" => r.polls < MaxPolls

\* Between attempts there is room for the next one.
RoomForAttempt(r) ==
  /\ r.phase = "activating" => r.activations < MaxActivations + Interruptions
  /\ r.phase = "restarting" => r.restarts < MaxRestarts + Interruptions

\* Where advance() is fits the record it works on, which nothing else writes.
Fits(c, r) ==
  /\ c.pc \in {"down", "idle"} => RoomForAttempt(r)
  /\ c.pc \in {"activate", "accepted", "refused"} =>
       r.phase = "activating" /\ c.now = r.updated
  /\ c.pc \in {"restart", "patched", "unpatched"} =>
       r.phase = "restarting" /\ r.restarts >= 1 /\ c.now = r.updated
  /\ c.pc \in {"observe", "observed"} =>
       r.phase = "observing" /\ c.now >= r.updated
  /\ c.pc = "accepted" => floor >= SeqOf[Target]
  /\ c.pc = "patched" => template = Restart
  /\ c.pc = "observed" =>
       c.seen \in Selection /\ (c.seen = Production(Target) => served)

RecordFits ==
  IF record = None
    THEN At("down")
    ELSE Coherent(record) /\ Grounded(record) /\ Budgeted(record) /\ Fits(ctl, record)

\* A restart is only ever on its way once the activation is durable, the pod is
\* made from the template or the one before, and what serves was served.
\* Crashes and storage errors stay within their bound.
ClusterFollows ==
  /\ faults <= MaxFaults
  /\ template \in {Unpatched, Restart}
  /\ pod \in {Unpatched, template}
  /\ replaced = pod
  /\ template = Restart \/ "restart" \in late => floor >= SeqOf[Target]
  /\ serving # None /\ serving = Production(Target) => served

IInv == TypeOK /\ ClusterFollows /\ RecordFits

-----------------------------------------------------------------------------
(* Steps of the controller *)

Processes ==
  [pc : Pcs, now : Nat, by : Caller \cup {None}, seen : Selection \cup {None}]

\* The fields of a record.
LEMMA RecordFields ==
  ASSUME NEW r \in Record
  PROVE  /\ r.activations \in Nat /\ r.restarts \in Nat /\ r.polls \in Nat
         /\ r.started \in Nat /\ r.updated \in Nat
         /\ r.receipt \in BOOLEAN /\ r.acknowledged \in BOOLEAN
         /\ r.observed \in Release \cup {None}
         /\ r # None
BY RecordAssumption DEF Record

\* A save that succeeds leaves the new record and the next place; one that
\* raises leaves either record, at the cost of a fault.
LEMMA SaveKeeps ==
  ASSUME IInv, record # None, NEW r \in Record, NEW c \in Processes,
         NEW by, Persist(r, c, by), UNCHANGED <<release, late, cluster, rag, environment>>,
         Coherent(r), Grounded(r), Budgeted(r), Fits(c, r)
  PROVE  IInv'
<1>1. /\ UNCHANGED <<selected, floor, late, template, pod, replaced>>
      /\ UNCHANGED <<serving, served, clock, stepsBack, others>>
  BY DEF release, cluster, rag, environment
<1>2. ClusterFollows'
  <2>1. faults' <= MaxFaults
    BY BoundAssumption DEF Persist, IInv, TypeOK, ClusterFollows
  <2> QED BY <1>1, <2>1 DEF IInv, ClusterFollows
<1>3. CASE record' = r /\ ctl' = c /\ UNCHANGED <<worker, faults>>
  <2>1. TypeOK'
    BY <1>1, <1>3 DEF IInv, TypeOK, Processes
  <2>2. RecordFits'
    BY <1>1, <1>3, RecordFields
    DEF RecordFits, Grounded, Budgeted, Fits, RoomForAttempt, Interruptions
  <2> QED BY <1>2, <2>1, <2>2 DEF IInv
<1>4. CASE /\ record' \in {record, r} /\ ctl' = Idle /\ StateErrorFor(by)
           /\ faults' = faults + 1
  <2>1. record \in Record /\ faults \in Nat /\ replaced \in Nat
    BY DEF IInv, TypeOK
  <2>2. Idle \in Processes
    BY DEF Idle, Process, Processes, Pcs
  <2>3. TypeOK'
    BY <1>1, <1>4, <2>1, <2>2 DEF IInv, TypeOK, Processes, StateErrorFor
  <2>4. Coherent(record) /\ Grounded(record) /\ Budgeted(record)
    BY DEF IInv, RecordFits
  <2>5. Coherent(record')
    BY <1>4, <2>4
  <2>6. Grounded(record)'
    BY <1>1, <1>4, <2>4 DEF Grounded
  <2>7. /\ record'.activations \in Nat /\ record'.restarts \in Nat
        /\ record'.polls \in Nat /\ record' # None
    BY <1>4, <2>1, RecordFields
  <2>8. Budgeted(record')
    BY <1>4, <2>4
  <2>9. Budgeted(record)' /\ RoomForAttempt(record)'
    BY <1>1, <1>4, <2>1, <2>7, <2>8, LimitAssumption
    DEF Budgeted, RoomForAttempt, Interruptions
  <2>10. Fits(ctl, record)'
    BY <1>4, <2>9 DEF Fits, Idle, Process
  <2>11. RecordFits'
    BY <2>5, <2>6, <2>7, <2>9, <2>10 DEF RecordFits
  <2> QED BY <1>2, <2>3, <2>11 DEF IInv
<1> QED BY <1>3, <1>4 DEF Persist

\* What the invariant says of a record that exists.
LEMMA OpenRecord ==
  ASSUME IInv, record # None
  PROVE  /\ record \in Record
         /\ Coherent(record) /\ Grounded(record) /\ Budgeted(record)
         /\ Fits(ctl, record)
         /\ clock \in Nat /\ Interruptions \in Nat /\ ctl \in Processes
BY DEF IInv, TypeOK, RecordFits, Processes, Interruptions

LEMMA IdleFits ==
  ASSUME NEW r, RoomForAttempt(r)
  PROVE  Idle \in Processes /\ Fits(Idle, r)
BY DEF Idle, Process, Processes, Pcs, Fits

\* A rollout may fail for these reasons from any phase, and for exhausted
\* restarts only with its receipt.
LEMMA EndedIsGood ==
  ASSUME IInv, record # None, NEW t \in Nat, t >= record.updated,
         NEW reason \in {"ROLLOUT_TIMEOUT", "ACTIVATION_ATTEMPTS_EXHAUSTED",
                         "RESTART_ATTEMPTS_EXHAUSTED"},
         reason = "RESTART_ATTEMPTS_EXHAUSTED" => record.receipt
  PROVE  LET r == Ended(record, reason, t)
         IN  /\ r \in Record /\ Coherent(r) /\ Grounded(r) /\ Budgeted(r)
             /\ Idle \in Processes /\ Fits(Idle, r)
<1> DEFINE r == Ended(record, reason, t)
<1>1. record \in Record
  BY OpenRecord
<1>2. r = [record EXCEPT !.phase = "failed", !.reason = reason, !.updated = t]
  BY DEF Ended
<1>3. r \in Record
  BY <1>1, <1>2 DEF Record, Terminal, FailureReasons
<1>4. /\ r.phase = "failed" /\ r.reason = reason /\ r.updated = t
      /\ r.receipt = record.receipt /\ r.activations = record.activations
      /\ r.restarts = record.restarts /\ r.acknowledged = record.acknowledged
      /\ r.polls = record.polls /\ r.observed = record.observed
      /\ r.started = record.started
  BY <1>1, <1>2 DEF Record
<1> HIDE DEF r
<1>5. record.updated \in Nat /\ record.started \in Nat
  BY <1>1, RecordFields
<1>6. Coherent(r)
  BY <1>4, <1>5, OpenRecord DEF Coherent, FailureReasons
<1>7. Grounded(r) /\ Budgeted(r) /\ RoomForAttempt(r)
  BY <1>4, OpenRecord DEF Grounded, Budgeted, RoomForAttempt
<1> QED BY <1>3, <1>6, <1>7, IdleFits DEF r

LEMMA ExpireKeeps ==
  ASSUME IInv, NEW by, Expire(by) PROVE IInv'
<1>1. record # None /\ clock >= record.updated /\ clock \in Nat
  BY OpenRecord, RecordFields DEF Expire, MayAdvance, ClockMovedBack
<1>2. Persist(Ended(record, "ROLLOUT_TIMEOUT", clock), Idle, by)
      /\ UNCHANGED <<release, late, cluster, rag, environment>>
  BY DEF Expire
<1> QED BY <1>1, <1>2, EndedIsGood, SaveKeeps

LEMMA IntendActivationKeeps ==
  ASSUME IInv, NEW by \in Caller, IntendActivation(by) PROVE IInv'
<1> DEFINE r == [record EXCEPT !.activations = @ + 1, !.updated = clock]
           c == Process("activate", clock, by)
<1>1. /\ record # None /\ clock >= record.updated /\ record.phase = "activating"
      /\ ctl.pc = "idle" /\ Persist(r, c, by)
      /\ UNCHANGED <<release, late, cluster, rag, environment>>
  BY OpenRecord, RecordFields
  DEF IntendActivation, InTime, MayAdvance, ClockMovedBack, At
<1>2. /\ record \in Record /\ Coherent(record) /\ Grounded(record)
      /\ Budgeted(record) /\ RoomForAttempt(record)
      /\ clock \in Nat /\ Interruptions \in Nat
  BY <1>1, OpenRecord DEF Fits
<1>3. /\ record.activations \in Nat /\ record.started \in Nat
      /\ record.updated \in Nat
  BY <1>2, RecordFields
<1>4. r \in Record /\ c \in Processes
  <2>1. record.activations + 1 \in Nat
    BY <1>3
  <2>2. r \in Record
    BY <1>2, <2>1 DEF Record
  <2>3. c \in Processes
    BY <1>2 DEF Process, Processes, Pcs
  <2> QED BY <2>2, <2>3
<1>5. /\ r.activations = record.activations + 1 /\ r.updated = clock
      /\ r.phase = record.phase /\ r.reason = record.reason
      /\ r.receipt = record.receipt /\ r.restarts = record.restarts
      /\ r.acknowledged = record.acknowledged /\ r.polls = record.polls
      /\ r.observed = record.observed /\ r.started = record.started
      /\ c.pc = "activate" /\ c.now = clock
  BY <1>2 DEF Record, Process
<1> HIDE DEF r, c
<1>6. Coherent(r)
  BY <1>1, <1>2, <1>3, <1>5 DEF Coherent
<1>7. Grounded(r) /\ Budgeted(r) /\ Fits(c, r)
  BY <1>1, <1>2, <1>3, <1>5, LimitAssumption
  DEF Grounded, Budgeted, RoomForAttempt, Fits
<1> QED BY <1>1, <1>4, <1>6, <1>7, SaveKeeps

LEMMA IntendRestartKeeps ==
  ASSUME IInv, NEW by \in Caller, IntendRestart(by) PROVE IInv'
<1> DEFINE r == [record EXCEPT !.restarts = @ + 1, !.updated = clock,
                               !.reason = "RESTART_IN_PROGRESS"]
           c == Process("restart", clock, by)
<1>1. /\ record # None /\ clock >= record.updated /\ record.phase = "restarting"
      /\ ctl.pc = "idle" /\ Persist(r, c, by)
      /\ UNCHANGED <<release, late, cluster, rag, environment>>
  BY OpenRecord, RecordFields
  DEF IntendRestart, InTime, MayAdvance, ClockMovedBack, At
<1>2. /\ record \in Record /\ Coherent(record) /\ Grounded(record)
      /\ Budgeted(record) /\ RoomForAttempt(record)
      /\ clock \in Nat /\ Interruptions \in Nat
  BY <1>1, OpenRecord DEF Fits
<1>3. /\ record.restarts \in Nat /\ record.started \in Nat
      /\ record.updated \in Nat
  BY <1>2, RecordFields
<1>4. r \in Record /\ c \in Processes
  <2>1. record.restarts + 1 \in Nat
    BY <1>3
  <2>2. r \in Record
    BY <1>2, <2>1 DEF Record, Terminal, FailureReasons
  <2>3. c \in Processes
    BY <1>2 DEF Process, Processes, Pcs
  <2> QED BY <2>2, <2>3
<1>5. /\ r.restarts = record.restarts + 1 /\ r.updated = clock
      /\ r.phase = record.phase /\ r.reason = "RESTART_IN_PROGRESS"
      /\ r.receipt = record.receipt /\ r.activations = record.activations
      /\ r.acknowledged = record.acknowledged /\ r.polls = record.polls
      /\ r.observed = record.observed /\ r.started = record.started
      /\ c.pc = "restart" /\ c.now = clock
  BY <1>2 DEF Record, Process
<1> HIDE DEF r, c
<1>6. Coherent(r)
  BY <1>1, <1>2, <1>3, <1>5 DEF Coherent
<1>7. Grounded(r) /\ Budgeted(r) /\ Fits(c, r)
  BY <1>1, <1>2, <1>3, <1>5, LimitAssumption
  DEF Grounded, Budgeted, RoomForAttempt, Fits
<1> QED BY <1>1, <1>4, <1>6, <1>7, SaveKeeps

LEMMA AcceptActivationKeeps ==
  ASSUME IInv, AcceptActivation PROVE IInv'
<1> DEFINE r == [record EXCEPT !.phase = "restarting", !.receipt = TRUE,
                   !.reason = "RESTART_REQUIRED", !.updated = ctl.now]
<1>1. /\ ctl.pc = "accepted" /\ Persist(r, Idle, ctl.by)
      /\ UNCHANGED <<release, late, cluster, rag, environment>>
  BY DEF AcceptActivation, At
<1>2. record # None
  BY <1>1 DEF IInv, RecordFits, At
<1>3. /\ record \in Record /\ Coherent(record) /\ Grounded(record)
      /\ Budgeted(record) /\ Interruptions \in Nat
      /\ record.phase = "activating" /\ ctl.now = record.updated
      /\ floor >= SeqOf[Target]
  BY <1>1, <1>2, OpenRecord DEF Fits
<1>4. /\ r \in Record
      /\ r.phase = "restarting" /\ r.receipt = TRUE
      /\ r.reason = "RESTART_REQUIRED" /\ r.updated = record.updated
      /\ r.activations = record.activations /\ r.restarts = record.restarts
      /\ r.acknowledged = record.acknowledged /\ r.polls = record.polls
      /\ r.observed = record.observed /\ r.started = record.started
  BY <1>3 DEF Record
<1> HIDE DEF r
<1>5. Coherent(r) /\ Grounded(r)
  BY <1>3, <1>4 DEF Coherent, Grounded
<1>6. Budgeted(r) /\ RoomForAttempt(r)
  BY <1>3, <1>4, LimitAssumption DEF Coherent, Budgeted, RoomForAttempt
<1> QED BY <1>1, <1>2, <1>4, <1>5, <1>6, IdleFits, SaveKeeps

LEMMA AcknowledgeRestartKeeps ==
  ASSUME IInv, AcknowledgeRestart PROVE IInv'
<1> DEFINE r == [record EXCEPT !.phase = "observing", !.acknowledged = TRUE,
                   !.reason = "AWAITING_TARGET_STATUS", !.updated = ctl.now]
<1>1. /\ ctl.pc = "patched" /\ Persist(r, Idle, ctl.by)
      /\ UNCHANGED <<release, late, cluster, rag, environment>>
  BY DEF AcknowledgeRestart, At
<1>2. record # None
  BY <1>1 DEF IInv, RecordFits, At
<1>3. /\ record \in Record /\ Coherent(record) /\ Grounded(record)
      /\ Budgeted(record) /\ Interruptions \in Nat
      /\ record.phase = "restarting" /\ ctl.now = record.updated
      /\ record.restarts >= 1 /\ template = Restart
  BY <1>1, <1>2, OpenRecord DEF Fits
<1>4. /\ r \in Record
      /\ r.phase = "observing" /\ r.receipt = record.receipt
      /\ r.reason = "AWAITING_TARGET_STATUS" /\ r.updated = record.updated
      /\ r.activations = record.activations /\ r.restarts = record.restarts
      /\ r.acknowledged = TRUE /\ r.polls = record.polls
      /\ r.observed = record.observed /\ r.started = record.started
  BY <1>3 DEF Record
<1> HIDE DEF r
<1>5. Coherent(r) /\ Grounded(r)
  BY <1>3, <1>4 DEF Coherent, Grounded
<1>6. Budgeted(r) /\ RoomForAttempt(r)
  BY <1>3, <1>4, LimitAssumption DEF Coherent, Budgeted, RoomForAttempt
<1> QED BY <1>1, <1>2, <1>4, <1>5, <1>6, IdleFits, SaveKeeps

LEMMA ReconcileKeeps ==
  ASSUME IInv, Reconcile PROVE IInv'
<1> DEFINE polls == record.polls + 1
           v == Verdict(ctl.seen, record.restarts, polls)
           r == [record EXCEPT !.phase = v[1], !.reason = v[2], !.polls = polls,
                               !.observed = ctl.seen.rel, !.updated = ctl.now]
<1>1. /\ ctl.pc = "observed" /\ Persist(r, Idle, ctl.by)
      /\ UNCHANGED <<release, late, cluster, rag, environment>>
  BY DEF Reconcile, At
<1>2. record # None
  BY <1>1 DEF IInv, RecordFits, At
<1>3. /\ record \in Record /\ Coherent(record) /\ Grounded(record)
      /\ Budgeted(record) /\ Interruptions \in Nat
      /\ record.phase = "observing" /\ ctl \in Processes
      /\ ctl.now >= record.updated /\ ctl.seen \in Selection
      /\ ctl.seen = Production(Target) => served
  BY <1>1, <1>2, OpenRecord DEF Fits
<1>4. /\ record.polls \in Nat /\ record.restarts \in Nat /\ ctl.now \in Nat
      /\ record.started \in Nat /\ record.updated \in Nat
      /\ ctl.seen.rel \in Release /\ record.activations \in Nat
  BY <1>3, RecordFields DEF Processes, Selection
<1>5. \/ v = <<"verified", "TARGET_SERVING_VERIFIED">> /\ ctl.seen = Production(Target)
      \/ v = <<"failed", "RESTART_ATTEMPTS_EXHAUSTED">>
      \/ v = <<"failed", "TARGET_STATUS_REJECTED">>
      \/ v = <<"failed", "STATUS_POLLS_EXHAUSTED">>
      \/ v = <<"observing", "AWAITING_TARGET_STATUS">> /\ polls < MaxPolls
  BY <1>4, LimitAssumption DEF Verdict
<1> HIDE DEF v
<1>6. /\ v[1] \in {"verified", "failed", "observing"}
      /\ v[2] \in {"TARGET_SERVING_VERIFIED", "RESTART_ATTEMPTS_EXHAUSTED",
                   "TARGET_STATUS_REJECTED", "STATUS_POLLS_EXHAUSTED",
                   "AWAITING_TARGET_STATUS"}
  BY <1>5
<1>7. r \in Record
  <2>1. polls \in Nat
    BY <1>4
  <2> QED BY <1>3, <1>4, <1>6, <2>1 DEF Record, Terminal, FailureReasons
<1>8. /\ r.phase = v[1] /\ r.reason = v[2] /\ r.polls = record.polls + 1
      /\ r.observed = ctl.seen.rel /\ r.updated = ctl.now
      /\ r.receipt = record.receipt /\ r.acknowledged = record.acknowledged
      /\ r.activations = record.activations /\ r.restarts = record.restarts
      /\ r.started = record.started
  BY <1>3 DEF Record
<1> HIDE DEF r
<1>9. /\ record.receipt /\ record.acknowledged /\ record.restarts >= 1
      /\ record.updated >= record.started /\ record.polls < MaxPolls
  BY <1>3 DEF Coherent, Budgeted
<1>10. /\ r.phase = "verified" => /\ r.observed = Target /\ served
                                  /\ r.reason = "TARGET_SERVING_VERIFIED"
       /\ r.phase = "observing" =>
            r.reason = "AWAITING_TARGET_STATUS" /\ r.polls < MaxPolls
       /\ r.phase = "failed" => r.reason \in FailureReasons
  <2>1. CASE v[1] = "verified" /\ v[2] = "TARGET_SERVING_VERIFIED"
             /\ ctl.seen = Production(Target)
    BY <1>3, <1>8, <2>1 DEF Production
  <2>2. CASE v[1] = "failed" /\ v[2] \in FailureReasons
    BY <1>8, <2>2
  <2>3. CASE v[1] = "observing" /\ v[2] = "AWAITING_TARGET_STATUS"
             /\ polls < MaxPolls
    BY <1>8, <2>3
  <2>4. \/ v[1] = "verified" /\ v[2] = "TARGET_SERVING_VERIFIED"
             /\ ctl.seen = Production(Target)
        \/ v[1] = "failed" /\ v[2] \in FailureReasons
        \/ v[1] = "observing" /\ v[2] = "AWAITING_TARGET_STATUS"
             /\ polls < MaxPolls
    BY <1>5 DEF FailureReasons
  <2> QED BY <2>1, <2>2, <2>3, <2>4
<1>11. Coherent(r)
  <2>1. r.phase \in {"verified", "failed", "observing"}
    BY <1>6, <1>8
  <2>2. /\ r.receipt = TRUE /\ r.acknowledged = TRUE /\ r.restarts >= 1
        /\ r.updated >= r.started /\ r.polls >= 1
    BY <1>3, <1>4, <1>8, <1>9, RecordFields
  <2> QED BY <1>10, <2>1, <2>2 DEF Coherent
<1>12. Grounded(r)
  BY <1>3, <1>8, <1>10 DEF Grounded
<1>13. Budgeted(r) /\ RoomForAttempt(r)
  BY <1>3, <1>4, <1>6, <1>8, <1>9, <1>10, LimitAssumption
  DEF Budgeted, RoomForAttempt
<1> QED BY <1>1, <1>2, <1>7, <1>11, <1>12, <1>13, IdleFits, SaveKeeps

LEMMA InterruptionsCounted ==
  /\ TypeOK => Interruptions \in Nat
  /\ TypeOK' => Interruptions' \in Nat
BY DEF TypeOK, Interruptions

\* A budget that grows still covers what was spent within it.
LEMMA BudgetGrows ==
  ASSUME NEW spent \in Nat, NEW limit \in Nat, NEW k \in Nat,
         NEW before \in Nat, NEW after \in Nat,
         spent <= limit + before, after >= before + k
  PROVE  spent + k <= limit + after
OBVIOUS

\* Steps that write no record: where advance() is may change, what the record
\* rests on only grows, and an interruption makes room for another attempt.
LEMMA NoSaveKeeps ==
  ASSUME IInv, record' = record, TypeOK', ClusterFollows',
         floor' >= floor, floor \in Nat,
         template = Restart => template' = Restart,
         served => served',
         Interruptions' >= Interruptions,
         record # None => Fits(ctl, record)',
         record = None => At("down")'
  PROVE  IInv'
<1>1. CASE record = None
  BY <1>1 DEF IInv, RecordFits
<1>2. CASE record # None
  <2>1. /\ record \in Record /\ Coherent(record) /\ Grounded(record)
        /\ Budgeted(record)
    BY <1>2, OpenRecord
  <2>2. /\ record.activations \in Nat /\ record.restarts \in Nat
        /\ Interruptions \in Nat /\ Interruptions' \in Nat
        /\ floor' \in Nat /\ SeqOf[Target] \in Nat
    BY <2>1, RecordFields, ReleaseAssumption, InterruptionsCounted DEF IInv, TypeOK
  <2>3. Grounded(record)'
    BY <2>1, <2>2 DEF Grounded
  <2>4. Budgeted(record)'
    <3>1. MaxActivations \in Nat /\ MaxRestarts \in Nat
      BY LimitAssumption
    <3>2. Interruptions' >= Interruptions + 0
      BY <2>2
    <3>3. /\ record.activations + 0 <= MaxActivations + Interruptions'
          /\ record.restarts + 0 <= MaxRestarts + Interruptions'
      BY <2>1, <2>2, <3>1, <3>2, BudgetGrows DEF Budgeted
    <3> QED BY <2>1, <2>2, <3>3 DEF Budgeted
  <2> QED BY <1>2, <2>1, <2>3, <2>4 DEF IInv, RecordFits
<1> QED BY <1>1, <1>2

\* The same when the controller stays where it is.
LEMMA ElsewhereKeeps ==
  ASSUME IInv, UNCHANGED <<record, ctl>>, TypeOK', ClusterFollows',
         floor' >= floor, floor \in Nat,
         template = Restart => template' = Restart,
         served => served', UNCHANGED <<faults, replaced>>
  PROVE  IInv'
<1>1. /\ floor' \in Nat /\ SeqOf[Target] \in Nat /\ Interruptions \in Nat
      /\ Interruptions' = Interruptions
  BY ReleaseAssumption DEF TypeOK, IInv, Interruptions
<1>2. ASSUME record # None PROVE Fits(ctl, record)'
  <2>1. Fits(ctl, record)
    BY <1>2 DEF IInv, RecordFits
  <2> QED BY <1>1, <2>1 DEF Fits, RoomForAttempt
<1>3. ASSUME record = None PROVE At("down")'
  BY <1>3 DEF IInv, RecordFits, At
<1> QED BY <1>1, <1>2, <1>3, NoSaveKeeps

\* The controller ends; the interruption is counted.
LEMMA InterruptionKeeps ==
  ASSUME IInv, record' = record, ctl' = Down, TypeOK', ClusterFollows',
         UNCHANGED <<floor, template, served>>,
         Interruptions' = Interruptions + 1
  PROVE  IInv'
<1>1. ASSUME record # None PROVE Fits(ctl, record)'
  <2>1. /\ Budgeted(record) /\ record.activations \in Nat /\ record.restarts \in Nat
    BY <1>1, OpenRecord, RecordFields
  <2>2. Interruptions \in Nat /\ Interruptions' \in Nat
    BY InterruptionsCounted DEF IInv
  <2>3. RoomForAttempt(record)'
    <3>1. MaxActivations \in Nat /\ MaxRestarts \in Nat
      BY LimitAssumption
    <3>2. Interruptions' >= Interruptions + 1
      BY <2>2
    <3>3. /\ record.activations + 1 <= MaxActivations + Interruptions'
          /\ record.restarts + 1 <= MaxRestarts + Interruptions'
      BY <2>1, <2>2, <3>1, <3>2, BudgetGrows DEF Budgeted
    <3>4. MaxActivations + Interruptions' \in Nat
          /\ MaxRestarts + Interruptions' \in Nat
      BY <2>2, <3>1
    <3> QED BY <2>1, <2>2, <3>3, <3>4 DEF RoomForAttempt
  <2> QED BY <2>3 DEF Fits, Down, Process
<1>2. At("down")'
  BY DEF At, Down, Process
<1>3. floor \in Nat /\ Interruptions \in Nat
  BY InterruptionsCounted DEF IInv, TypeOK
<1> QED BY <1>1, <1>2, <1>3, NoSaveKeeps

\* The controller moves on within the same rollout without writing it.
LEMMA MoveKeeps ==
  ASSUME IInv, record # None, UNCHANGED <<record, worker, faults, replaced>>,
         TypeOK', ClusterFollows',
         floor' >= floor, template = Restart => template' = Restart,
         served => served', Fits(ctl, record)'
  PROVE  IInv'
<1>1. floor \in Nat /\ Interruptions' = Interruptions /\ Interruptions \in Nat
  BY InterruptionsCounted DEF IInv, TypeOK, Interruptions
<1> QED BY <1>1, NoSaveKeeps

\* An operator never lowers the floor, and succeeds only at or above Target.
LEMMA OperatorRaisesFloor ==
  ASSUME IInv, NEW ok \in BOOLEAN, OperatorActivates(ok)
  PROVE  /\ selected' \in Selection \cup {None} /\ floor' \in Nat
         /\ floor' >= floor
         /\ ok => floor' >= SeqOf[Target]
<1>1. /\ floor \in Nat /\ SeqOf[Target] \in Nat /\ Target \in Release
      /\ selected \in Selection \cup {None}
  BY ReleaseAssumption DEF IInv, TypeOK
<1>2. Production(Target) \in Selection
  BY <1>1 DEF Production, Selection
<1> QED BY <1>1, <1>2 DEF OperatorActivates, AlreadySelected, MovesForward, release

LEMMA ControllerStartsKeeps == ASSUME IInv, ControllerStarts PROVE IInv'
<1>1. /\ UNCHANGED <<selected, floor, late, template, pod, replaced>>
      /\ UNCHANGED <<serving, served, clock, stepsBack, others, faults>>
      /\ ctl.pc = "down" /\ ctl' = Idle /\ worker' = "running"
  BY DEF ControllerStarts, At, release, cluster, rag, environment
<1>2. ClusterFollows'
  BY <1>1 DEF IInv, ClusterFollows
<1>3. ctl' \in Processes /\ ctl'.pc = "idle"
  BY <1>1 DEF Idle, Process, Processes, Pcs
<1>4. CASE record = None
  <2>1. record' = InitialRecord /\ clock \in Nat /\ faults \in Nat /\ replaced \in Nat
    BY <1>4 DEF ControllerStarts, IInv, TypeOK
  <2>2. record' \in Record
    BY <2>1 DEF InitialRecord, Record
  <2>3. TypeOK'
    BY <1>1, <1>3, <2>2 DEF IInv, TypeOK, Processes
  <2>4. Coherent(record')
    BY <2>1 DEF InitialRecord, Coherent
  <2>5. Grounded(record)'
    BY <2>1 DEF InitialRecord, Grounded
  <2>6. Budgeted(record)' /\ RoomForAttempt(record)'
    BY <1>1, <2>1, LimitAssumption
    DEF InitialRecord, Budgeted, RoomForAttempt, Interruptions
  <2>7. Fits(ctl, record)'
    BY <1>3, <2>6 DEF Fits
  <2> QED BY <1>2, <2>2, <2>3, <2>4, <2>5, <2>6, <2>7, RecordAssumption
          DEF IInv, RecordFits
<1>5. CASE record # None
  <2>1. record' = record
    BY <1>5 DEF ControllerStarts
  <2>2. TypeOK'
    BY <1>1, <1>3, <2>1 DEF IInv, TypeOK, Processes
  <2>3. RoomForAttempt(record)
    BY <1>1, <1>5, OpenRecord DEF Fits
  <2>4. Fits(ctl, record)'
    BY <1>1, <1>3, <2>1, <2>3 DEF Fits, RoomForAttempt, Interruptions
  <2>5. floor \in Nat /\ Interruptions' = Interruptions /\ Interruptions \in Nat
    BY <1>1, InterruptionsCounted DEF IInv, TypeOK, Interruptions
  <2> QED BY <1>1, <1>2, <1>5, <2>1, <2>2, <2>4, <2>5, NoSaveKeeps
<1> QED BY <1>4, <1>5

LEMMA ClockErrorKeeps == ASSUME IInv, NEW by, ClockError(by) PROVE IInv'
<1>1. /\ UNCHANGED <<record, ctl, selected, floor, late, template, pod, replaced>>
      /\ UNCHANGED <<serving, served, clock, stepsBack, others, faults>>
      /\ worker' \in {"running", "stopped"}
  BY DEF ClockError, StateErrorFor, release, cluster, rag, environment, IInv, TypeOK
<1>2. TypeOK' /\ ClusterFollows'
  BY <1>1 DEF IInv, TypeOK, ClusterFollows
<1>3. floor \in Nat
  BY DEF IInv, TypeOK
<1> QED BY <1>1, <1>2, <1>3, ElsewhereKeeps

LEMMA CallActivationKeeps == ASSUME IInv, CallActivation PROVE IInv'
<1>1. /\ UNCHANGED <<record, worker, template, pod, replaced>>
      /\ UNCHANGED <<serving, served, clock, stepsBack, others, faults>>
      /\ ctl.pc = "activate"
  BY DEF CallActivation, At, cluster, rag, environment
<1>2. record # None /\ ctl \in Processes
  BY <1>1 DEF IInv, RecordFits, At, TypeOK, Processes
<1>3. record.phase = "activating" /\ ctl.now = record.updated
  BY <1>1, <1>2, OpenRecord DEF Fits
<1>4. /\ ctl' \in Processes /\ ctl'.now = ctl.now
      /\ ctl'.pc \in {"accepted", "refused"}
      /\ ctl'.pc = "accepted" => floor' >= SeqOf[Target]
      /\ selected' \in Selection \cup {None} /\ floor' \in Nat /\ floor' >= floor
      /\ late' \in {late, late \cup {"activate"}}
  <2>1. CASE \E ok \in BOOLEAN : /\ OperatorActivates(ok) /\ UNCHANGED late
                                 /\ Goes(IF ok THEN "accepted" ELSE "refused")
    <3>1. PICK ok \in BOOLEAN : /\ OperatorActivates(ok) /\ UNCHANGED late
                                /\ Goes(IF ok THEN "accepted" ELSE "refused")
      BY <2>1
    <3>2. ctl' = [ctl EXCEPT !.pc = IF ok THEN "accepted" ELSE "refused"]
      BY <3>1 DEF Goes
    <3>3. /\ ctl' \in Processes /\ ctl'.now = ctl.now
          /\ ctl'.pc = IF ok THEN "accepted" ELSE "refused"
      BY <1>2, <3>2 DEF Processes, Pcs
    <3> QED BY <3>1, <3>3, OperatorRaisesFloor
  <2>2. CASE /\ late' \in {late, late \cup {"activate"}} /\ Goes("refused")
             /\ UNCHANGED release
    <3>1. ctl' \in Processes /\ ctl'.now = ctl.now /\ ctl'.pc = "refused"
      BY <1>2, <2>2 DEF Goes, Processes, Pcs
    <3> QED BY <2>2, <3>1 DEF release, IInv, TypeOK
  <2> QED BY <2>1, <2>2 DEF CallActivation
<1>5. TypeOK'
  BY <1>1, <1>4 DEF IInv, TypeOK, Processes
<1>6. SeqOf[Target] \in Nat /\ floor \in Nat
  BY ReleaseAssumption DEF IInv, TypeOK
<1>7. ClusterFollows'
  BY <1>1, <1>4, <1>6 DEF IInv, ClusterFollows
<1>8. Fits(ctl, record)'
  BY <1>1, <1>3, <1>4 DEF Fits
<1> QED BY <1>1, <1>2, <1>4, <1>5, <1>7, <1>8, MoveKeeps

LEMMA CallRestartKeeps == ASSUME IInv, CallRestart PROVE IInv'
<1>1. /\ UNCHANGED <<record, worker, selected, floor, pod, replaced>>
      /\ UNCHANGED <<serving, served, clock, stepsBack, others, faults>>
      /\ ctl.pc = "restart"
  BY DEF CallRestart, At, release, rag, environment
<1>2. record # None /\ ctl \in Processes
  BY <1>1 DEF IInv, RecordFits, At, TypeOK, Processes
<1>3. /\ record.phase = "restarting" /\ record.restarts >= 1
      /\ ctl.now = record.updated
  BY <1>1, <1>2, OpenRecord DEF Fits
<1>4. floor >= SeqOf[Target]
  BY <1>2, <1>3, OpenRecord DEF Coherent, Grounded
<1>5. \/ template' = Restart /\ Goes("patched") /\ UNCHANGED late
      \/ /\ late' \in {late, late \cup {"restart"}} /\ Goes("unpatched")
         /\ UNCHANGED template
  BY DEF CallRestart, RestartOperation
<1>6. /\ ctl' \in Processes /\ ctl'.now = ctl.now
      /\ ctl'.pc \in {"patched", "unpatched"}
      /\ ctl'.pc = "patched" => template' = Restart
  <2>1. CASE Goes("patched")
    BY <1>2, <1>5, <2>1 DEF Goes, Processes, Pcs
  <2>2. CASE Goes("unpatched")
    BY <1>2, <2>2 DEF Goes, Processes, Pcs
  <2> QED BY <1>5, <2>1, <2>2
<1>7. /\ template' \in {Unpatched, Restart} /\ template' \in {template, Restart}
      /\ late' \subseteq {"activate", "restart"}
  BY <1>5 DEF IInv, TypeOK, ClusterFollows
<1>8. TypeOK'
  BY <1>1, <1>6, <1>7 DEF IInv, TypeOK, Processes, Restart
<1>9. ClusterFollows'
  BY <1>1, <1>4, <1>7 DEF IInv, ClusterFollows, Restart, Unpatched
<1>10. Fits(ctl, record)'
  BY <1>1, <1>3, <1>6 DEF Fits
<1>11. floor' >= floor
  BY <1>1 DEF IInv, TypeOK
<1> QED BY <1>1, <1>2, <1>7, <1>8, <1>9, <1>10, <1>11, MoveKeeps

LEMMA RefusedKeeps ==
  ASSUME IInv, ActivationRefused \/ RestartRefused PROVE IInv'
<1>1. UNCHANGED <<release, late, cluster, rag, environment>>
      /\ ctl.pc \in {"refused", "unpatched"}
  BY DEF ActivationRefused, RestartRefused, At
<1>2. record # None
  BY <1>1 DEF IInv, RecordFits, At
<1>3. /\ record \in Record /\ Coherent(record) /\ Budgeted(record)
      /\ Fits(ctl, record) /\ Interruptions \in Nat
      /\ record.updated \in Nat /\ record.activations \in Nat
      /\ record.restarts \in Nat
  BY <1>2, OpenRecord, RecordFields
<1>4. CASE ctl' = Idle /\ UNCHANGED <<record, worker, faults>> /\ RoomForAttempt(record)
  <2>1. /\ UNCHANGED <<selected, floor, late, template, pod, replaced>>
        /\ UNCHANGED <<serving, served, clock, stepsBack, others>>
    BY <1>1 DEF release, cluster, rag, environment
  <2>2. Idle \in Processes /\ Idle.pc = "idle"
    BY DEF Idle, Process, Processes, Pcs
  <2>3. TypeOK' /\ ClusterFollows'
    BY <1>4, <2>1, <2>2 DEF IInv, TypeOK, ClusterFollows, Processes
  <2>4. Fits(ctl, record)'
    BY <1>4, <2>1, <2>2 DEF Fits, RoomForAttempt, Interruptions
  <2>5. floor' >= floor
    BY <2>1 DEF IInv, TypeOK
  <2> QED BY <1>2, <1>4, <2>1, <2>3, <2>4, <2>5, MoveKeeps
<1>5. CASE ActivationRefused
  <2>1. record.phase = "activating" /\ ctl.now = record.updated
    BY <1>3, <1>5 DEF ActivationRefused, At, Fits
  <2>2. CASE record.activations >= MaxActivations
    <3>1. Persist(Ended(record, "ACTIVATION_ATTEMPTS_EXHAUSTED", ctl.now), Idle,
                  ctl.by)
      BY <1>5, <2>2 DEF ActivationRefused
    <3> QED BY <1>1, <1>2, <1>3, <2>1, <3>1, EndedIsGood, SaveKeeps
  <2>3. CASE ~(record.activations >= MaxActivations)
    <3>1. RoomForAttempt(record)
      BY <1>3, <2>1, <2>3, LimitAssumption DEF RoomForAttempt
    <3>2. ctl' = Idle /\ UNCHANGED <<record, worker, faults>>
      BY <1>5, <2>3 DEF ActivationRefused
    <3> QED BY <1>4, <3>1, <3>2
  <2> QED BY <2>2, <2>3
<1>6. CASE RestartRefused
  <2>1. record.phase = "restarting" /\ ctl.now = record.updated
    BY <1>3, <1>6 DEF RestartRefused, At, Fits
  <2>2. CASE record.restarts >= MaxRestarts
    <3>1. Persist(Ended(record, "RESTART_ATTEMPTS_EXHAUSTED", ctl.now), Idle,
                  ctl.by)
      BY <1>6, <2>2 DEF RestartRefused
    <3>2. record.receipt
      BY <1>3, <2>1, RecordFields DEF Coherent
    <3> QED BY <1>1, <1>2, <1>3, <2>1, <3>1, <3>2, EndedIsGood, SaveKeeps
  <2>3. CASE ~(record.restarts >= MaxRestarts)
    <3>1. RoomForAttempt(record)
      BY <1>3, <2>1, <2>3, LimitAssumption DEF RoomForAttempt
    <3>2. ctl' = Idle /\ UNCHANGED <<record, worker, faults>>
      BY <1>6, <2>3 DEF RestartRefused
    <3> QED BY <1>4, <3>1, <3>2
  <2> QED BY <2>2, <2>3
<1> QED BY <1>5, <1>6

LEMMA ObservingKeeps ==
  ASSUME IInv, ReadStatus \/ \E by \in Caller : BeginObserving(by)
  PROVE  IInv'
<1>1. /\ UNCHANGED <<record, worker, selected, floor, late, template, pod, replaced>>
      /\ UNCHANGED <<serving, served, clock, stepsBack, others, faults>>
  BY DEF ReadStatus, BeginObserving, release, cluster, rag, environment
<1>2. record # None
  BY DEF ReadStatus, BeginObserving, InTime, MayAdvance, At, IInv, RecordFits
<1>3. /\ record \in Record /\ Fits(ctl, record) /\ ctl \in Processes
      /\ Budgeted(record) /\ clock \in Nat
      /\ record.updated \in Nat
  BY <1>2, OpenRecord, RecordFields
<1>4. record.phase = "observing"
  BY <1>3 DEF ReadStatus, BeginObserving, InTime, At, Fits
<1>5. ctl' \in Processes /\ Fits(ctl, record)'
  <2>1. CASE \E by \in Caller : BeginObserving(by)
    <3>1. PICK by \in Caller :
            ctl' = Process("observe", clock, by) /\ clock >= record.updated
      BY <1>3, <2>1 DEF BeginObserving, InTime, ClockMovedBack
    <3>2. ctl' \in Processes /\ ctl'.pc = "observe" /\ ctl'.now >= record.updated
      BY <1>3, <3>1 DEF Process, Processes, Pcs
    <3> QED BY <1>1, <1>4, <3>2 DEF Fits
  <2>2. CASE ReadStatus /\ ctl' = Idle
    <3>1. ctl' \in Processes /\ ctl'.pc = "idle"
      BY <2>2 DEF Idle, Process, Processes, Pcs
    <3> QED BY <1>1, <1>4, <3>1 DEF Fits, RoomForAttempt
  <2>3. CASE /\ ReadStatus /\ serving # None
             /\ ctl' = [ctl EXCEPT !.pc = "observed", !.seen = serving]
    <3>1. serving \in Selection /\ (serving = Production(Target) => served)
      BY <2>3 DEF IInv, TypeOK, ClusterFollows
    <3>2. /\ ctl' \in Processes /\ ctl'.pc = "observed" /\ ctl'.seen = serving
          /\ ctl'.now = ctl.now
      BY <1>3, <2>3, <3>1 DEF Processes, Pcs
    <3>3. ctl.now >= record.updated
      BY <1>3, <2>3 DEF ReadStatus, At, Fits
    <3> QED BY <1>1, <1>4, <3>1, <3>2, <3>3 DEF Fits
  <2> QED BY <2>1, <2>2, <2>3 DEF ReadStatus
<1>6. TypeOK' /\ ClusterFollows'
  BY <1>1, <1>5 DEF IInv, TypeOK, ClusterFollows, Processes
<1>7. floor' >= floor
  BY <1>1 DEF IInv, TypeOK
<1> QED BY <1>1, <1>2, <1>5, <1>6, <1>7, MoveKeeps

-----------------------------------------------------------------------------
(* Steps of everything else *)

LEMMA LateActivationKeeps == ASSUME IInv, LateActivation PROVE IInv'
<1>1. /\ UNCHANGED <<record, ctl, worker, template, pod, replaced>>
      /\ UNCHANGED <<serving, served, clock, stepsBack, others, faults>>
      /\ late' = late \ {"activate"}
  BY DEF LateActivation, cluster, rag, environment
<1>2. /\ selected' \in Selection \cup {None} /\ floor' \in Nat /\ floor' >= floor
      /\ floor \in Nat /\ SeqOf[Target] \in Nat
  BY OperatorRaisesFloor, ReleaseAssumption DEF LateActivation, IInv, TypeOK
<1>3. TypeOK'
  BY <1>1, <1>2 DEF IInv, TypeOK
<1>4. ClusterFollows'
  BY <1>1, <1>2 DEF IInv, ClusterFollows
<1> QED BY <1>1, <1>2, <1>3, <1>4, ElsewhereKeeps

LEMMA LateRestartKeeps == ASSUME IInv, LateRestart PROVE IInv'
<1>1. /\ UNCHANGED <<record, ctl, worker, selected, floor, pod, replaced>>
      /\ UNCHANGED <<serving, served, clock, stepsBack, others, faults>>
      /\ "restart" \in late /\ late' = late \ {"restart"} /\ template' = Restart
  BY DEF LateRestart, RestartOperation, release, rag, environment
<1>2. TypeOK'
  BY <1>1 DEF IInv, TypeOK, Restart
<1>3. ClusterFollows'
  BY <1>1 DEF IInv, ClusterFollows, Restart, Unpatched
<1>4. floor \in Nat
  BY DEF IInv, TypeOK
<1> QED BY <1>1, <1>2, <1>3, <1>4, ElsewhereKeeps

LEMMA ReplacePodKeeps == ASSUME IInv, ReplacePod PROVE IInv'
<1>1. /\ UNCHANGED <<record, worker, selected, floor, template>>
      /\ UNCHANGED <<served, clock, stepsBack, others, faults>>
      /\ pod # template /\ pod' = template /\ replaced' = replaced + 1
      /\ serving' = None /\ ctl' = Down /\ late' = late \ {"activate"}
  BY DEF ReplacePod, release, environment
<1>2. pod = Unpatched /\ template = Restart /\ replaced = 0
  BY <1>1 DEF IInv, ClusterFollows, Unpatched
<1>3. Down \in Processes
  BY DEF Down, Process, Processes, Pcs
<1>4. TypeOK'
  BY <1>1, <1>3 DEF IInv, TypeOK, Processes
<1>5. ClusterFollows'
  BY <1>1, <1>2 DEF IInv, ClusterFollows, Restart, Unpatched
<1>6. Interruptions' = Interruptions + 1
  BY <1>1 DEF IInv, TypeOK, Interruptions
<1> QED BY <1>1, <1>4, <1>5, <1>6, InterruptionKeeps

\* The RAG service starts or stops.
LEMMA RagKeeps == ASSUME IInv, RagStarts \/ RagStops PROVE IInv'
<1>1. /\ UNCHANGED <<record, ctl, worker, selected, floor, late, template, pod>>
      /\ UNCHANGED <<replaced, clock, stepsBack, others, faults>>
  BY DEF RagStarts, RagStops, release, cluster, environment
<1>2. \/ selected # None /\ serving' = selected
         /\ served' = (served \/ selected = Production(Target))
      \/ serving' = None /\ served' = served
  BY DEF RagStarts, RagStops
<1>3. /\ serving' \in Selection \cup {None} /\ served' \in BOOLEAN
      /\ served => served'
  BY <1>2 DEF IInv, TypeOK
<1>4. TypeOK'
  BY <1>1, <1>3 DEF IInv, TypeOK
<1>5. serving' # None /\ serving' = Production(Target) => served'
  BY <1>2
<1>6. ClusterFollows'
  BY <1>1, <1>5 DEF IInv, ClusterFollows, Production
<1>7. floor \in Nat
  BY DEF IInv, TypeOK
<1> QED BY <1>1, <1>3, <1>4, <1>6, <1>7, ElsewhereKeeps

LEMMA ControllerCrashesKeeps == ASSUME IInv, ControllerCrashes PROVE IInv'
<1>1. /\ UNCHANGED <<record, worker, selected, floor, late, template, pod>>
      /\ UNCHANGED <<replaced, serving, served, clock, stepsBack, others>>
      /\ ctl' = Down /\ faults' = faults + 1 /\ faults' <= MaxFaults
  BY BoundAssumption
  DEF ControllerCrashes, release, cluster, rag, environment, IInv, TypeOK
<1>2. Down \in Processes
  BY DEF Down, Process, Processes, Pcs
<1>3. TypeOK' /\ ClusterFollows'
  BY <1>1, <1>2 DEF IInv, TypeOK, Processes, ClusterFollows
<1>4. Interruptions' = Interruptions + 1
  BY <1>1 DEF IInv, TypeOK, Interruptions
<1> QED BY <1>1, <1>3, <1>4, InterruptionKeeps

LEMMA OtherOperationKeeps == ASSUME IInv, OtherOperation PROVE IInv'
<1>1. /\ UNCHANGED <<record, ctl, worker, late, template, pod, replaced>>
      /\ UNCHANGED <<serving, served, clock, stepsBack, faults>>
      /\ others' = others + 1
  BY DEF OtherOperation, cluster, rag
<1>2. PICK r \in Release :
        \/ SeqOf[r] > floor /\ selected' = Production(r) /\ floor' = SeqOf[r]
        \/ /\ selected' = [rel |-> r, mode |-> "recovery"]
           /\ floor' = IF SeqOf[r] > floor THEN SeqOf[r] ELSE floor
  BY DEF OtherOperation
<1>3. SeqOf[r] \in Nat /\ floor \in Nat /\ SeqOf[Target] \in Nat
  BY ReleaseAssumption DEF IInv, TypeOK
<1>4. selected' \in Selection /\ floor' \in Nat /\ floor' >= floor
  BY <1>2, <1>3 DEF Production, Selection
<1>5. TypeOK'
  BY <1>1, <1>4 DEF IInv, TypeOK
<1>6. ClusterFollows'
  BY <1>1, <1>3, <1>4 DEF IInv, ClusterFollows
<1> QED BY <1>1, <1>3, <1>4, <1>5, <1>6, ElsewhereKeeps

LEMMA ClockKeeps == ASSUME IInv, Tick \/ ClockStepsBack PROVE IInv'
<1>1. /\ UNCHANGED <<record, ctl, worker, selected, floor, late, template, pod>>
      /\ UNCHANGED <<replaced, serving, served, others, faults>>
  BY DEF Tick, ClockStepsBack, release, cluster, rag
<1>2. clock' \in Nat /\ stepsBack' \in Nat
  BY DEF Tick, ClockStepsBack, IInv, TypeOK
<1>3. TypeOK' /\ ClusterFollows'
  BY <1>1, <1>2 DEF IInv, TypeOK, ClusterFollows
<1>4. floor \in Nat
  BY DEF IInv, TypeOK
<1> QED BY <1>1, <1>3, <1>4, ElsewhereKeeps

-----------------------------------------------------------------------------
(* The invariant *)

LEMMA InitHolds == ASSUME Init PROVE IInv
<1>1. record = None /\ ctl = Down /\ worker = "running"
      /\ late = {} /\ template = Unpatched /\ pod = Unpatched
      /\ serving = selected /\ clock = 0 /\ faults = 0 /\ stepsBack = 0
      /\ others = 0 /\ replaced = 0 /\ served = (selected = Production(Target))
  BY DEF Init
<1>2. selected \in Selection \cup {None} /\ floor \in Nat
  BY ReleaseAssumption DEF Init, Production, Selection
<1>3. Down \in Processes /\ Down.pc = "down"
  BY DEF Down, Process, Processes, Pcs
<1>4. served \in BOOLEAN
  BY <1>1
<1>5. TypeOK
  BY <1>1, <1>2, <1>3, <1>4 DEF TypeOK, Processes, Unpatched
<1>6. serving = Production(Target) => served
  BY <1>1
<1>7. ClusterFollows
  BY <1>1, <1>6, BoundAssumption DEF ClusterFollows, Unpatched, Restart
<1>8. RecordFits
  BY <1>1, <1>3 DEF RecordFits, At
<1> QED BY <1>5, <1>7, <1>8 DEF IInv

LEMMA NextKeeps == ASSUME IInv, Next PROVE IInv'
<1>1. CASE ControllerStarts
  BY <1>1, ControllerStartsKeeps
<1>2. CASE \E by \in Caller : Advance(by)
  BY <1>2, ClockErrorKeeps, ExpireKeeps, IntendActivationKeeps,
     IntendRestartKeeps, ObservingKeeps DEF Advance
<1>3. CASE Continue
  BY <1>3, CallActivationKeeps, AcceptActivationKeeps, RefusedKeeps, CallRestartKeeps,
     AcknowledgeRestartKeeps, ObservingKeeps, ReconcileKeeps DEF Continue
<1>4. CASE \/ LateActivation \/ LateRestart \/ ReplacePod \/ RagStarts \/ RagStops
           \/ ControllerCrashes \/ OtherOperation \/ Tick \/ ClockStepsBack
  BY <1>4, LateActivationKeeps, LateRestartKeeps, ReplacePodKeeps, RagKeeps,
     ControllerCrashesKeeps, OtherOperationKeeps, ClockKeeps
<1> QED BY <1>1, <1>2, <1>3, <1>4 DEF Next

LEMMA StutterKeeps == ASSUME IInv, UNCHANGED vars PROVE IInv'
<1>1. /\ UNCHANGED <<record, ctl, worker, selected, floor, late, template, pod>>
      /\ UNCHANGED <<replaced, serving, served, clock, stepsBack, others, faults>>
  BY DEF vars, release, cluster, rag, environment
<1>2. TypeOK' /\ ClusterFollows'
  BY <1>1 DEF IInv, TypeOK, ClusterFollows
<1>3. floor \in Nat
  BY DEF IInv, TypeOK
<1> QED BY <1>1, <1>2, <1>3, ElsewhereKeeps

-----------------------------------------------------------------------------
(* Theorems *)

\* Every reachable state of a rollout satisfies the inductive invariant.
THEOREM InvariantHolds == Spec => []IInv
<1>1. Init => IInv
  BY InitHolds
<1>2. IInv /\ [Next]_vars => IInv'
  BY NextKeeps, StutterKeeps
<1> QED BY <1>1, <1>2, PTL DEF Spec

\* Every variable keeps a value of its kind.
THEOREM TypeCorrect == Spec => []TypeOK
<1>1. IInv => TypeOK
  BY DEF IInv
<1> QED BY <1>1, InvariantHolds, PTL

\* What advance() saves, whole or interrupted, load() accepts after a restart,
\* provided the attempt fields have room for every interruption that occurs: one
\* for each crash or storage error and one for the pod replacement.
THEOREM RecordLoads ==
  ASSUME MaxActivations + MaxFaults + 1 <= AttemptCap,
         MaxRestarts + MaxFaults + 1 <= AttemptCap
  PROVE  Spec => []RecordCoherent
<1>1. IInv => RecordCoherent
  <2> SUFFICES ASSUME IInv, record # None
               PROVE  /\ Coherent(record)
                      /\ record.activations <= AttemptCap
                      /\ record.restarts <= AttemptCap
    BY DEF RecordCoherent, Loadable
  <2>1. /\ Coherent(record) /\ Budgeted(record)
        /\ record.activations \in Nat /\ record.restarts \in Nat
    BY OpenRecord, RecordFields
  <2>2. faults \in Nat /\ replaced \in {0, 1} /\ faults <= MaxFaults
    BY DEF IInv, TypeOK, ClusterFollows, Unpatched, Restart
  <2>3. /\ MaxActivations \in Nat /\ MaxRestarts \in Nat /\ MaxFaults \in Nat
        /\ AttemptCap \in Nat
    BY LimitAssumption, BoundAssumption
  <2> QED BY <2>1, <2>2, <2>3 DEF Budgeted, Interruptions
<1> QED BY <1>1, InvariantHolds, PTL

\* Retried and late restart requests replace the pod at most once.
THEOREM OnePodReplacement == Spec => []PodReplacedOnce
<1>1. IInv => PodReplacedOnce
  BY DEF IInv, ClusterFollows, PodReplacedOnce, Restart, Unpatched
<1> QED BY <1>1, InvariantHolds, PTL

\* A verified rollout was cut over: its restart was accepted and the RAG
\* service served the target in production.
THEOREM VerdictEarned == Spec => []VerifiedIsEarned
<1>1. IInv => VerifiedIsEarned
  <2> SUFFICES ASSUME IInv, record # None, record.phase = "verified"
               PROVE  template = Restart /\ served
    BY DEF VerifiedIsEarned
  <2>1. Coherent(record) /\ Grounded(record)
    BY OpenRecord
  <2> QED BY <2>1 DEF Coherent, Grounded
<1> QED BY <1>1, InvariantHolds, PTL

\* When Kubernetes holds the restart, the activation it is for is durable.
THEOREM RestartAfterActivation == Spec => []RestartFollowsActivation
<1>1. IInv => RestartFollowsActivation
  BY DEF IInv, ClusterFollows, RestartFollowsActivation, Restart, Unpatched
<1> QED BY <1>1, InvariantHolds, PTL

\* Attempts beyond the configured limits are owed to interruptions, one each.
THEOREM BudgetHolds == Spec => []AttemptsBudgeted
<1>1. IInv => AttemptsBudgeted
  <2> SUFFICES ASSUME IInv, record # None
               PROVE  /\ record.activations <= MaxActivations + faults + replaced
                      /\ record.restarts <= MaxRestarts + faults + replaced
                      /\ record.polls <= MaxPolls
    BY DEF AttemptsBudgeted
  <2>1. Budgeted(record) /\ faults \in Nat /\ replaced \in Nat
        /\ MaxActivations \in Nat /\ MaxRestarts \in Nat
    BY OpenRecord, LimitAssumption DEF IInv, TypeOK
  <2> QED BY <2>1 DEF Budgeted, Interruptions
<1> QED BY <1>1, InvariantHolds, PTL
=============================================================================

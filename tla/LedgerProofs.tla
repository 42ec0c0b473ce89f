---------------------------- MODULE LedgerProofs ----------------------------
(***************************************************************************)
(* Proofs about what rests on the audit ledger of the corpus factory, for  *)
(* any controllers on one state root, sources, payloads, requesters,       *)
(* crashes and power losses: every digest in the state file is backed by   *)
(* its evidence, its outcome and the audited events that led to it; the    *)
(* audit trail tells the changes there were; and the external anchors      *)
(* decide whether the ledger still is what was anchored.                   *)
(*                                                                         *)
(* The state file is one of several records, and each controller carries a *)
(* copy of it while it works.  So the invariant speaks of the copies too,  *)
(* and of what a source under way has already left behind at each step.    *)
(***************************************************************************)
EXTENDS Acquisition, AuditAnchor, TLAPS

Digest == Content \cup {None}
Memory == [Source -> Digest]
Entry == [type : {"planned", "failed", "completed", "changed", "unchanged"},
          source : Nat, at : Nat, prev : Digest, got : Digest]
OutcomeType == [source : Nat, at : Nat, prev : Digest, got : Digest]
Run == [pc : {"idle", "plan", "fetch", "outcome", "record", "change", "write"},
        at : Nat, todo : SUBSET Source, src : Nat, got : Digest, prev : Digest,
        memory : Memory]

\* The events of a source so far: planned, and then completed.
Planned(s) == \E i \in 1..Len(ledger) : ledger[i].type = "planned" /\ ledger[i].source = s
Completed(s, g) ==
  \E i, j \in 1..Len(ledger) :
     /\ i < j
     /\ ledger[i].type = "planned" /\ ledger[i].source = s
     /\ ledger[j].type = "completed" /\ ledger[j].source = s /\ ledger[j].got = g

Vaulted(g) == g \in evidence \cup lost
Recorded(s, g) == \E outcome \in outcomes : outcome.source = s /\ outcome.got = g
Backed(s, g) == Vaulted(g) /\ Recorded(s, g) /\ (restores = 0 => Told(s, g))
MemoryBacked(memory) == \A s \in Source : memory[s] # None => Backed(s, memory[s])

\* What the source under way has left behind when its cycle is at pc.
Left(pc, s, g) ==
  /\ pc \in {"fetch", "outcome", "record", "change"} =>
        s \in Source /\ (restores = 0 => Planned(s))
  /\ pc \in {"outcome", "record", "change"} /\ g # None => Vaulted(g)
  /\ pc \in {"record", "change"} => Recorded(s, g)
  /\ pc = "change" => g # None /\ (restores = 0 => Completed(s, g))

TypeInv ==
  /\ clock \in Nat /\ restores \in Nat
  /\ ledger \in Seq(Entry)
  /\ site \in [Source -> Content]
  /\ state \in Memory
  /\ outcomes \subseteq OutcomeType
  /\ run \in [Controller -> Run]

BackInv ==
  /\ MemoryBacked(state)
  /\ \A c \in Controller : MemoryBacked(run[c].memory)
  /\ \A c \in Controller : Left(run[c].pc, run[c].src, run[c].got)

\* The source under way is compared with the memory its cycle began with.
PrevInv ==
  \A c \in Controller : run[c].pc \in {"fetch", "outcome", "record", "change"} =>
      run[c].prev = run[c].memory[run[c].src]

------------------------------------------------------------------------------
(* Nothing that was left behind is taken away, but for the ledger by a restore. *)

Lasting ==
  /\ evidence \cup lost \subseteq evidence' \cup lost'
  /\ outcomes \subseteq outcomes'
  /\ restores' = 0 =>
       /\ restores = 0
       /\ \A s \in Source : Planned(s) => Planned(s)'
       /\ \A s \in Source, g \in Content : Completed(s, g) => Completed(s, g)'
       /\ \A s \in Source, g \in Content : Told(s, g) => Told(s, g)'

LEMMA BackedLasts ==
  ASSUME Lasting
  PROVE  /\ \A g \in Digest : Vaulted(g) => Vaulted(g)'
         /\ \A s \in Source, g \in Digest : Recorded(s, g) => Recorded(s, g)'
         /\ \A s \in Source, g \in Content : Backed(s, g) => Backed(s, g)'
<1>1. \A g \in Digest : Vaulted(g) => Vaulted(g)'
  BY DEF Lasting, Vaulted
<1>2. \A s \in Source, g \in Digest : Recorded(s, g) => Recorded(s, g)'
  BY DEF Lasting, Recorded
<1>3. \A g \in Content : g \in Digest
  BY DEF Digest
<1>4. \A s \in Source, g \in Content : Told(s, g) => (restores' = 0 => Told(s, g)')
  BY DEF Lasting
<1>5. restores' = 0 => restores = 0
  BY DEF Lasting
<1>. QED BY <1>1, <1>2, <1>3, <1>4, <1>5 DEF Backed

LEMMA MemoryLasts ==
  ASSUME Lasting, NEW memory \in Memory, MemoryBacked(memory)
  PROVE  \A s \in Source : memory[s] # None => Backed(s, memory[s])'
<1>1. \A s \in Source : memory[s] # None => memory[s] \in Content
  BY DEF Memory, Digest
<1>. QED BY <1>1, BackedLasts DEF MemoryBacked

LEMMA LeftLasts ==
  ASSUME Lasting, NEW r \in Run, Left(r.pc, r.src, r.got)
  PROVE  Left(r.pc, r.src, r.got)'
<1>1. r.got \in Digest /\ (r.got # None => r.got \in Content)
  BY DEF Run, Digest
<1>2. restores' = 0 => restores = 0
  BY DEF Lasting
<1>3. r.src \in Source /\ (restores = 0 => Planned(r.src)) => (restores' = 0 => Planned(r.src)')
  BY DEF Lasting
<1>4. /\ r.src \in Source /\ r.got # None
      /\ (restores = 0 => Completed(r.src, r.got))
      => (restores' = 0 => Completed(r.src, r.got)')
  BY <1>1 DEF Lasting
<1>5. r.pc \in {"outcome", "record", "change"} /\ r.got # None => Vaulted(r.got)'
  BY <1>1, BackedLasts DEF Left
<1>6. r.pc \in {"record", "change"} => Recorded(r.src, r.got)'
  BY <1>1, BackedLasts DEF Left
<1>7. r.pc \in {"fetch", "outcome", "record", "change"} =>
        r.src \in Source /\ (restores' = 0 => Planned(r.src)')
  BY <1>3 DEF Left
<1>8. r.pc = "change" => r.got # None /\ (restores' = 0 => Completed(r.src, r.got)')
  BY <1>4 DEF Left
<1>. QED BY <1>5, <1>6, <1>7, <1>8 DEF Left

\* One controller moves, perhaps writing the state file, and the rest stays.
LEMMA OneMoves ==
  ASSUME TypeInv, BackInv, Lasting, NEW c \in Controller, NEW next \in Run,
         run' = [run EXCEPT ![c] = next],
         \A s \in Source : next.memory[s] # None => Backed(s, next.memory[s])',
         Left(next.pc, next.src, next.got)',
         state' \in {state, run[c].memory}
  PROVE  BackInv'
<1>1. run \in [Controller -> Run] /\ state \in Memory
  BY DEF TypeInv
<1>2. MemoryBacked(state)'
  <2>1. PICK memory \in Memory : state' = memory /\ MemoryBacked(memory)
    BY <1>1 DEF BackInv, Run
  <2>2. \A s \in Source : memory[s] # None => Backed(s, memory[s])'
    BY <2>1, MemoryLasts
  <2>. QED BY <2>1, <2>2 DEF MemoryBacked
<1>3. ASSUME NEW d \in Controller
      PROVE  MemoryBacked(run[d].memory)' /\ Left(run[d].pc, run[d].src, run[d].got)'
  <2>1. CASE d = c
    <3>1. run'[d] = next
      BY <1>1, <2>1
    <3>. QED BY <3>1 DEF MemoryBacked
  <2>2. CASE d # c
    <3>1. PICK r \in Run : r = run[d]
      BY <1>1
    <3>2. run'[d] = r
      BY <1>1, <2>2, <3>1
    <3>3. r.memory \in Memory /\ MemoryBacked(r.memory) /\ Left(r.pc, r.src, r.got)
      BY <3>1 DEF BackInv, Run
    <3>4. \A s \in Source : r.memory[s] # None => Backed(s, r.memory[s])'
      BY <3>3, MemoryLasts
    <3>5. Left(r.pc, r.src, r.got)'
      BY <3>3, LeftLasts
    <3>. QED BY <3>2, <3>4, <3>5 DEF MemoryBacked
  <2>. QED BY <2>1, <2>2
<1>. QED BY <1>2, <1>3 DEF BackInv

\* An append keeps what the ledger told, and tells one thing more.
LEMMA AppendTells ==
  ASSUME ledger \in Seq(Entry), NEW e \in Entry, AppendEvent(e)
  PROVE  /\ ledger' \in Seq(Entry)
         /\ \A s \in Source : Planned(s) => Planned(s)'
         /\ \A s \in Source, g \in Content : Completed(s, g) => Completed(s, g)'
         /\ \A s \in Source, g \in Content : Told(s, g) => Told(s, g)'
         /\ e.type = "planned" => Planned(e.source)'
         /\ e.type = "completed" /\ Planned(e.source) => Completed(e.source, e.got)'
         /\ e.type = "changed" /\ Completed(e.source, e.got) => Told(e.source, e.got)'
<1>1. ledger' = Append(ledger, e)
  BY DEF AppendEvent
<1>2. /\ ledger' \in Seq(Entry) /\ Len(ledger) \in Nat /\ Len(ledger') = Len(ledger) + 1
      /\ ledger'[Len(ledger) + 1] = e
      /\ \A i \in 1..Len(ledger) : ledger'[i] = ledger[i]
  BY <1>1
<1>3. /\ Len(ledger) + 1 \in 1..Len(ledger')
      /\ \A i \in 1..Len(ledger) : i \in 1..Len(ledger') /\ i < Len(ledger) + 1
  BY <1>2
<1>. HIDE <1>1
<1>4. \A s \in Source : Planned(s) => Planned(s)'
  BY <1>2, <1>3 DEF Planned
<1>5. \A s \in Source, g \in Content : Completed(s, g) => Completed(s, g)'
  BY <1>2, <1>3 DEF Completed
<1>6. \A s \in Source, g \in Content : Told(s, g) => Told(s, g)'
  BY <1>2, <1>3 DEF Told
<1>7. e.type = "planned" => Planned(e.source)'
  BY <1>2, <1>3 DEF Planned
<1>8. e.type = "completed" /\ Planned(e.source) => Completed(e.source, e.got)'
  BY <1>2, <1>3 DEF Planned, Completed
<1>9. e.type = "changed" /\ Completed(e.source, e.got) => Told(e.source, e.got)'
  BY <1>2, <1>3 DEF Completed, Told
<1>. QED BY <1>2, <1>4, <1>5, <1>6, <1>7, <1>8, <1>9

LEMMA AppendLasts ==
  ASSUME ledger \in Seq(Entry), NEW e \in Entry, AppendEvent(e),
         UNCHANGED <<evidence, lost, outcomes>>
  PROVE  Lasting
<1>1. restores' = restores
  BY DEF AppendEvent
<1>. QED BY <1>1, AppendTells DEF Lasting

LEMMA QuietLasts ==
  ASSUME UNCHANGED <<ledger, restores>>,
         evidence \cup lost \subseteq evidence' \cup lost', outcomes \subseteq outcomes'
  PROVE  Lasting
BY DEF Lasting, Planned, Completed, Told

------------------------------------------------------------------------------
(* The steps of a controller.  Each says what it makes of the controller's record,
   and what the durable state has when it does. *)

\* A process that ends, or has not begun, holds nothing.
LEMMA IdleHolds ==
  /\ Idle \in Run
  /\ \A s \in Source : Idle.memory[s] = None
  /\ Left(Idle.pc, Idle.src, Idle.got)'
BY DEF Idle, Run, Memory, Digest, Left

LEMMA EndsBacked ==
  ASSUME TypeInv, BackInv, Lasting, NEW c \in Controller,
         run' = [run EXCEPT ![c] = Idle], state' \in {state, run[c].memory}
  PROVE  BackInv' /\ run' \in [Controller -> Run]
<1>1. \A s \in Source : Idle.memory[s] # None => Backed(s, Idle.memory[s])'
  BY IdleHolds
<1>. QED BY <1>1, IdleHolds, OneMoves DEF TypeInv

\* The step of a source keeps the memory of the cycle, and is at its own place.
LEMMA SourceMoves ==
  ASSUME TypeInv, BackInv, Lasting, NEW c \in Controller, NEW next \in Run,
         run' = [run EXCEPT ![c] = next], state' = state,
         next.memory = run[c].memory, Left(next.pc, next.src, next.got)'
  PROVE  BackInv' /\ run' \in [Controller -> Run]
<1>1. run[c].memory \in Memory /\ MemoryBacked(run[c].memory)
  BY DEF TypeInv, BackInv, Run
<1>2. PICK memory \in Memory : memory = next.memory /\ MemoryBacked(memory)
  BY <1>1
<1>3. \A s \in Source : memory[s] # None => Backed(s, memory[s])'
  BY <1>2, MemoryLasts
<1>. QED BY <1>2, <1>3, OneMoves DEF TypeInv

LEMMA StartBacked ==
  ASSUME TypeInv, BackInv, NEW c \in Controller, NEW selected \in SUBSET Source,
         Start(c, selected)
  PROVE  TypeInv' /\ BackInv'
<1>1. Idle \in Run /\ clock \in Nat /\ state \in Memory
  BY IdleHolds DEF TypeInv
<1>2. PICK next \in Run :
        next = [Idle EXCEPT !.pc = "plan", !.at = clock, !.todo = selected, !.memory = state]
  BY <1>1 DEF Run
<1>3. run' = [run EXCEPT ![c] = next] /\ UNCHANGED <<ledgerVars, diskVars, envVars>>
  BY <1>2 DEF Start
<1>4. Lasting
  BY <1>3, QuietLasts DEF ledgerVars, diskVars
<1>5. \A s \in Source : next.memory[s] # None => Backed(s, next.memory[s])'
  <2>1. PICK memory \in Memory : memory = state /\ MemoryBacked(memory)
    BY DEF TypeInv, BackInv
  <2>2. next.memory = memory
    BY <1>1, <1>2, <2>1 DEF Run
  <2>. QED BY <1>4, <2>1, <2>2, MemoryLasts
<1>6. next.pc = "plan"
  BY <1>1, <1>2 DEF Run
<1>7. Left(next.pc, next.src, next.got)'
  BY <1>6 DEF Left
<1>8. BackInv'
  BY <1>3, <1>4, <1>5, <1>7, OneMoves DEF diskVars
<1>9. run' \in [Controller -> Run]
  BY <1>3 DEF TypeInv
<1>. QED BY <1>3, <1>8, <1>9 DEF TypeInv, ledgerVars, diskVars, envVars

LEMMA PlanBacked ==
  ASSUME TypeInv, BackInv, NEW c \in Controller, Plan(c)
  PROVE  TypeInv' /\ BackInv'
<1>0. run[c] \in Run /\ run[c].at \in Nat /\ run[c].todo \subseteq Source
  BY DEF TypeInv, Run
<1>1. PICK s \in run[c].todo :
        /\ AppendEvent(Event("planned", s, run[c].at, None, None))
        /\ run' = [run EXCEPT ![c] = [@ EXCEPT !.pc = "fetch", !.src = s,
                                        !.todo = run[c].todo \ {s}, !.prev = run[c].memory[s]]]
  BY DEF Plan
<1>2. s \in Source /\ s \in Nat
  BY <1>0, SourceAssumption
<1>3. PICK e \in Entry : e = Event("planned", s, run[c].at, None, None)
  BY <1>0, <1>2 DEF Event, Entry, Digest
<1>4. PICK next \in Run :
        next = [run[c] EXCEPT !.pc = "fetch", !.src = s, !.todo = run[c].todo \ {s},
                              !.prev = run[c].memory[s]]
  BY <1>0, <1>2 DEF Run, Memory
<1>5. run' = [run EXCEPT ![c] = next]
  BY <1>1, <1>4 DEF TypeInv
<1>6. UNCHANGED <<diskVars, envVars>>
  BY DEF Plan
<1>7. AppendEvent(e) /\ e.type = "planned" /\ e.source = s
  BY <1>1, <1>3 DEF Event
<1>8. Lasting /\ ledger' \in Seq(Entry) /\ Planned(s)'
  BY <1>6, <1>7, AppendLasts, AppendTells DEF TypeInv, diskVars
<1>9. next.pc = "fetch" /\ next.src = s /\ next.memory = run[c].memory
  BY <1>0, <1>4 DEF Run
<1>10. Left(next.pc, next.src, next.got)'
  BY <1>2, <1>8, <1>9 DEF Left
<1>11. BackInv' /\ run' \in [Controller -> Run]
  BY <1>5, <1>6, <1>8, <1>9, <1>10, SourceMoves DEF diskVars
<1>. QED BY <1>6, <1>7, <1>8, <1>11 DEF TypeInv, AppendEvent, diskVars, envVars

LEMMA FetchBacked ==
  ASSUME TypeInv, BackInv, NEW c \in Controller, Fetch(c) \/ FetchFails(c)
  PROVE  TypeInv' /\ BackInv'
<1>0. run[c] \in Run /\ Left(run[c].pc, run[c].src, run[c].got) /\ run[c].pc = "fetch"
  BY DEF TypeInv, BackInv, Fetch, FetchFails
<1>1. PICK s \in Source : s = run[c].src /\ (restores = 0 => Planned(s))
  BY <1>0 DEF Left
<1>2. PICK g \in Digest :
        /\ run' = [run EXCEPT ![c] = [@ EXCEPT !.pc = "outcome", !.got = g]]
        /\ g # None => g \in evidence'
        /\ evidence \subseteq evidence'
  <2>1. CASE Fetch(c)
    <3>1. site[s] \in Digest
      BY DEF TypeInv, Digest
    <3>. QED BY <1>1, <2>1, <3>1 DEF Fetch
  <2>2. CASE FetchFails(c)
    BY <2>2 DEF FetchFails, Digest, diskVars
  <2>. QED BY <2>1, <2>2
<1>3. PICK next \in Run :
        next = [run[c] EXCEPT !.pc = "outcome", !.got = g]
  BY <1>0 DEF Run
<1>4. run' = [run EXCEPT ![c] = next]
  BY <1>2, <1>3 DEF TypeInv
<1>5. UNCHANGED <<ledgerVars, outcomes, state, lost, envVars>>
  BY DEF Fetch, FetchFails, diskVars
<1>6. Lasting
  BY <1>2, <1>5, QuietLasts DEF ledgerVars
<1>7. restores' = 0 => Planned(s)'
  BY <1>1, <1>6 DEF Lasting
<1>8. next.pc = "outcome" /\ next.src = s /\ next.got = g /\ next.memory = run[c].memory
  BY <1>0, <1>1, <1>3 DEF Run
<1>9. Left(next.pc, next.src, next.got)'
  BY <1>2, <1>7, <1>8 DEF Left, Vaulted
<1>10. BackInv' /\ run' \in [Controller -> Run]
  BY <1>4, <1>5, <1>6, <1>8, <1>9, SourceMoves
<1>. QED BY <1>5, <1>10 DEF TypeInv, ledgerVars, envVars

LEMMA OutcomeBacked ==
  ASSUME TypeInv, BackInv, NEW c \in Controller, StoreOutcome(c)
  PROVE  TypeInv' /\ BackInv'
<1>0. run[c] \in Run /\ Left(run[c].pc, run[c].src, run[c].got) /\ run[c].pc = "outcome"
  BY DEF TypeInv, BackInv, StoreOutcome
<1>1. PICK s \in Source : s = run[c].src
  BY <1>0 DEF Left
<1>2. PICK g \in Digest : g = run[c].got
  BY <1>0 DEF Run
<1>3. PICK outcome : /\ outcome = Outcome(s, run[c].at, run[c].prev, g)
                     /\ outcomes' = outcomes \cup {outcome}
  BY <1>1, <1>2 DEF StoreOutcome
<1>4. outcome \in OutcomeType /\ outcome.source = s /\ outcome.got = g
  BY <1>0, <1>3, SourceAssumption DEF Outcome, OutcomeType, Run
<1>5. UNCHANGED <<ledgerVars, evidence, state, lost, envVars>>
  BY DEF StoreOutcome
<1>6. Lasting
  BY <1>3, <1>5, QuietLasts DEF ledgerVars
<1>7. (restores' = 0 => Planned(s)') /\ (g # None => Vaulted(g)') /\ Recorded(s, g)'
  <2>1. (restores = 0 => Planned(s)) /\ (g # None => Vaulted(g))
    BY <1>0, <1>1, <1>2 DEF Left
  <2>2. g # None => Vaulted(g)'
    BY <1>6, <2>1, BackedLasts
  <2>3. Recorded(s, g)'
    BY <1>3, <1>4 DEF Recorded
  <2>. QED BY <1>6, <2>1, <2>2, <2>3 DEF Lasting
<1>8. PICK next \in Run : next = [run[c] EXCEPT !.pc = "record"]
  BY <1>0 DEF Run
<1>9. run' = [run EXCEPT ![c] = next]
  BY <1>8 DEF StoreOutcome, Move, TypeInv
<1>10. next.pc = "record" /\ next.src = s /\ next.got = g /\ next.memory = run[c].memory
  BY <1>0, <1>1, <1>2, <1>8 DEF Run
<1>11. Left(next.pc, next.src, next.got)'
  BY <1>7, <1>10 DEF Left
<1>12. BackInv' /\ run' \in [Controller -> Run]
  BY <1>5, <1>6, <1>9, <1>10, <1>11, SourceMoves
<1>. QED BY <1>3, <1>4, <1>5, <1>12 DEF TypeInv, ledgerVars, envVars

LEMMA RecordBacked ==
  ASSUME TypeInv, BackInv, NEW c \in Controller, RecordFailed(c) \/ RecordCompleted(c)
  PROVE  TypeInv' /\ BackInv'
<1>0. /\ run[c] \in Run /\ Left(run[c].pc, run[c].src, run[c].got)
      /\ run[c].pc = "record" /\ run[c].at \in Nat /\ run[c].prev \in Digest
  BY DEF TypeInv, BackInv, RecordFailed, RecordCompleted, Run
<1>1. PICK s \in Source : s = run[c].src /\ (restores = 0 => Planned(s))
  BY <1>0 DEF Left
<1>2. PICK g \in Digest : /\ g = run[c].got /\ Recorded(s, g)
                          /\ g # None => Vaulted(g)
  BY <1>0, <1>1 DEF Run, Left
<1>3. PICK type \in {"failed", "completed"}, pc \in {"plan", "write", "change"} :
        /\ AppendEvent(Event(type, s, run[c].at, run[c].prev, g))
        /\ Move(c, pc)
        /\ pc = "change" => type = "completed" /\ g # None
  <2>1. CASE RecordFailed(c)
    <3>1. NextSource(c) \in {"plan", "write", "change"} /\ NextSource(c) # "change"
      BY DEF NextSource
    <3>2. AppendEvent(Event("failed", s, run[c].at, run[c].prev, g)) /\ Move(c, NextSource(c))
      BY <1>1, <1>2, <2>1 DEF RecordFailed
    <3>. QED BY <3>1, <3>2
  <2>2. CASE RecordCompleted(c)
    BY <1>1, <1>2, <2>2 DEF RecordCompleted
  <2>. QED BY <2>1, <2>2
<1>4. PICK e \in Entry : e = Event(type, s, run[c].at, run[c].prev, g)
  BY <1>0, SourceAssumption DEF Event, Entry
<1>5. AppendEvent(e) /\ e.type = type /\ e.source = s /\ e.got = g
  BY <1>3, <1>4 DEF Event
<1>6. UNCHANGED <<diskVars, envVars>>
  BY DEF RecordFailed, RecordCompleted
<1>7. Lasting /\ ledger' \in Seq(Entry)
  BY <1>5, <1>6, AppendLasts, AppendTells DEF TypeInv, diskVars
<1>8. (restores' = 0 => Planned(s)') /\ (g # None => Vaulted(g)') /\ Recorded(s, g)'
  BY <1>1, <1>2, <1>7, BackedLasts DEF Lasting
<1>9. pc = "change" => g # None /\ (restores' = 0 => Completed(s, g)')
  <2>1. type = "completed" /\ Planned(s) => Completed(s, g)'
    BY <1>5, AppendTells DEF TypeInv
  <2>2. restores' = restores
    BY <1>5 DEF AppendEvent
  <2>. QED BY <1>1, <1>3, <2>1, <2>2
<1>10. PICK next \in Run : next = [run[c] EXCEPT !.pc = pc]
  BY <1>0 DEF Run
<1>11. run' = [run EXCEPT ![c] = next]
  BY <1>3, <1>10 DEF Move
<1>12. next.pc = pc /\ next.src = s /\ next.got = g /\ next.memory = run[c].memory
  BY <1>0, <1>1, <1>2, <1>10 DEF Run
<1>13. Left(next.pc, next.src, next.got)'
  BY <1>8, <1>9, <1>12 DEF Left
<1>14. BackInv' /\ run' \in [Controller -> Run]
  BY <1>6, <1>7, <1>11, <1>12, <1>13, SourceMoves DEF diskVars
<1>. QED BY <1>5, <1>6, <1>7, <1>14 DEF TypeInv, AppendEvent, diskVars, envVars

\* The change is audited, and the digest enters the memory of the cycle.  What is not
\* a change is what the memory held.
LEMMA ChangeBacked ==
  ASSUME TypeInv, BackInv, PrevInv, NEW c \in Controller, RecordChange(c)
  PROVE  TypeInv' /\ BackInv'
<1>0. /\ run[c] \in Run /\ Left(run[c].pc, run[c].src, run[c].got)
      /\ run[c].pc = "change" /\ run[c].at \in Nat /\ run[c].prev \in Digest
      /\ run[c].memory \in Memory
  BY DEF TypeInv, BackInv, RecordChange, Run
<1>1. PICK s \in Source : s = run[c].src
  BY <1>0 DEF Left
<1>2. PICK g \in Content : /\ g = run[c].got /\ Recorded(s, g) /\ Vaulted(g)
                           /\ restores = 0 => Completed(s, g)
  BY <1>0, <1>1 DEF Run, Left, Digest
<1>3. PICK e \in Entry : e = Event(Change(run[c].prev, g), s, run[c].at, run[c].prev, g)
  <2>1. Change(run[c].prev, g) \in {"changed", "unchanged"} /\ s \in Nat /\ g \in Digest
    BY SourceAssumption DEF Change, Digest
  <2>. QED BY <1>0, <2>1 DEF Event, Entry
<1>4. /\ AppendEvent(e) /\ e.type \in {"changed", "unchanged"} /\ e.source = s /\ e.got = g
      /\ run' = [run EXCEPT ![c] = [@ EXCEPT !.pc = NextSource(c), !.memory[s] = g]]
  BY <1>1, <1>2, <1>3 DEF RecordChange, Event, Change
<1>5. UNCHANGED <<diskVars, envVars>>
  BY DEF RecordChange
<1>6. Lasting /\ ledger' \in Seq(Entry)
  BY <1>4, <1>5, AppendLasts, AppendTells DEF TypeInv, diskVars
<1>7. Backed(s, g)'
  <2>1. Vaulted(g)' /\ Recorded(s, g)'
    BY <1>2, <1>6, BackedLasts DEF Digest
  <2>2. restores' = restores
    BY <1>4 DEF AppendEvent
  <2>3. restores = 0 => Told(s, g)'
    <3>1. CASE e.type = "changed"
      BY <1>2, <1>4, <3>1, AppendTells DEF TypeInv
    <3>2. CASE e.type # "changed"
      <4>1. run[c].memory[s] = g /\ g # None
        <5>1. Change(run[c].prev, g) # "changed"
          BY <1>3, <3>2 DEF Event
        <5>2. run[c].prev = g
          BY <5>1 DEF Change
        <5>. QED BY <1>0, <1>1, <5>2, SourceAssumption DEF PrevInv
      <4>2. Backed(s, g)
        BY <4>1 DEF BackInv, MemoryBacked
      <4>. QED BY <1>4, <4>2, AppendTells DEF Backed, TypeInv
    <3>. QED BY <3>1, <3>2
  <2>. QED BY <2>1, <2>2, <2>3 DEF Backed
<1>8. NextSource(c) \in {"plan", "write"}
  BY DEF NextSource
<1>9. PICK next \in Run : next = [run[c] EXCEPT !.pc = NextSource(c), !.memory[s] = g]
  BY <1>0, <1>8 DEF Run, Memory, Digest
<1>10. run' = [run EXCEPT ![c] = next]
  BY <1>4, <1>9
<1>11. next.pc \in {"plan", "write"} /\ next.memory = [run[c].memory EXCEPT ![s] = g]
  BY <1>0, <1>8, <1>9 DEF Run
<1>12. PICK memory \in Memory : memory = run[c].memory /\ MemoryBacked(memory)
  BY <1>0 DEF BackInv
<1>13. \A x \in Source : next.memory[x] # None => Backed(x, next.memory[x])'
  <2>1. \A x \in Source : memory[x] # None => Backed(x, memory[x])'
    BY <1>6, <1>12, MemoryLasts
  <2>2. next.memory[s] = g /\ \A x \in Source : x # s => next.memory[x] = memory[x]
    BY <1>11, <1>12 DEF Memory
  <2>. QED BY <1>7, <2>1, <2>2
<1>14. Left(next.pc, next.src, next.got)'
  BY <1>11 DEF Left
<1>15. BackInv'
  BY <1>5, <1>6, <1>10, <1>13, <1>14, OneMoves DEF diskVars
<1>16. run' \in [Controller -> Run]
  BY <1>10 DEF TypeInv
<1>. QED BY <1>4, <1>5, <1>6, <1>15, <1>16 DEF TypeInv, AppendEvent, diskVars, envVars

LEMMA WriteBacked ==
  ASSUME TypeInv, BackInv, NEW c \in Controller, WriteState(c) \/ Refused(c) \/ Crash(c)
  PROVE  TypeInv' /\ BackInv'
<1>1. run' = [run EXCEPT ![c] = Idle] /\ state' \in {state, run[c].memory}
  BY DEF WriteState, Refused, Crash, Ends, diskVars
<1>2. UNCHANGED <<ledgerVars, evidence, outcomes, lost, site>>
  BY DEF WriteState, Refused, Crash, diskVars, envVars
<1>3. Lasting
  BY <1>2, QuietLasts DEF ledgerVars
<1>4. BackInv' /\ run' \in [Controller -> Run]
  BY <1>1, <1>3, EndsBacked
<1>5. state' \in Memory
  BY <1>1 DEF TypeInv, Run
<1>. QED BY <1>2, <1>4, <1>5 DEF TypeInv, ledgerVars

\* What is not a step of a controller leaves their records alone, or empties them.
LEMMA EnvironmentBacked ==
  ASSUME TypeInv, BackInv, Lasting, state' = state,
         run' = run \/ run' = [c \in Controller |-> Idle]
  PROVE  BackInv' /\ run' \in [Controller -> Run]
<1>1. MemoryBacked(state)'
  <2>1. PICK memory \in Memory : memory = state /\ MemoryBacked(memory)
    BY DEF TypeInv, BackInv
  <2>2. \A s \in Source : memory[s] # None => Backed(s, memory[s])'
    BY <2>1, MemoryLasts
  <2>. QED BY <2>1, <2>2 DEF MemoryBacked
<1>2. ASSUME NEW c \in Controller
      PROVE  MemoryBacked(run[c].memory)' /\ Left(run[c].pc, run[c].src, run[c].got)'
  <2>1. CASE run' = run
    <3>1. PICK r \in Run : r = run[c]
      BY DEF TypeInv
    <3>2. r.memory \in Memory /\ MemoryBacked(r.memory) /\ Left(r.pc, r.src, r.got)
      BY <3>1 DEF BackInv, Run
    <3>3. \A s \in Source : r.memory[s] # None => Backed(s, r.memory[s])'
      BY <3>2, MemoryLasts
    <3>4. Left(r.pc, r.src, r.got)'
      BY <3>2, LeftLasts
    <3>. QED BY <2>1, <3>1, <3>3, <3>4 DEF MemoryBacked
  <2>2. CASE run' = [d \in Controller |-> Idle]
    <3>1. run'[c] = Idle
      BY <2>2
    <3>. QED BY <3>1, IdleHolds DEF MemoryBacked
  <2>. QED BY <2>1, <2>2
<1>3. run' \in [Controller -> Run]
  BY IdleHolds DEF TypeInv
<1>. QED BY <1>1, <1>2, <1>3 DEF BackInv

------------------------------------------------------------------------------
(* The theorems. *)

LEMMA PrevStep == TypeInv /\ PrevInv /\ [Next]_vars => PrevInv'
<1>. SUFFICES ASSUME TypeInv, PrevInv, [Next]_vars PROVE PrevInv'
  OBVIOUS
<1>0. run \in [Controller -> Run] /\ Idle.pc = "idle" /\ Idle \in Run
  BY IdleHolds DEF TypeInv, Idle
<1>1. CASE UNCHANGED run
  BY <1>1 DEF PrevInv
<1>2. CASE run' = [c \in Controller |-> Idle]
  BY <1>0, <1>2 DEF PrevInv
<1>3. ASSUME NEW c \in Controller, Plan(c)
      PROVE  PrevInv'
  <2>1. PICK s \in run[c].todo :
        run' = [run EXCEPT ![c] = [@ EXCEPT !.pc = "fetch", !.src = s,
                                     !.todo = run[c].todo \ {s}, !.prev = run[c].memory[s]]]
    BY <1>3 DEF Plan
  <2>2. run'[c].prev = run'[c].memory[run'[c].src] /\ \A d \in Controller \ {c} : run'[d] = run[d]
    BY <1>0, <2>1 DEF Run
  <2>. QED BY <2>2 DEF PrevInv
<1>4. ASSUME NEW c \in Controller, NEW next, run' = [run EXCEPT ![c] = next],
             next.pc \in {"idle", "plan", "write"}
      PROVE  PrevInv'
  BY <1>0, <1>4 DEF PrevInv
<1>5. ASSUME NEW c \in Controller, NEW next, run' = [run EXCEPT ![c] = next],
             run[c].pc \in {"fetch", "outcome", "record", "change"},
             next.prev = run[c].prev, next.memory = run[c].memory, next.src = run[c].src
      PROVE  PrevInv'
  BY <1>0, <1>5 DEF PrevInv
<1>6. ASSUME NEW c \in Controller, Cycle(c) PROVE PrevInv'
  <2>0. run[c] \in Run
    BY <1>0
  <2>1. ASSUME NEW selected \in SUBSET Source, Start(c, selected) PROVE PrevInv'
    <3>1. [Idle EXCEPT !.pc = "plan", !.at = clock, !.todo = selected, !.memory = state].pc = "plan"
      BY <1>0 DEF Run
    <3>. QED BY <1>4, <2>1, <3>1 DEF Start
  <2>2. CASE Fetch(c)
    <3>. DEFINE next == [run[c] EXCEPT !.pc = "outcome", !.got = site[run[c].src]]
    <3>1. next.prev = run[c].prev /\ next.memory = run[c].memory /\ next.src = run[c].src
      BY <2>0 DEF Run
    <3>2. run' = [run EXCEPT ![c] = next] /\ run[c].pc = "fetch"
      BY <2>2 DEF Fetch
    <3>. HIDE DEF next
    <3>. QED BY <1>5, <3>1, <3>2
  <2>3. CASE FetchFails(c)
    <3>. DEFINE next == [run[c] EXCEPT !.pc = "outcome", !.got = None]
    <3>1. next.prev = run[c].prev /\ next.memory = run[c].memory /\ next.src = run[c].src
      BY <2>0 DEF Run
    <3>2. run' = [run EXCEPT ![c] = next] /\ run[c].pc = "fetch"
      BY <2>3 DEF FetchFails
    <3>. HIDE DEF next
    <3>. QED BY <1>5, <3>1, <3>2
  <2>4. CASE StoreOutcome(c)
    <3>. DEFINE next == [run[c] EXCEPT !.pc = "record"]
    <3>1. next.prev = run[c].prev /\ next.memory = run[c].memory /\ next.src = run[c].src
      BY <2>0 DEF Run
    <3>2. run' = [run EXCEPT ![c] = next] /\ run[c].pc = "outcome"
      BY <2>4 DEF StoreOutcome, Move
    <3>. HIDE DEF next
    <3>. QED BY <1>5, <3>1, <3>2
  <2>5. CASE RecordCompleted(c)
    <3>. DEFINE next == [run[c] EXCEPT !.pc = "change"]
    <3>1. next.prev = run[c].prev /\ next.memory = run[c].memory /\ next.src = run[c].src
      BY <2>0 DEF Run
    <3>2. run' = [run EXCEPT ![c] = next] /\ run[c].pc = "record"
      BY <2>5 DEF RecordCompleted, Move
    <3>. HIDE DEF next
    <3>. QED BY <1>5, <3>1, <3>2
  <2>6. CASE RecordFailed(c)
    <3>1. NextSource(c) \in {"plan", "write"}
      BY DEF NextSource
    <3>2. [run[c] EXCEPT !.pc = NextSource(c)].pc \in {"plan", "write"}
      BY <2>0, <3>1 DEF Run
    <3>. QED BY <1>4, <2>6, <3>2 DEF RecordFailed, Move
  <2>7. CASE RecordChange(c)
    <3>1. NextSource(c) \in {"plan", "write"}
      BY DEF NextSource
    <3>. DEFINE next == [run[c] EXCEPT !.pc = NextSource(c), !.memory[run[c].src] = run[c].got]
    <3>2. next.pc \in {"plan", "write"}
      BY <2>0, <3>1 DEF Run
    <3>3. run' = [run EXCEPT ![c] = next]
      BY <2>7 DEF RecordChange
    <3>. HIDE DEF next
    <3>. QED BY <1>4, <3>2, <3>3
  <2>8. CASE WriteState(c) \/ Refused(c) \/ Crash(c)
    <3>1. run' = [run EXCEPT ![c] = Idle]
      BY <2>8 DEF WriteState, Refused, Crash, Ends
    <3>. QED BY <1>0, <1>4, <3>1
  <2>. QED BY <1>3, <1>6, <2>1, <2>2, <2>3, <2>4, <2>5, <2>6, <2>7, <2>8 DEF Cycle
<1>7. LedgerEnvironment /\ UNCHANGED <<diskVars, envVars, run, work, clean>> => UNCHANGED run
  OBVIOUS
<1>8. \A s \in Source, content \in Content : Publish(s, content) => UNCHANGED run
  BY DEF Publish
<1>9. WriteBack \/ UNCHANGED vars => UNCHANGED run
  BY DEF WriteBack, vars
<1>10. \A gone \in SUBSET (evidence \ flushed), half \in BOOLEAN :
          PowerLoss(gone, half) => run' = [c \in Controller |-> Idle]
  BY DEF PowerLoss
<1>. QED BY <1>1, <1>2, <1>6, <1>7, <1>8, <1>9, <1>10 DEF Next

LEMMA BackStep == TypeInv /\ BackInv /\ PrevInv /\ [Next]_vars => TypeInv' /\ BackInv'
<1>. SUFFICES ASSUME TypeInv, BackInv, PrevInv, [Next]_vars PROVE TypeInv' /\ BackInv'
  OBVIOUS
<1>1. ASSUME NEW c \in Controller, Cycle(c) PROVE TypeInv' /\ BackInv'
  BY <1>1, StartBacked, PlanBacked, FetchBacked, OutcomeBacked, RecordBacked, ChangeBacked,
     WriteBacked DEF Cycle
<1>2. CASE LedgerEnvironment /\ UNCHANGED <<diskVars, envVars, run, work, clean>>
  <2>1. CASE Tick
    <3>1. Lasting
      BY <1>2, <2>1, QuietLasts DEF Tick, diskVars
    <3>. QED BY <1>2, <2>1, <3>1, EnvironmentBacked DEF Tick, TypeInv, diskVars, envVars
  <2>2. ASSUME NEW length \in 0..Len(ledger), Restore(length) PROVE TypeInv' /\ BackInv'
    <3>1. restores' # 0 /\ restores' \in Nat
      BY <2>2 DEF Restore, TypeInv
    <3>2. Lasting
      BY <1>2, <3>1 DEF Lasting, diskVars
    <3>3. ledger' \in Seq(Entry)
      BY <2>2 DEF Restore, TypeInv
    <3>. QED BY <1>2, <2>2, <3>1, <3>2, <3>3, EnvironmentBacked
             DEF Restore, TypeInv, diskVars, envVars
  <2>. QED BY <1>2, <2>1, <2>2 DEF LedgerEnvironment
<1>3. ASSUME NEW s \in Source, NEW content \in Content, Publish(s, content)
      PROVE  TypeInv' /\ BackInv'
  <2>1. site' \in [Source -> Content]
    BY <1>3 DEF Publish, TypeInv
  <2>2. Lasting
    BY <1>3, QuietLasts DEF Publish, ledgerVars, diskVars
  <2>. QED BY <1>3, <2>1, <2>2, EnvironmentBacked DEF Publish, TypeInv, ledgerVars, diskVars
<1>4. CASE WriteBack \/ UNCHANGED vars
  <2>1. Lasting
    BY <1>4, QuietLasts DEF WriteBack, vars, ledgerVars, diskVars
  <2>. QED BY <1>4, <2>1, EnvironmentBacked
           DEF WriteBack, TypeInv, vars, ledgerVars, diskVars, envVars
<1>5. ASSUME NEW gone \in SUBSET (evidence \ flushed), NEW half \in BOOLEAN,
             PowerLoss(gone, half)
      PROVE  TypeInv' /\ BackInv'
  <2>1. Lasting
    BY <1>5, QuietLasts DEF PowerLoss
  <2>. QED BY <1>5, <2>1, EnvironmentBacked DEF PowerLoss, TypeInv
<1>. QED BY <1>1, <1>2, <1>3, <1>4, <1>5 DEF Next

LEMMA BackInit == Init => TypeInv /\ BackInv /\ PrevInv
<1>. SUFFICES ASSUME Init PROVE TypeInv /\ BackInv /\ PrevInv
  OBVIOUS
<1>1. /\ \A c \in Controller : run[c] = Idle
      /\ run = [c \in Controller |-> Idle] /\ state = [s \in Source |-> None]
  BY DEF Init
<1>2. Idle \in Run /\ state \in Memory /\ \A s \in Source : Idle.memory[s] = None
  BY <1>1, IdleHolds DEF Memory, Digest
<1>3. Idle.pc = "idle"
  BY DEF Idle
<1>4. TypeInv
  BY <1>1, <1>2 DEF Init, LedgerInit, TypeInv
<1>. QED BY <1>1, <1>2, <1>3, <1>4 DEF BackInv, MemoryBacked, Left, PrevInv

\* Types, and what every controller's step has left behind, in every state.
THEOREM InvariantHolds == Spec => [](TypeInv /\ BackInv /\ PrevInv)
BY BackInit, BackStep, PrevStep, PTL DEF Spec

\* A digest in the state file has its evidence, its outcome and its audited events behind
\* it, whoever wrote the file, however many controllers ran at once, and wherever a
\* process or the machine stopped (acquisition_controller.py: 182-264).
THEOREM StateIsBacked == Spec => []StateBacked
<1>1. BackInv => StateBacked
  BY DEF BackInv, MemoryBacked, Backed, Vaulted, Recorded, StateBacked
<1>. QED BY <1>1, InvariantHolds, PTL

------------------------------------------------------------------------------
(* The audited changes. *)

\* What the ledger knows of a source before position k: the content of its last
\* completion there, and before its end.
Known(s, k) == IF Completions(s, k) = {} THEN None ELSE ledger[Latest(Completions(s, k))].got
KnownNow(s) == Known(s, Len(ledger) + 1)

\* The completions before a position have a last one.
Ranked(s, k) ==
  Completions(s, k) # {} =>
    \E i \in Completions(s, k) : \A j \in Completions(s, k) : j <= i
AllRanked == \A s \in Nat, k \in 1..(Len(ledger) + 1) : Ranked(s, k)

\* A change event that tells the truth.
ToldRight(k) ==
  LET s == ledger[k].source
      reported == Latest(Completions(s, k))
  IN  /\ Completions(s, k) # {} /\ ledger[k].got # None
      /\ ledger[reported].got = ledger[k].got
      /\ ledger[k].type = "unchanged" <=> Known(s, reported) = ledger[k].got
Changes == {k \in 1..Len(ledger) : ledger[k].type \in {"changed", "unchanged"}}
AllTold == \A k \in Changes : ToldRight(k)

\* The memory of a cycle that runs alone is what the ledger knows; between the
\* completion of a source and its change event, that source is one behind.
Trail(r) ==
  /\ r.pc \notin {"idle", "change"} => \A s \in Source : r.memory[s] = KnownNow(s)
  /\ r.pc \in {"fetch", "outcome", "record"} => r.prev = r.memory[r.src]
  /\ r.pc = "change" =>
       LET done == Completions(r.src, Len(ledger) + 1) IN
       /\ \A s \in Source \ {r.src} : r.memory[s] = KnownNow(s)
       /\ done # {} /\ ledger[Latest(done)].got = r.got
       /\ r.prev = Known(r.src, Latest(done))

Trails == \A c \in Controller, r \in Run : r = run[c] => Trail(r)

RunsAlone == \A c, d \in Controller : run[c].pc # "idle" /\ run[d].pc # "idle" => c = d
StateKnown == (\A c \in Controller : run[c].pc = "idle") =>
                \A s \in Source : state[s] = KnownNow(s)

TrailInv ==
  restores = 0 =>
    /\ AllRanked
    /\ clean => /\ RunsAlone /\ StateKnown /\ AllTold
                /\ Trails

\* The last position of a set is the one that Latest names.
LEMMA LatestIs ==
  ASSUME NEW S \in SUBSET Nat, NEW i \in S, \A j \in S : j <= i
  PROVE  Latest(S) = i
<1>1. \A j \in S : (\A k \in S : k <= j) => j = i
  OBVIOUS
<1>. QED BY <1>1 DEF Latest

LEMMA CompletionsBelow ==
  ASSUME NEW s, NEW k \in Nat \ {0}
  PROVE  /\ Completions(s, k) \subseteq 1..(k - 1)
         /\ Ranked(s, k) /\ Completions(s, k) # {} =>
              Latest(Completions(s, k)) \in Completions(s, k)
<1>1. Completions(s, k) \subseteq 1..(k - 1)
  BY DEF Completions
<1>2. ASSUME Ranked(s, k), Completions(s, k) # {}
      PROVE  Latest(Completions(s, k)) \in Completions(s, k)
  <2>1. PICK S \in SUBSET Nat : S = Completions(s, k)
    BY <1>1
  <2>2. PICK i \in S : \A j \in S : j <= i
    BY <1>2, <2>1 DEF Ranked
  <2>3. Latest(S) = i
    BY <2>2, LatestIs
  <2>. QED BY <2>1, <2>2, <2>3
<1>. QED BY <1>1, <1>2

\* An append changes nothing of what was known at earlier positions.
LEMMA AppendKnows ==
  ASSUME ledger \in Seq(Entry), AllRanked, NEW e \in Entry, AppendEvent(e),
         NEW n \in Nat, n = Len(ledger)
  PROVE  /\ Len(ledger') = n + 1 /\ ledger'[n + 1] = e
         /\ \A i \in 1..n : ledger'[i] = ledger[i]
         /\ \A s \in Nat, k \in 1..(n + 1) :
              /\ Completions(s, k)' = Completions(s, k)
              /\ Known(s, k)' = Known(s, k)
<1>1. ledger' = Append(ledger, e)
  BY DEF AppendEvent
<1>2. /\ Len(ledger') = n + 1 /\ ledger'[n + 1] = e
      /\ \A i \in 1..n : ledger'[i] = ledger[i]
  BY <1>1
<1>. HIDE <1>1
<1>3. ASSUME NEW s \in Nat, NEW k \in 1..(n + 1)
      PROVE  /\ Completions(s, k)' = Completions(s, k)
             /\ Known(s, k)' = Known(s, k)
  <2>1. \A i \in 1..(k - 1) : ledger'[i] = ledger[i]
    BY <1>2
  <2>2. PICK S : S = Completions(s, k) /\ S = Completions(s, k)'
    BY <2>1 DEF Completions
  <2>3. S # {} => Latest(S) \in 1..(k - 1)
    <3>1. k \in Nat \ {0} /\ Ranked(s, k)
      BY DEF AllRanked
    <3>. QED BY <2>2, <3>1, CompletionsBelow
  <2>. QED BY <2>1, <2>2, <2>3 DEF Known
<1>. QED BY <1>2, <1>3

\* What an append adds to the completions of a source.
LEMMA AppendCompletes ==
  ASSUME ledger \in Seq(Entry), AllRanked, NEW e \in Entry, AppendEvent(e),
         NEW n \in Nat, n = Len(ledger)
  PROVE  /\ AllRanked'
         /\ \A s \in Nat : e.type # "completed" \/ e.source # s =>
              Completions(s, n + 2)' = Completions(s, n + 1) /\ KnownNow(s)' = KnownNow(s)
         /\ e.type = "completed" =>
              /\ Completions(e.source, n + 2)' # {}
              /\ Latest(Completions(e.source, n + 2)') = n + 1
<1>1. /\ Len(ledger') = n + 1 /\ ledger'[n + 1] = e
      /\ \A i \in 1..n : ledger'[i] = ledger[i]
      /\ \A s \in Nat, k \in 1..(n + 1) : Completions(s, k)' = Completions(s, k)
  BY AppendKnows
<1>2. \A i \in 1..(n + 1) : i \in 1..n \/ i = n + 1
  OBVIOUS
<1>3. /\ (n + 2) - 1 = n + 1 /\ (n + 1) - 1 = n /\ 1..n \subseteq 1..(n + 1)
      /\ n + 1 \in 1..(n + 1) /\ (n + 1) + 1 = n + 2
  OBVIOUS
<1>4. ASSUME NEW s \in Nat
      PROVE  Completions(s, n + 2)' =
               Completions(s, n + 1) \cup {i \in {n + 1} : e.type = "completed" /\ e.source = s}
  <2>1. Completions(s, n + 2)' =
          {i \in 1..(n + 1) : ledger'[i].type = "completed" /\ ledger'[i].source = s}
    BY <1>3 DEF Completions
  <2>2. Completions(s, n + 1) = {i \in 1..n : ledger[i].type = "completed" /\ ledger[i].source = s}
    BY <1>3 DEF Completions
  <2>. QED BY <1>1, <1>2, <1>3, <2>1, <2>2
<1>5. ASSUME NEW s \in Nat, e.type # "completed" \/ e.source # s
      PROVE  Completions(s, n + 2)' = Completions(s, n + 1) /\ KnownNow(s)' = KnownNow(s)
  <2>1. PICK S : S = Completions(s, n + 2)' /\ S = Completions(s, n + 1)
    BY <1>4, <1>5
  <2>2. S # {} => Latest(S) \in 1..n
    <3>1. n + 1 \in Nat \ {0} /\ Ranked(s, n + 1)
      BY <1>3 DEF AllRanked
    <3>. QED BY <1>3, <2>1, <3>1, CompletionsBelow
  <2>. QED BY <1>1, <1>3, <2>1, <2>2 DEF KnownNow, Known
<1>6. ASSUME e.type = "completed"
      PROVE  /\ Completions(e.source, n + 2)' # {}
             /\ Latest(Completions(e.source, n + 2)') = n + 1
  <2>1. e.source \in Nat
    BY DEF Entry
  <2>2. PICK S : /\ S = Completions(e.source, n + 2)'
                 /\ S = Completions(e.source, n + 1) \cup {n + 1}
    BY <1>4, <1>6, <2>1
  <2>3. Completions(e.source, n + 1) \subseteq 1..n
    BY <1>3 DEF Completions
  <2>4. S \in SUBSET Nat /\ n + 1 \in S /\ \A j \in S : j <= n + 1
    BY <2>2, <2>3
  <2>. QED BY <2>2, <2>4, LatestIs
<1>7. ASSUME NEW s \in Nat, NEW k \in 1..(n + 2)
      PROVE  Ranked(s, k)'
  <2>1. CASE k \in 1..(n + 1)
    <3>1. Ranked(s, k)
      BY <2>1 DEF AllRanked
    <3>. QED BY <1>1, <2>1, <3>1 DEF Ranked
  <2>2. CASE k = n + 2
    <3>1. Ranked(s, n + 1)
      BY <1>3 DEF AllRanked
    <3>2. CASE e.type = "completed" /\ e.source = s
      <4>1. PICK S : S = Completions(s, n + 2)' /\ S = Completions(s, n + 1) \cup {n + 1}
        BY <1>4, <3>2
      <4>2. Completions(s, n + 1) \subseteq 1..n
        BY <1>3 DEF Completions
      <4>3. n + 1 \in S /\ \A j \in S : j <= n + 1
        BY <4>1, <4>2
      <4>. QED BY <2>2, <4>1, <4>3 DEF Ranked
    <3>3. CASE ~(e.type = "completed" /\ e.source = s)
      <4>1. Completions(s, n + 2)' = Completions(s, n + 1)
        BY <1>5, <3>3
      <4>. QED BY <2>2, <3>1, <4>1 DEF Ranked
    <3>. QED BY <3>2, <3>3
  <2>. QED BY <2>1, <2>2
<1>8. AllRanked'
  BY <1>1, <1>3, <1>7 DEF AllRanked
<1>. QED BY <1>5, <1>6, <1>8

\* And the changes that were told stay told.
LEMMA AppendKeepsTold ==
  ASSUME ledger \in Seq(Entry), AllRanked, NEW e \in Entry, AppendEvent(e),
         NEW k \in 1..Len(ledger), ToldRight(k)
  PROVE  ToldRight(k)' /\ ledger'[k] = ledger[k]
<1>1. PICK n \in Nat : n = Len(ledger)
  OBVIOUS
<1>2. /\ \A i \in 1..n : ledger'[i] = ledger[i]
      /\ \A s \in Nat, j \in 1..(n + 1) :
              /\ Completions(s, j)' = Completions(s, j)
              /\ Known(s, j)' = Known(s, j)
  BY <1>1, AppendKnows
<1>3. PICK s \in Nat : s = ledger[k].source
  <2>1. ledger[k] \in Entry
    BY <1>1
  <2>. QED BY <2>1 DEF Entry
<1>4. k \in 1..n /\ k \in 1..(n + 1) /\ k \in Nat \ {0} /\ ledger'[k] = ledger[k]
  BY <1>1, <1>2
<1>5. PICK S : S = Completions(s, k) /\ S = Completions(s, k)'
  BY <1>2, <1>4
<1>6. PICK i : i = Latest(S)
  OBVIOUS
<1>7. i \in 1..(k - 1)
  <2>1. Ranked(s, k) /\ S # {}
    BY <1>1, <1>3, <1>4, <1>5 DEF AllRanked, ToldRight
  <2>. QED BY <1>4, <1>5, <1>6, <2>1, CompletionsBelow
<1>8. i \in 1..n /\ i \in 1..(n + 1)
  BY <1>4, <1>7
<1>9. Known(s, i)' = Known(s, i) /\ ledger'[i] = ledger[i]
  BY <1>2, <1>8
<1>. QED BY <1>3, <1>4, <1>5, <1>6, <1>9 DEF ToldRight

\* Nothing is appended.
LEMMA QuietKnows ==
  ASSUME UNCHANGED ledger
  PROVE  /\ \A s : KnownNow(s)' = KnownNow(s)
         /\ AllRanked => AllRanked'
         /\ AllTold => AllTold'
         /\ \A r : Trail(r) => Trail(r)'
<1>1. /\ \A s, k : Completions(s, k)' = Completions(s, k)
      /\ \A s, k : Known(s, k)' = Known(s, k)
  BY DEF Completions, Known
<1>2. \A s : KnownNow(s)' = KnownNow(s)
  BY <1>1 DEF KnownNow
<1>3. AllRanked => AllRanked'
  BY <1>1 DEF AllRanked, Ranked
<1>4. AllTold => AllTold'
  BY <1>1 DEF AllTold, Changes, ToldRight
<1>5. \A r : Trail(r) => Trail(r)'
  BY <1>1, <1>2 DEF Trail
<1>. QED BY <1>2, <1>3, <1>4, <1>5

\* An event that is not a change is appended.
LEMMA OtherEventTold ==
  ASSUME ledger \in Seq(Entry), AllRanked, AllTold, NEW e \in Entry, AppendEvent(e),
         e.type \notin {"changed", "unchanged"}
  PROVE  AllTold'
<1>1. PICK n \in Nat : n = Len(ledger)
  OBVIOUS
<1>2. Len(ledger') = n + 1 /\ ledger'[n + 1] = e /\ \A i \in 1..n : ledger'[i] = ledger[i]
  BY <1>1, AppendKnows
<1>3. ASSUME NEW k \in 1..(n + 1), ledger'[k].type \in {"changed", "unchanged"}
      PROVE  ToldRight(k)'
  <2>1. k \in 1..n
    BY <1>2, <1>3
  <2>2. ToldRight(k)
    BY <1>1, <1>2, <1>3, <2>1 DEF AllTold, Changes
  <2>. QED BY <1>1, <2>1, <2>2, AppendKeepsTold
<1>. QED BY <1>2, <1>3 DEF AllTold, Changes

\* The cycle of one controller goes on; while it runs alone, the others hold nothing.
LEMMA TrailMoves ==
  ASSUME TypeInv, TrailInv, NEW c \in Controller, NEW next \in Run,
         run' = [run EXCEPT ![c] = next], run[c].pc # "idle", next.pc # "idle",
         UNCHANGED <<clean, restores>>,
         restores = 0 => AllRanked',
         restores = 0 /\ clean => AllTold' /\ Trail(next)'
  PROVE  TrailInv'
<1>. SUFFICES ASSUME restores = 0, clean
              PROVE  (RunsAlone /\ StateKnown /\ Trails)'
  BY DEF TrailInv
<1>1. run \in [Controller -> Run] /\ RunsAlone
  BY DEF TypeInv, TrailInv
<1>2. run'[c] = next /\ \A d \in Controller \ {c} : run'[d] = run[d] /\ run[d].pc = "idle"
  BY <1>1 DEF RunsAlone
<1>3. RunsAlone' /\ StateKnown'
  BY <1>2 DEF RunsAlone, StateKnown
<1>4. ASSUME NEW d \in Controller, NEW r \in Run, r = run'[d] PROVE Trail(r)'
  <2>1. CASE d = c
    <3>1. r = next
      BY <1>2, <1>4, <2>1
    <3>. QED BY <3>1
  <2>2. CASE d # c
    <3>1. r.pc = "idle"
      BY <1>2, <1>4, <2>2
    <3>. QED BY <3>1 DEF Trail
  <2>. QED BY <2>1, <2>2
<1>. QED BY <1>3, <1>4 DEF Trails

LEMMA StartTrail ==
  ASSUME TypeInv, TrailInv, NEW c \in Controller, NEW selected \in SUBSET Source,
         Start(c, selected)
  PROVE  TrailInv'
<1>1. /\ UNCHANGED <<ledger, restores, state>>
      /\ clean' = (clean /\ \A other \in Controller : run[other].pc = "idle")
  BY DEF Start, ledgerVars, diskVars
<1>. SUFFICES ASSUME restores = 0
              PROVE  /\ AllRanked'
                     /\ clean' => (RunsAlone /\ StateKnown /\ AllTold /\ Trails)'
  BY <1>1 DEF TrailInv
<1>2. AllRanked'
  BY <1>1, QuietKnows DEF TrailInv
<1>. SUFFICES ASSUME clean, \A other \in Controller : run[other].pc = "idle"
              PROVE  (RunsAlone /\ StateKnown /\ AllTold /\ Trails)'
  BY <1>1, <1>2
<1>3. AllTold' /\ \A s \in Source : state[s] = KnownNow(s)'
  BY <1>1, QuietKnows DEF TrailInv, StateKnown
<1>4. PICK next \in Run : /\ run' = [run EXCEPT ![c] = next]
                          /\ next.pc = "plan" /\ next.memory = state
  <2>1. Idle \in Run
    BY IdleHolds
  <2>2. PICK next \in Run : next = [Idle EXCEPT !.pc = "plan", !.at = clock, !.todo = selected,
                                                !.memory = state]
    BY <2>1 DEF Run, TypeInv
  <2>3. next.pc = "plan" /\ next.memory = state
    BY <2>1, <2>2 DEF Run
  <2>. QED BY <2>2, <2>3 DEF Start
<1>5. run'[c] = next /\ \A d \in Controller \ {c} : run'[d].pc = "idle"
  BY <1>4 DEF TypeInv
<1>6. RunsAlone' /\ StateKnown'
  BY <1>4, <1>5 DEF RunsAlone, StateKnown
<1>7. ASSUME NEW d \in Controller, NEW r \in Run, r = run'[d] PROVE Trail(r)'
  <2>1. CASE d = c
    <3>1. r.pc = "plan" /\ r.memory = state
      BY <1>4, <1>5, <1>7, <2>1
    <3>. QED BY <1>3, <3>1 DEF Trail
  <2>2. CASE d # c
    <3>1. r.pc = "idle"
      BY <1>5, <1>7, <2>2
    <3>. QED BY <3>1 DEF Trail
  <2>. QED BY <2>1, <2>2
<1>. QED BY <1>3, <1>6, <1>7 DEF Trails

\* What is common to the steps that append an event.
LEMMA AppendTrail ==
  ASSUME TypeInv, TrailInv, NEW e \in Entry, AppendEvent(e)
  PROVE  /\ restores = 0 => AllRanked /\ AllRanked'
         /\ restores = 0 /\ e.type # "completed" => \A s \in Source : KnownNow(s)' = KnownNow(s)
         /\ restores = 0 /\ clean /\ e.type \notin {"changed", "unchanged"} => AllTold'
<1>. SUFFICES ASSUME restores = 0
              PROVE  /\ AllRanked /\ AllRanked'
                     /\ e.type # "completed" => \A s \in Source : KnownNow(s)' = KnownNow(s)
                     /\ clean /\ e.type \notin {"changed", "unchanged"} => AllTold'
  OBVIOUS
<1>1. ledger \in Seq(Entry) /\ AllRanked /\ \A s \in Source : s \in Nat
  BY SourceAssumption DEF TypeInv, TrailInv
<1>2. PICK n \in Nat : n = Len(ledger)
  BY <1>1
<1>3. AllRanked' /\ \A s \in Nat : e.type # "completed" => KnownNow(s)' = KnownNow(s)
  BY <1>1, <1>2, AppendCompletes
<1>4. clean /\ e.type \notin {"changed", "unchanged"} => AllTold'
  BY <1>1, OtherEventTold DEF TrailInv
<1>. QED BY <1>1, <1>3, <1>4

LEMMA PlanTrail ==
  ASSUME TypeInv, TrailInv, NEW c \in Controller, Plan(c)
  PROVE  TrailInv'
<1>0. run[c] \in Run /\ run[c].at \in Nat /\ run[c].todo \subseteq Source /\ run[c].pc = "plan"
  BY DEF TypeInv, Run, Plan
<1>1. PICK s \in run[c].todo :
        /\ AppendEvent(Event("planned", s, run[c].at, None, None))
        /\ run' = [run EXCEPT ![c] = [@ EXCEPT !.pc = "fetch", !.src = s,
                                        !.todo = run[c].todo \ {s}, !.prev = run[c].memory[s]]]
  BY DEF Plan
<1>2. s \in Source /\ s \in Nat
  BY <1>0, SourceAssumption
<1>3. PICK e \in Entry : e = Event("planned", s, run[c].at, None, None)
  BY <1>0, <1>2 DEF Event, Entry, Digest
<1>4. AppendEvent(e) /\ e.type = "planned"
  BY <1>1, <1>3 DEF Event
<1>5. PICK next \in Run :
        next = [run[c] EXCEPT !.pc = "fetch", !.src = s, !.todo = run[c].todo \ {s},
                              !.prev = run[c].memory[s]]
  BY <1>0, <1>2 DEF Run, Memory
<1>6. /\ run' = [run EXCEPT ![c] = next] /\ next.pc = "fetch" /\ next.src = s
      /\ next.memory = run[c].memory /\ next.prev = next.memory[s]
  BY <1>0, <1>1, <1>5 DEF Run
<1>7. restores = 0 /\ clean => Trail(next)'
  <2>1. restores = 0 /\ clean => \A x \in Source : next.memory[x] = KnownNow(x)
    BY <1>0, <1>6 DEF TrailInv, Trails, Trail
  <2>2. restores = 0 => \A x \in Source : KnownNow(x)' = KnownNow(x)
    BY <1>4, AppendTrail
  <2>. QED BY <1>6, <2>1, <2>2 DEF Trail
<1>8. UNCHANGED <<clean, restores>>
  BY <1>4 DEF Plan, AppendEvent
<1>9. (restores = 0 => AllRanked') /\ (restores = 0 /\ clean => AllTold')
  BY <1>4, AppendTrail
<1>. QED BY <1>0, <1>6, <1>7, <1>8, <1>9, TrailMoves

LEMMA FetchTrail ==
  ASSUME TypeInv, BackInv, TrailInv, NEW c \in Controller, Fetch(c) \/ FetchFails(c) \/ StoreOutcome(c)
  PROVE  TrailInv'
<1>0. run[c] \in Run /\ site \in [Source -> Content] /\ run[c].pc \in {"fetch", "outcome"}
  BY DEF TypeInv, Fetch, FetchFails, StoreOutcome
<1>1. UNCHANGED <<ledger, clean, restores>>
  BY DEF Fetch, FetchFails, StoreOutcome, ledgerVars
<1>2. PICK next : /\ run' = [run EXCEPT ![c] = next]
                  /\ \E pc \in {"outcome", "record"} : \E g :
                       next = [run[c] EXCEPT !.pc = pc, !.got = g]
  <2>1. CASE Fetch(c)
    BY <2>1 DEF Fetch
  <2>2. CASE FetchFails(c)
    BY <2>2 DEF FetchFails
  <2>3. CASE StoreOutcome(c)
    <3>1. run' = [run EXCEPT ![c] = [run[c] EXCEPT !.pc = "record"]]
      BY <2>3 DEF StoreOutcome, Move
    <3>2. [run[c] EXCEPT !.pc = "record"] = [run[c] EXCEPT !.pc = "record", !.got = run[c].got]
      BY <1>0 DEF Run
    <3>. QED BY <3>1, <3>2
  <2>. QED BY <2>1, <2>2, <2>3
<1>3. /\ next.pc \in {"outcome", "record"} /\ next.src = run[c].src
      /\ next.prev = run[c].prev /\ next.memory = run[c].memory
  BY <1>0, <1>2 DEF Run
<1>4. restores = 0 /\ clean => Trail(next)
  BY <1>0, <1>3 DEF TrailInv, Trails, Trail
<1>5. run' \in [Controller -> Run]
  BY FetchBacked, OutcomeBacked DEF TypeInv
<1>6. next \in Run
  BY <1>2, <1>5 DEF TypeInv
<1>7. restores = 0 /\ clean => AllTold' /\ Trail(next)'
  BY <1>1, <1>4, QuietKnows DEF TrailInv
<1>8. restores = 0 => AllRanked'
  BY <1>1, QuietKnows DEF TrailInv
<1>. QED BY <1>0, <1>1, <1>2, <1>3, <1>6, <1>7, <1>8, TrailMoves

LEMMA FailedTrail ==
  ASSUME TypeInv, BackInv, TrailInv, NEW c \in Controller, RecordFailed(c)
  PROVE  TrailInv'
<1>0. /\ run[c] \in Run /\ run[c].at \in Nat /\ run[c].prev \in Digest
      /\ run[c].pc = "record" /\ run[c].src \in Nat
  BY DEF TypeInv, Run, RecordFailed
<1>1. PICK e \in Entry : e = Event("failed", run[c].src, run[c].at, run[c].prev, None)
  BY <1>0 DEF Event, Entry, Digest
<1>2. AppendEvent(e) /\ e.type = "failed"
  BY <1>1 DEF RecordFailed, Event
<1>3. PICK pc \in {"plan", "write"} : pc = NextSource(c)
  BY DEF NextSource
<1>4. PICK next \in Run : next = [run[c] EXCEPT !.pc = pc]
  BY <1>0 DEF Run
<1>5. /\ run' = [run EXCEPT ![c] = next] /\ next.pc \in {"plan", "write"}
      /\ next.memory = run[c].memory
  BY <1>0, <1>3, <1>4 DEF RecordFailed, Move, Run
<1>6. restores = 0 /\ clean => Trail(next)'
  <2>1. restores = 0 /\ clean => \A x \in Source : next.memory[x] = KnownNow(x)
    BY <1>0, <1>5 DEF TrailInv, Trails, Trail
  <2>2. restores = 0 => \A x \in Source : KnownNow(x)' = KnownNow(x)
    BY <1>2, AppendTrail
  <2>. QED BY <1>5, <2>1, <2>2 DEF Trail
<1>7. UNCHANGED <<clean, restores>>
  BY <1>2 DEF RecordFailed, AppendEvent
<1>8. (restores = 0 => AllRanked') /\ (restores = 0 /\ clean => AllTold')
  BY <1>2, AppendTrail
<1>. QED BY <1>0, <1>5, <1>6, <1>7, <1>8, TrailMoves

LEMMA CompletedTrail ==
  ASSUME TypeInv, BackInv, TrailInv, NEW c \in Controller, RecordCompleted(c)
  PROVE  TrailInv'
<1>0. /\ run[c] \in Run /\ run[c].at \in Nat /\ run[c].prev \in Digest
      /\ run[c].pc = "record" /\ run[c].got \in Digest /\ run[c].got # None
  BY DEF TypeInv, Run, RecordCompleted
<1>1. PICK s \in Source : s = run[c].src /\ s \in Nat
  BY <1>0, SourceAssumption DEF BackInv, Left
<1>2. PICK e \in Entry : e = Event("completed", s, run[c].at, run[c].prev, run[c].got)
  BY <1>0, <1>1 DEF Event, Entry
<1>3. AppendEvent(e) /\ e.type = "completed" /\ e.source = s /\ e.got = run[c].got
  BY <1>1, <1>2 DEF RecordCompleted, Event
<1>4. PICK next \in Run : next = [run[c] EXCEPT !.pc = "change"]
  BY <1>0 DEF Run
<1>5. /\ run' = [run EXCEPT ![c] = next] /\ next.pc = "change" /\ next.src = s
      /\ next.memory = run[c].memory /\ next.got = run[c].got /\ next.prev = run[c].prev
  BY <1>0, <1>1, <1>4 DEF RecordCompleted, Move, Run
<1>6. ASSUME restores = 0, clean PROVE Trail(next)'
  <2>1. PICK n \in Nat : n = Len(ledger)
    BY DEF TypeInv
  <2>2. /\ \A x \in Source : next.memory[x] = KnownNow(x)
        /\ next.prev = next.memory[s]
    BY <1>0, <1>1, <1>5, <1>6 DEF TrailInv, Trails, Trail
  <2>3. ledger \in Seq(Entry) /\ AllRanked /\ \A x \in Source : x \in Nat
    BY <1>6, SourceAssumption DEF TypeInv, TrailInv
  <2>4. /\ Len(ledger') = n + 1 /\ ledger'[n + 1] = e
        /\ \A x \in Nat, k \in 1..(n + 1) : Known(x, k)' = Known(x, k)
    BY <1>3, <2>1, <2>3, AppendKnows
  <2>5. /\ \A x \in Nat : x # s => KnownNow(x)' = KnownNow(x)
        /\ Completions(s, n + 2)' # {} /\ Latest(Completions(s, n + 2)') = n + 1
    BY <1>3, <2>1, <2>3, AppendCompletes
  <2>6. next.prev = Known(s, n + 1)'
    <3>1. n + 1 \in 1..(n + 1) /\ Known(s, n + 1)' = Known(s, n + 1)
      BY <1>1, <2>4
    <3>. QED BY <1>1, <2>1, <2>2, <3>1 DEF KnownNow
  <2>7. \A x \in Source \ {s} : next.memory[x] = KnownNow(x)'
    BY <2>2, <2>3, <2>5
  <2>8. PICK k : k = Len(ledger') + 1 /\ k = n + 2
    BY <2>4
  <2>9. Completions(s, k)' # {} /\ Latest(Completions(s, k)') = n + 1
    BY <2>5, <2>8
  <2>10. /\ Completions(s, Len(ledger) + 1)' # {}
         /\ Latest(Completions(s, Len(ledger) + 1)') = n + 1
    BY <2>8, <2>9 DEF Completions
  <2>. QED BY <1>3, <1>5, <2>4, <2>6, <2>7, <2>10 DEF Trail
<1>7. UNCHANGED <<clean, restores>>
  BY <1>3 DEF RecordCompleted, AppendEvent
<1>8. (restores = 0 => AllRanked') /\ (restores = 0 /\ clean => AllTold')
  BY <1>3, AppendTrail
<1>. QED BY <1>0, <1>5, <1>6, <1>7, <1>8, TrailMoves

LEMMA ChangeTrail ==
  ASSUME TypeInv, BackInv, TrailInv, NEW c \in Controller, RecordChange(c)
  PROVE  TrailInv'
<1>0. /\ run[c] \in Run /\ run[c].at \in Nat /\ run[c].prev \in Digest
      /\ run[c].pc = "change" /\ run[c].memory \in Memory
  BY DEF TypeInv, Run, RecordChange
<1>1. PICK s \in Source : s = run[c].src /\ s \in Nat
  BY <1>0, SourceAssumption DEF BackInv, Left
<1>2. PICK g \in Content : g = run[c].got /\ g # None
  BY <1>0, <1>1, SourceAssumption DEF BackInv, Left, Run, Digest
<1>3. PICK type \in {"changed", "unchanged"} : type = Change(run[c].prev, g)
  BY DEF Change
<1>4. PICK e \in Entry : e = Event(type, s, run[c].at, run[c].prev, g)
  BY <1>0, <1>1, <1>2 DEF Event, Entry, Digest
<1>5. AppendEvent(e) /\ e.type = type /\ e.source = s /\ e.got = g
  BY <1>1, <1>2, <1>3, <1>4 DEF RecordChange, Event
<1>6. PICK pc \in {"plan", "write"} : pc = NextSource(c)
  BY DEF NextSource
<1>7. PICK next \in Run : next = [run[c] EXCEPT !.pc = pc, !.memory[s] = g]
  BY <1>0, <1>1, <1>2 DEF Run, Memory, Digest
<1>8. run' = [run EXCEPT ![c] = next]
  BY <1>1, <1>2, <1>6, <1>7 DEF RecordChange
<1>9. /\ next.pc \in {"plan", "write"} /\ next.memory[s] = g
      /\ \A x \in Source \ {s} : next.memory[x] = run[c].memory[x]
  BY <1>0, <1>7 DEF Run, Memory
<1>10. UNCHANGED <<clean, restores>>
  BY <1>5 DEF RecordChange, AppendEvent
<1>11. ASSUME restores = 0, clean PROVE AllTold' /\ Trail(next)'
  <2>1. PICK n \in Nat : n = Len(ledger)
    BY DEF TypeInv
  <2>2. ledger \in Seq(Entry) /\ AllRanked /\ AllTold /\ \A x \in Source : x \in Nat
    BY <1>11, SourceAssumption DEF TypeInv, TrailInv
  <2>3. /\ Len(ledger') = n + 1 /\ ledger'[n + 1] = e
        /\ \A i \in 1..n : ledger'[i] = ledger[i]
        /\ \A x \in Nat, k \in 1..(n + 1) :
             Completions(x, k)' = Completions(x, k) /\ Known(x, k)' = Known(x, k)
    BY <1>5, <2>1, <2>2, AppendKnows
  <2>4. \A x \in Nat : KnownNow(x)' = KnownNow(x)
    BY <1>5, <2>1, <2>2, AppendCompletes
  <2>5. PICK done \in SUBSET (1..n) : done = Completions(s, n + 1)
    <3>1. (n + 1) - 1 = n
      OBVIOUS
    <3>2. Completions(s, n + 1) \subseteq 1..n
      BY <3>1 DEF Completions
    <3>. QED BY <3>2
  <2>6. PICK i \in 1..n : i = Latest(done) /\ done # {}
    <3>1. done # {}
      BY <1>0, <1>1, <1>11, <2>1, <2>5 DEF TrailInv, Trails, Trail
    <3>2. n + 1 \in Nat \ {0} /\ n + 1 \in 1..(n + 1)
      OBVIOUS
    <3>3. Ranked(s, n + 1)
      BY <1>1, <2>1, <2>2, <3>2 DEF AllRanked
    <3>. QED BY <2>5, <3>1, <3>2, <3>3, CompletionsBelow
  <2>7. /\ ledger[i].got = g /\ run[c].prev = Known(s, i)
        /\ \A x \in Source \ {s} : run[c].memory[x] = KnownNow(x)
    BY <1>0, <1>1, <1>2, <1>11, <2>1, <2>5, <2>6 DEF TrailInv, Trails, Trail
  <2>8. KnownNow(s) = g
    BY <2>1, <2>5, <2>6, <2>7 DEF KnownNow, Known
  <2>9. Trail(next)'
    BY <1>9, <2>2, <2>4, <2>7, <2>8 DEF Trail
  <2>10. ToldRight(n + 1)'
    <3>1. done = Completions(s, n + 1)' /\ Known(s, i)' = Known(s, i) /\ ledger'[i] = ledger[i]
      <4>1. n + 1 \in 1..(n + 1) /\ i \in 1..(n + 1)
        OBVIOUS
      <4>. QED BY <1>1, <2>3, <2>5, <4>1
    <3>2. type = "unchanged" <=> Known(s, i)' = g
      BY <1>3, <2>7, <3>1 DEF Change
    <3>3. PICK k : k = n + 1
      OBVIOUS
    <3>4. /\ ledger'[k].source = s /\ ledger'[k].got = g /\ ledger'[k].type = type
          /\ done = Completions(s, k)'
      BY <1>5, <2>3, <3>1, <3>3
    <3>5. ToldRight(k)'
      BY <1>2, <2>6, <2>7, <3>1, <3>2, <3>4 DEF ToldRight
    <3>. QED BY <3>3, <3>5
  <2>11. ASSUME NEW k \in 1..n, ledger'[k].type \in {"changed", "unchanged"}
         PROVE  ToldRight(k)'
    <3>1. ToldRight(k)
      BY <2>1, <2>2, <2>3, <2>11 DEF AllTold, Changes
    <3>. QED BY <1>5, <2>1, <2>2, <3>1, AppendKeepsTold
  <2>12. \A k \in 1..(n + 1) : k \in 1..n \/ k = n + 1
    OBVIOUS
  <2>13. AllTold'
    BY <2>3, <2>10, <2>11, <2>12 DEF AllTold, Changes
  <2>. QED BY <2>9, <2>13
<1>12. restores = 0 => AllRanked'
  BY <1>5, AppendTrail
<1>. QED BY <1>0, <1>8, <1>9, <1>10, <1>11, <1>12, TrailMoves

\* The cycle ends, in order or not.
LEMMA EndTrail ==
  ASSUME TypeInv, TrailInv, NEW c \in Controller, WriteState(c) \/ Refused(c) \/ Crash(c)
  PROVE  TrailInv'
<1>1. /\ UNCHANGED <<ledger, restores>> /\ run' = [run EXCEPT ![c] = Idle]
      /\ run[c].pc # "idle"
  BY DEF WriteState, Refused, Crash, Ends, ledgerVars
<1>2. AllRanked => AllRanked'
  BY <1>1, QuietKnows
<1>. SUFFICES ASSUME restores = 0, clean'
              PROVE  (RunsAlone /\ StateKnown /\ AllTold /\ Trails)'
  BY <1>1, <1>2 DEF TrailInv
<1>3. clean /\ state' = run[c].memory /\ run[c].pc # "change"
  BY DEF WriteState, Refused, Crash, Ends, diskVars
<1>4. RunsAlone /\ Trails /\ AllTold /\ run[c] \in Run /\ run \in [Controller -> Run]
  BY <1>3 DEF TrailInv, TypeInv
<1>5. \A s \in Source : state'[s] = KnownNow(s)
  BY <1>1, <1>3, <1>4 DEF Trails, Trail
<1>6. \A d \in Controller : run'[d].pc = "idle"
  BY <1>1, <1>4 DEF RunsAlone, Idle
<1>7. AllTold' /\ \A s : KnownNow(s)' = KnownNow(s)
  BY <1>1, <1>4, QuietKnows
<1>8. RunsAlone' /\ StateKnown'
  BY <1>5, <1>6, <1>7 DEF RunsAlone, StateKnown
<1>9. Trails'
  <2>. SUFFICES ASSUME NEW d \in Controller, NEW r \in Run, r = run'[d] PROVE Trail(r)'
    BY DEF Trails
  <2>. QED BY <1>6 DEF Trail
<1>. QED BY <1>7, <1>8, <1>9

LEMMA QuietTrail ==
  ASSUME TrailInv, UNCHANGED <<ledger, restores, run, state, clean>>
  PROVE  TrailInv'
<1>1. /\ \A s : KnownNow(s)' = KnownNow(s)
      /\ AllRanked => AllRanked'
      /\ AllTold => AllTold'
      /\ \A r : Trail(r) => Trail(r)'
  BY QuietKnows
<1>2. (StateKnown => StateKnown') /\ (RunsAlone => RunsAlone') /\ (Trails => Trails')
  BY <1>1 DEF StateKnown, RunsAlone, Trails
<1>. QED BY <1>1, <1>2 DEF TrailInv

LEMMA TrailStep == TypeInv /\ BackInv /\ TrailInv /\ [Next]_vars => TrailInv'
<1>. SUFFICES ASSUME TypeInv, BackInv, TrailInv, [Next]_vars PROVE TrailInv'
  OBVIOUS
<1>1. ASSUME NEW c \in Controller, Cycle(c) PROVE TrailInv'
  BY <1>1, StartTrail, PlanTrail, FetchTrail, FailedTrail, CompletedTrail, ChangeTrail, EndTrail
    DEF Cycle
<1>2. CASE LedgerEnvironment /\ UNCHANGED <<diskVars, envVars, run, work, clean>>
  <2>1. CASE Tick
    BY <1>2, <2>1, QuietTrail DEF Tick, diskVars
  <2>2. ASSUME NEW length \in 0..Len(ledger), Restore(length) PROVE TrailInv'
    <3>1. restores' # 0
      BY <2>2 DEF Restore, TypeInv
    <3>. QED BY <3>1 DEF TrailInv
  <2>. QED BY <1>2, <2>1, <2>2 DEF LedgerEnvironment
<1>3. ASSUME NEW s \in Source, NEW content \in Content, Publish(s, content)
      PROVE  TrailInv'
  BY <1>3, QuietTrail DEF Publish, ledgerVars, diskVars
<1>4. CASE WriteBack \/ UNCHANGED vars
  BY <1>4, QuietTrail DEF WriteBack, vars, ledgerVars, diskVars
<1>5. ASSUME NEW gone \in SUBSET (evidence \ flushed), NEW half \in BOOLEAN,
             PowerLoss(gone, half)
      PROVE  TrailInv'
  <2>1. UNCHANGED <<ledger, restores>> /\ ~clean'
    BY <1>5 DEF PowerLoss
  <2>. QED BY <2>1, QuietKnows DEF TrailInv
<1>. QED BY <1>1, <1>2, <1>3, <1>4, <1>5 DEF Next

LEMMA TrailInit == Init => TrailInv
<1>. SUFFICES ASSUME Init PROVE TrailInv
  OBVIOUS
<1>1. /\ ledger = <<>> /\ run = [c \in Controller |-> Idle] /\ state = [s \in Source |-> None]
      /\ Idle.pc = "idle"
  BY DEF Init, LedgerInit, Idle
<1>2. Len(ledger) = 0 /\ \A s, k : k = 1 => Completions(s, k) = {}
  BY <1>1 DEF Completions
<1>3. AllRanked /\ AllTold
  BY <1>2 DEF AllRanked, Ranked, AllTold, Changes
<1>4. StateKnown /\ RunsAlone
  BY <1>1, <1>2 DEF StateKnown, RunsAlone, KnownNow, Known
<1>5. Trails
  BY <1>1 DEF Trails, Trail
<1>. QED BY <1>3, <1>4, <1>5 DEF TrailInv

\* Nothing is told as unchanged that was not told as a change before.
AllAnnounced ==
  restores = 0 => \A k \in 1..Len(ledger) :
      ledger[k].type = "unchanged" => Announced(ledger[k].source, ledger[k].got, k)

\* An event is appended that is not "unchanged", or is of content whose change was told.
LEMMA AppendAnnounces ==
  ASSUME TypeInv, AllAnnounced, NEW e \in Entry, AppendEvent(e),
         restores = 0 /\ e.type = "unchanged" => Told(e.source, e.got)
  PROVE  AllAnnounced'
<1>. SUFFICES ASSUME restores = 0
              PROVE  \A k \in 1..Len(ledger') : ledger'[k].type = "unchanged" =>
                         Announced(ledger[k].source, ledger[k].got, k)'
  BY DEF AllAnnounced, AppendEvent
<1>1. PICK n \in Nat : n = Len(ledger)
  BY DEF TypeInv
<1>2. /\ Len(ledger') = n + 1 /\ ledger'[n + 1] = e
      /\ \A i \in 1..n : ledger'[i] = ledger[i]
  BY <1>1 DEF AppendEvent, TypeInv
<1>3. ASSUME NEW k \in 1..n, ledger'[k].type = "unchanged"
      PROVE  Announced(ledger[k].source, ledger[k].got, k)'
  <2>1. ledger'[k] = ledger[k] /\ \A i \in 1..(k - 1) : ledger'[i] = ledger[i]
    BY <1>2
  <2>2. Announced(ledger[k].source, ledger[k].got, k)
    BY <1>1, <1>3, <2>1 DEF AllAnnounced
  <2>. QED BY <2>1, <2>2 DEF Announced
<1>4. ASSUME e.type = "unchanged"
      PROVE  Announced(ledger[n + 1].source, ledger[n + 1].got, n + 1)'
  <2>1. PICK i \in 1..n : /\ ledger[i].type = "changed"
                          /\ ledger[i].source = e.source /\ ledger[i].got = e.got
    BY <1>1, <1>4 DEF Told
  <2>2. i \in 1..((n + 1) - 1) /\ ledger'[i] = ledger[i]
    BY <1>2
  <2>. QED BY <1>2, <2>1, <2>2 DEF Announced
<1>. QED BY <1>2, <1>3, <1>4

LEMMA AnnounceStep ==
  TypeInv /\ BackInv /\ PrevInv /\ AllAnnounced /\ [Next]_vars => AllAnnounced'
<1>. SUFFICES ASSUME TypeInv, BackInv, PrevInv, AllAnnounced, [Next]_vars PROVE AllAnnounced'
  OBVIOUS
<1>1. CASE UNCHANGED <<ledger, restores>>
  BY <1>1 DEF AllAnnounced, Announced
<1>2. ASSUME NEW type \in {"planned", "failed", "completed"}, NEW s \in Nat, NEW at \in Nat,
             NEW prev \in Digest, NEW got \in Digest,
             AppendEvent(Event(type, s, at, prev, got))
      PROVE  AllAnnounced'
  <2>0. Event(type, s, at, prev, got) \in Entry /\ Event(type, s, at, prev, got).type = type
    BY DEF Event, Entry
  <2>1. PICK e \in Entry : e = Event(type, s, at, prev, got) /\ e.type # "unchanged"
    BY <2>0
  <2>. QED BY <1>2, <2>1, AppendAnnounces
<1>3. ASSUME NEW c \in Controller, Cycle(c) PROVE AllAnnounced'
  <2>0. /\ run[c].at \in Nat /\ run[c].src \in Nat /\ run[c].prev \in Digest
        /\ run[c].got \in Digest /\ run[c].todo \subseteq Source /\ None \in Digest
    BY DEF TypeInv, Run, Digest
  <2>1. CASE Plan(c)
    <3>1. PICK s \in run[c].todo : AppendEvent(Event("planned", s, run[c].at, None, None))
      BY <2>1 DEF Plan
    <3>. QED BY <1>2, <2>0, <3>1, SourceAssumption
  <2>2. CASE RecordFailed(c)
    <3>1. None \in Digest /\ "failed" \in {"planned", "failed", "completed"}
      BY <2>0
    <3>. QED BY <1>2, <2>0, <2>2, <3>1 DEF RecordFailed
  <2>3. CASE RecordCompleted(c)
    BY <1>2, <2>0, <2>3 DEF RecordCompleted
  <2>4. CASE RecordChange(c)
    <3>1. /\ run[c].src \in Source /\ run[c].got # None
          /\ run[c].prev = run[c].memory[run[c].src]
      BY <2>4 DEF RecordChange, BackInv, Left, PrevInv
    <3>2. PICK type \in {"changed", "unchanged"} : type = Change(run[c].prev, run[c].got)
      BY DEF Change
    <3>3. PICK e \in Entry : e = Event(type, run[c].src, run[c].at, run[c].prev, run[c].got)
      BY <2>0 DEF Event, Entry
    <3>4. /\ AppendEvent(e) /\ e.type = type
          /\ e.source = run[c].src /\ e.got = run[c].got
      BY <2>4, <3>2, <3>3 DEF RecordChange, Event
    <3>5. restores = 0 /\ type = "unchanged" => Told(run[c].src, run[c].got)
      <4>1. type = "unchanged" => run[c].memory[run[c].src] = run[c].got
        BY <3>1, <3>2 DEF Change
      <4>. QED BY <3>1, <4>1 DEF BackInv, MemoryBacked, Backed
    <3>. QED BY <3>4, <3>5, AppendAnnounces
  <2>5. ASSUME \/ \E selected \in SUBSET Source \ {{}} : Start(c, selected)
               \/ Fetch(c) \/ FetchFails(c) \/ StoreOutcome(c) \/ WriteState(c)
               \/ Refused(c) \/ Crash(c)
        PROVE  UNCHANGED <<ledger, restores>>
    BY <2>5 DEF Start, Fetch, FetchFails, StoreOutcome, WriteState, Refused, Crash, ledgerVars
  <2>. QED BY <1>1, <1>3, <2>1, <2>2, <2>3, <2>4, <2>5 DEF Cycle
<1>4. CASE LedgerEnvironment
  <2>1. CASE Tick
    BY <1>1, <2>1 DEF Tick
  <2>2. ASSUME NEW length \in 0..Len(ledger), Restore(length) PROVE AllAnnounced'
    <3>1. restores' # 0
      BY <2>2 DEF Restore, TypeInv
    <3>. QED BY <3>1 DEF AllAnnounced
  <2>. QED BY <1>4, <2>1, <2>2 DEF LedgerEnvironment
<1>5. ASSUME NEW s \in Source, NEW content \in Content, Publish(s, content)
      PROVE  UNCHANGED <<ledger, restores>>
  BY <1>5 DEF Publish, ledgerVars
<1>6. WriteBack \/ UNCHANGED vars => UNCHANGED <<ledger, restores>>
  BY DEF WriteBack, vars, ledgerVars
<1>7. \A gone \in SUBSET (evidence \ flushed), half \in BOOLEAN :
          PowerLoss(gone, half) => UNCHANGED <<ledger, restores>>
  BY DEF PowerLoss
<1>. QED BY <1>1, <1>3, <1>4, <1>5, <1>6, <1>7 DEF Next

\* Whatever is cut short and whoever runs at once, no content is told as unchanged that
\* was never told as a change; and while every cycle ran alone and wrote its state, the
\* audit trail tells each change of a source and no other (acquisition_controller.py:
\* 188-198, 253-261).
THEOREM AuditTellsChanges == Spec => []ChangesTold
<1>1. ASSUME TypeInv, TrailInv, AllAnnounced PROVE ChangesTold
  <2>. SUFFICES ASSUME restores = 0, NEW k \in 1..Len(ledger),
                       ledger[k].type \in {"changed", "unchanged"}
                PROVE  LET s == ledger[k].source
                           reported == Latest(Completions(s, k))
                           before == Completions(s, reported)
                       IN  /\ ledger[k].type = "unchanged" => Announced(s, ledger[k].got, k)
                           /\ clean => /\ Completions(s, k) # {}
                                       /\ ledger[reported].got = ledger[k].got
                                       /\ ledger[k].type = "unchanged" <=>
                                            before # {} /\ ledger[Latest(before)].got = ledger[k].got
    BY DEF ChangesTold
  <2>1. clean => ToldRight(k)
    BY <1>1 DEF TrailInv, AllTold, Changes
  <2>2. ledger[k].type = "unchanged" => Announced(ledger[k].source, ledger[k].got, k)
    BY <1>1 DEF AllAnnounced
  <2>. QED BY <2>1, <2>2 DEF ToldRight, Known
<1>2. TypeInv /\ TrailInv /\ AllAnnounced => ChangesTold
  BY <1>1
<1>3. Init => AllAnnounced
  BY DEF Init, LedgerInit, AllAnnounced
<1>. QED BY <1>2, <1>3, TrailInit, TrailStep, BackInit, BackStep, PrevStep, AnnounceStep, PTL DEF Spec

------------------------------------------------------------------------------
(* The chain of anchors. *)

Line == [subject : Subject, at : Nat]
Anchor == [number : Nat, prefix : Seq(Line), previous : Nat, created : Nat]
Receipt == [number : Nat, prefix : Seq(Line), previous : Nat, signed : Nat,
            generation : Generation]

AnchorTypes ==
  /\ clock \in Nat /\ restores \in Nat /\ torn \in BOOLEAN
  /\ forked \in BOOLEAN /\ stale \in BOOLEAN
  /\ ledger \in Seq(Line)
  /\ checkpoint \in [Requester -> Anchor]
  /\ receipts \in Seq(Receipt)

\* A checkpoint that was prepared builds on the receipt it names: it has the next
\* number, and anchors more of the ledger.
BuildsOn(a, previous) ==
  /\ previous = 0 => a.number = 1
  /\ previous # 0 => /\ a.number = receipts[previous].number + 1
                     /\ Len(receipts[previous].prefix) < Len(a.prefix)

CheckpointsBuild ==
  \A r \in Requester : checkpoint[r] # NoCheckpoint =>
    /\ checkpoint[r].previous \in 0..Len(receipts)
    /\ BuildsOn(checkpoint[r], checkpoint[r].previous)

\* Until two requesters build on one receipt, receipts are numbered in the order of
\* signing; from then on two of them have the same number.
Numbered ==
  /\ ~forked => \A i \in 1..Len(receipts) :
       /\ receipts[i].number = i /\ receipts[i].previous = i - 1
       /\ BuildsOn(receipts[i], i - 1)
  /\ forked => \E i, j \in 1..Len(receipts) : i # j /\ receipts[i].number = receipts[j].number

\* Time does not go back along the receipts, nor the generation until one is
\* outdated; then it does so between two neighbours.
InTime ==
  /\ \A i \in 1..Len(receipts) : receipts[i].signed <= clock
  /\ \A i, j \in 1..Len(receipts) : i < j => receipts[i].signed <= receipts[j].signed

Outdated ==
  /\ ~stale => \A i, j \in 1..Len(receipts) : i < j =>
                 receipts[i].generation <= receipts[j].generation
  /\ stale => \E i \in 1..Len(receipts) : /\ i + 1 \in 1..Len(receipts)
                                          /\ receipts[i + 1].generation < receipts[i].generation

AnchorInv == AnchorTypes /\ CheckpointsBuild /\ Numbered /\ InTime /\ Outdated

LEMMA ReceiptFields ==
  \A x \in Receipt : /\ x.number \in Nat /\ x.previous \in Nat /\ x.signed \in Nat
                     /\ x.generation \in Nat /\ Len(x.prefix) \in Nat
BY DEF Receipt, Generation

\* The receipts stay, and so does what is known of them and of the checkpoints.
LEMMA ReceiptsStay ==
  ASSUME AnchorInv, UNCHANGED <<receipts, forked, stale>>, clock' \in Nat, clock <= clock'
  PROVE  /\ Numbered' /\ InTime' /\ Outdated'
         /\ UNCHANGED checkpoint => CheckpointsBuild'
<1>1. receipts \in Seq(Receipt) /\ clock \in Nat
  BY DEF AnchorInv, AnchorTypes
<1>2. Numbered' /\ Outdated' /\ (UNCHANGED checkpoint => CheckpointsBuild')
  BY DEF AnchorInv, Numbered, Outdated, CheckpointsBuild, BuildsOn
<1>3. InTime'
  <2>1. \A i \in 1..Len(receipts) : receipts[i].signed \in Nat
    BY <1>1, ReceiptFields
  <2>. QED BY <1>1, <2>1 DEF AnchorInv, InTime
<1>. QED BY <1>2, <1>3

LEMMA PrepareStep ==
  ASSUME AnchorInv, NEW r \in Requester, PrepareCheckpoint(r)
  PROVE  AnchorInv'
<1>1. /\ ledger \in Seq(Line) /\ clock \in Nat /\ receipts \in Seq(Receipt)
      /\ checkpoint \in [Requester -> Anchor] /\ Len(receipts) \in Nat
  BY DEF AnchorInv, AnchorTypes
<1>2. UNCHANGED <<clock, ledger, torn, restores, receipts, forked, stale>>
  BY DEF PrepareCheckpoint, ledgerVars
<1>3. PICK number : number = IF receipts = <<>> THEN 1 ELSE Last(receipts).number + 1
  OBVIOUS
<1>4. /\ receipts = <<>> => Len(receipts) = 0 /\ number = 1
      /\ receipts # <<>> => /\ Len(receipts) \in 1..Len(receipts) /\ Len(receipts) # 0
                            /\ number = receipts[Len(receipts)].number + 1
                            /\ Len(receipts[Len(receipts)].prefix) < Len(ledger)
      /\ number \in Nat
  <2>1. CASE receipts = <<>>
    BY <1>3, <2>1
  <2>2. CASE receipts # <<>>
    <3>1. Len(receipts) \in 1..Len(receipts) /\ Len(receipts) # 0
      BY <1>1, <2>2
    <3>2. receipts[Len(receipts)] \in Receipt
      BY <1>1, <3>1
    <3>3. number = receipts[Len(receipts)].number + 1
      BY <1>3, <2>2 DEF Last
    <3>4. Len(receipts[Len(receipts)].prefix) \in Nat
      BY <3>2 DEF Receipt
    <3>5. Len(receipts[Len(receipts)].prefix) < Len(ledger)
      BY <1>1, <2>2, <3>4 DEF PrepareCheckpoint, Last
    <3>. QED BY <2>2, <3>1, <3>2, <3>3, <3>5 DEF Receipt
  <2>. QED BY <2>1, <2>2
<1>5. PICK next : next = [number |-> number, prefix |-> ledger, previous |-> Len(receipts),
                          created |-> clock]
  OBVIOUS
<1>6. next \in Anchor /\ checkpoint' = [checkpoint EXCEPT ![r] = next]
  BY <1>1, <1>3, <1>4, <1>5 DEF PrepareCheckpoint, Anchor
<1>7. next.previous = Len(receipts) /\ next.number = number /\ next.prefix = ledger
  BY <1>5
<1>8. BuildsOn(next, next.previous)
  BY <1>4, <1>7 DEF BuildsOn
<1>9. CheckpointsBuild'
  <2>. SUFFICES ASSUME NEW p \in Requester, checkpoint'[p] # NoCheckpoint
                PROVE  /\ checkpoint'[p].previous \in 0..Len(receipts)
                       /\ BuildsOn(checkpoint'[p], checkpoint'[p].previous)
    BY <1>2 DEF CheckpointsBuild, BuildsOn
  <2>1. CASE p = r
    BY <1>1, <1>6, <1>7, <1>8, <2>1
  <2>2. CASE p # r
    BY <1>1, <1>6, <2>2 DEF AnchorInv, CheckpointsBuild
  <2>. QED BY <2>1, <2>2
<1>10. AnchorTypes'
  BY <1>1, <1>2, <1>6 DEF AnchorInv, AnchorTypes
<1>. QED BY <1>1, <1>2, <1>9, <1>10, ReceiptsStay DEF AnchorInv

LEMMA SignStep ==
  ASSUME AnchorInv, NEW r \in Requester, NEW generation \in Generation,
         WitnessSigns(r, generation)
  PROVE  AnchorInv'
<1>0. PICK n \in Nat : n = Len(receipts)
  BY DEF AnchorInv, AnchorTypes
<1>1. /\ clock \in Nat /\ receipts \in Seq(Receipt) /\ n \in Nat
      /\ checkpoint \in [Requester -> Anchor] /\ checkpoint[r] \in Anchor
      /\ forked \in BOOLEAN /\ stale \in BOOLEAN /\ \A i \in 1..n : receipts[i] \in Receipt
  BY <1>0 DEF AnchorInv, AnchorTypes
<1>2. UNCHANGED <<clock, ledger, torn, restores>>
  BY DEF WitnessSigns, ledgerVars
<1>3. PICK a \in Anchor : /\ a = checkpoint[r] /\ a.previous \in 0..n
                          /\ BuildsOn(a, a.previous)
  BY <1>0, <1>1 DEF AnchorInv, CheckpointsBuild, WitnessSigns
<1>4. PICK next : next = [number |-> a.number, prefix |-> a.prefix, previous |-> a.previous,
                          signed |-> clock, generation |-> generation]
  OBVIOUS
<1>5. /\ next \in Receipt /\ next.number = a.number /\ next.prefix = a.prefix
      /\ next.previous = a.previous /\ next.signed = clock /\ next.generation = generation
  BY <1>1, <1>4 DEF Receipt, Anchor
<1>6. /\ receipts' = Append(receipts, next)
      /\ checkpoint' = [checkpoint EXCEPT ![r] = NoCheckpoint]
      /\ forked' = (forked \/ a.previous # n)
      /\ stale' = (stale \/ \E i \in 1..n : receipts[i].generation > generation)
  BY <1>0, <1>3, <1>4 DEF WitnessSigns
<1>7. /\ receipts' \in Seq(Receipt) /\ Len(receipts') = n + 1 /\ receipts'[n + 1] = next
      /\ \A i \in 1..n : receipts'[i] = receipts[i]
  BY <1>0, <1>1, <1>5, <1>6
<1>8. \A i \in 1..(n + 1) : i \in 1..n \/ i = n + 1
  BY <1>1
<1>9. AnchorTypes'
  <2>1. <<>> \in Seq(Line)
    OBVIOUS
  <2>2. NoCheckpoint \in Anchor
    BY <2>1 DEF NoCheckpoint, Anchor
  <2>3. checkpoint' \in [Requester -> Anchor]
    BY <1>1, <1>6, <2>2
  <2>4. forked' \in BOOLEAN /\ stale' \in BOOLEAN
    BY <1>6
  <2>. QED BY <1>1, <1>2, <1>7, <2>3, <2>4 DEF AnchorInv, AnchorTypes
<1>10. CheckpointsBuild'
  <2>. SUFFICES ASSUME NEW p \in Requester, checkpoint'[p] # NoCheckpoint
                PROVE  /\ checkpoint'[p].previous \in 0..Len(receipts')
                       /\ BuildsOn(checkpoint[p], checkpoint[p].previous)'
    BY DEF CheckpointsBuild
  <2>1. p # r /\ checkpoint'[p] = checkpoint[p]
    BY <1>1, <1>6
  <2>2. PICK b \in Anchor : /\ b = checkpoint[p] /\ b.previous \in 0..n
                            /\ BuildsOn(b, b.previous)
    BY <1>0, <1>1, <2>1 DEF AnchorInv, CheckpointsBuild
  <2>3. b.previous # 0 => receipts'[b.previous] = receipts[b.previous]
    BY <1>1, <1>7, <2>2
  <2>. QED BY <1>1, <1>7, <2>1, <2>2, <2>3 DEF BuildsOn
<1>11. Numbered'
  <2>1. ASSUME ~forked'
        PROVE  \A i \in 1..Len(receipts') :
                 /\ receipts'[i].number = i /\ receipts'[i].previous = i - 1
                 /\ BuildsOn(receipts[i], i - 1)'
    <3>1. ~forked /\ a.previous = n
      BY <1>1, <1>6, <2>1
    <3>2. \A i \in 1..n : /\ receipts[i].number = i /\ receipts[i].previous = i - 1
                          /\ BuildsOn(receipts[i], i - 1)
      BY <1>0, <3>1 DEF AnchorInv, Numbered
    <3>3. ASSUME NEW i \in 1..n
          PROVE  /\ receipts'[i].number = i /\ receipts'[i].previous = i - 1
                 /\ BuildsOn(receipts[i], i - 1)'
      <4>1. i - 1 # 0 => i - 1 \in 1..n
        BY <1>1
      <4>. QED BY <1>1, <1>7, <3>2, <4>1 DEF BuildsOn
    <3>4. /\ next.number = n + 1 /\ next.previous = (n + 1) - 1
          /\ BuildsOn(receipts[n + 1], n)'
      <4>1. (n + 1) - 1 = n /\ (n # 0 => n \in 1..n)
        BY <1>1
      <4>2. BuildsOn(a, n)
        BY <1>3, <3>1
      <4>3. next.number = n + 1
        <5>1. next.number = a.number
          BY <1>5
        <5>2. CASE n = 0
          BY <4>2, <5>1, <5>2 DEF BuildsOn
        <5>3. CASE n # 0
          BY <3>2, <4>1, <4>2, <5>1, <5>3 DEF BuildsOn
        <5>. QED BY <5>2, <5>3
      <4>4. n # 0 => receipts'[n] = receipts[n]
        BY <1>7, <4>1
      <4>5. (n = 0 => next.number = 1)
            /\ (n # 0 => /\ next.number = receipts'[n].number + 1
                         /\ Len(receipts'[n].prefix) < Len(next.prefix))
        BY <1>5, <4>2, <4>4 DEF BuildsOn
      <4>6. BuildsOn(receipts[n + 1], n)'
        BY <1>0, <1>2, <1>6, <1>7, <4>1, <4>5 DEF BuildsOn
      <4>. QED BY <1>5, <3>1, <4>1, <4>3, <4>6
    <3>. QED BY <1>7, <1>8, <3>3, <3>4
  <2>2. ASSUME forked'
        PROVE  \E i, j \in 1..Len(receipts') :
                 i # j /\ receipts'[i].number = receipts'[j].number
    <3>1. CASE forked
      <4>1. PICK i \in 1..n, j \in 1..n : i # j /\ receipts[i].number = receipts[j].number
        BY <1>0, <3>1 DEF AnchorInv, Numbered
      <4>2. i \in 1..(n + 1) /\ j \in 1..(n + 1)
        BY <1>1
      <4>. QED BY <1>7, <4>1, <4>2
    <3>2. CASE ~forked
      <4>1. a.previous # n /\ \A i \in 1..n : receipts[i].number = i
        BY <1>0, <1>6, <2>2, <3>2 DEF AnchorInv, Numbered
      <4>2. a.number = a.previous + 1 /\ a.previous + 1 \in 1..n
        BY <1>1, <1>3, <4>1 DEF BuildsOn
      <4>3. receipts'[a.previous + 1].number = receipts'[n + 1].number
        BY <1>5, <1>7, <4>1, <4>2
      <4>4. a.previous + 1 # n + 1 /\ a.previous + 1 \in 1..(n + 1) /\ n + 1 \in 1..(n + 1)
        BY <1>1, <4>2
      <4>. QED BY <1>7, <4>3, <4>4
    <3>. QED BY <3>1, <3>2
  <2>. QED BY <2>1, <2>2 DEF Numbered
<1>12. InTime'
  <2>1. \A i \in 1..n : receipts[i].signed <= clock /\ receipts[i].signed \in Nat
    BY <1>0, <1>1 DEF AnchorInv, InTime, Receipt
  <2>2. \A i \in 1..(n + 1) : receipts'[i].signed <= clock
    BY <1>1, <1>5, <1>7, <1>8, <2>1
  <2>3. ASSUME NEW i \in 1..(n + 1), NEW j \in 1..(n + 1), i < j
        PROVE  receipts'[i].signed <= receipts'[j].signed
    <3>1. i \in 1..n
      BY <1>1, <2>3
    <3>2. CASE j = n + 1
      BY <1>5, <1>7, <2>1, <3>1, <3>2
    <3>3. CASE j \in 1..n
      BY <1>0, <1>7, <2>3, <3>1, <3>3 DEF AnchorInv, InTime
    <3>. QED BY <1>8, <3>2, <3>3
  <2>. QED BY <1>2, <1>7, <2>2, <2>3 DEF InTime
<1>13. Outdated'
  <2>0. \A i \in 1..n : receipts[i].generation \in Nat
    BY <1>1, ReceiptFields
  <2>1. ASSUME ~stale', NEW i \in 1..(n + 1), NEW j \in 1..(n + 1), i < j
        PROVE  receipts'[i].generation <= receipts'[j].generation
    <3>1. i \in 1..n
      BY <1>1, <2>1
    <3>2. CASE j = n + 1
      <4>1. ~(receipts[i].generation > generation)
        BY <1>6, <2>1, <3>1
      <4>2. receipts'[i] = receipts[i] /\ receipts'[j] = next /\ next.generation = generation
        BY <1>5, <1>7, <3>1, <3>2
      <4>3. receipts[i].generation \in Nat /\ generation \in Nat
        BY <2>0, <3>1 DEF Generation
      <4>. QED BY <4>1, <4>2, <4>3
    <3>3. CASE j \in 1..n
      BY <1>0, <1>6, <1>7, <2>1, <3>1, <3>3 DEF AnchorInv, Outdated
    <3>. QED BY <1>8, <3>2, <3>3
  <2>2. ASSUME stale'
        PROVE  \E i \in 1..(n + 1) : /\ i + 1 \in 1..(n + 1)
                                     /\ receipts'[i + 1].generation < receipts'[i].generation
    <3>1. CASE stale
      <4>1. PICK i \in 1..n : i + 1 \in 1..n /\ receipts[i + 1].generation < receipts[i].generation
        BY <1>0, <3>1 DEF AnchorInv, Outdated
      <4>2. i \in 1..(n + 1) /\ i + 1 \in 1..(n + 1)
        BY <1>1, <4>1
      <4>. QED BY <1>7, <4>1, <4>2
    <3>2. CASE ~stale
      <4>1. PICK i \in 1..n : receipts[i].generation > generation
        BY <1>6, <2>2, <3>2
      <4>2. n \in 1..n /\ receipts[i].generation <= receipts[n].generation
        <5>1. i = n \/ i < n
          BY <1>1
        <5>. QED BY <1>0, <1>1, <2>0, <3>2, <5>1 DEF AnchorInv, Outdated
      <4>3. generation < receipts[n].generation
        BY <2>0, <4>1, <4>2 DEF Generation
      <4>4. n \in 1..(n + 1) /\ n + 1 \in 1..(n + 1)
        BY <1>1, <4>2
      <4>. QED BY <1>5, <1>7, <4>2, <4>3, <4>4
    <3>. QED BY <3>1, <3>2
  <2>. QED BY <1>7, <2>1, <2>2 DEF Outdated
<1>. QED BY <1>9, <1>10, <1>11, <1>12, <1>13 DEF AnchorInv

LEMMA AnchorStep == AnchorInv /\ [AnchorNext]_chainVars => AnchorInv'
<1>. SUFFICES ASSUME AnchorInv, [AnchorNext]_chainVars PROVE AnchorInv'
  OBVIOUS
<1>0. clock \in Nat /\ restores \in Nat /\ ledger \in Seq(Line)
  BY DEF AnchorInv, AnchorTypes
<1>1. ASSUME NEW r \in Requester, PrepareCheckpoint(r) PROVE AnchorInv'
  BY <1>1, PrepareStep
<1>2. ASSUME NEW r \in Requester, NEW generation \in Generation, WitnessSigns(r, generation)
      PROVE  AnchorInv'
  BY <1>2, SignStep
<1>3. ASSUME UNCHANGED anchorVars, clock' \in Nat, clock <= clock', restores' \in Nat,
             torn' \in BOOLEAN, ledger' \in Seq(Line)
      PROVE  AnchorInv'
  <2>1. UNCHANGED <<checkpoint, receipts, forked, stale>>
    BY <1>3 DEF anchorVars
  <2>2. AnchorTypes'
    BY <1>3, <2>1 DEF AnchorInv, AnchorTypes
  <2>. QED BY <1>3, <2>1, <2>2, ReceiptsStay DEF AnchorInv
<1>4. ASSUME NEW subject \in Subject, NEW at \in 0..clock, Write(subject, at)
      PROVE  AnchorInv'
  <2>1. PICK line \in Line : line = [subject |-> subject, at |-> at]
    <3>1. at \in Nat
      BY <1>0
    <3>. QED BY <3>1 DEF Line
  <2>2. ledger' = Append(ledger, line) /\ UNCHANGED <<clock, torn, restores, anchorVars>>
    BY <1>4, <2>1 DEF Write, AppendEvent
  <2>3. ledger' \in Seq(Line)
    BY <1>0, <2>2
  <2>. QED BY <1>0, <1>3, <2>2, <2>3 DEF AnchorInv, AnchorTypes
<1>5. CASE Tear
  BY <1>0, <1>3, <1>5 DEF Tear, AnchorInv, AnchorTypes
<1>6. CASE Tick /\ UNCHANGED anchorVars
  BY <1>0, <1>3, <1>6 DEF Tick, AnchorInv, AnchorTypes
<1>7. ASSUME NEW length \in 0..Len(ledger), Restore(length), UNCHANGED anchorVars
      PROVE  AnchorInv'
  <2>1. ledger' \in Seq(Line)
    BY <1>0, <1>7 DEF Restore
  <2>2. clock' = clock /\ restores' = restores + 1 /\ torn' = FALSE
    BY <1>7 DEF Restore
  <2>3. restores' \in Nat /\ clock' \in Nat /\ clock <= clock'
    BY <1>0, <2>2
  <2>4. torn' \in BOOLEAN
    BY <2>2
  <2>. QED BY <1>3, <1>7, <2>1, <2>3, <2>4
<1>8. CASE UNCHANGED chainVars
  BY <1>0, <1>3, <1>8 DEF chainVars, ledgerVars, AnchorInv, AnchorTypes
<1>. QED BY <1>1, <1>2, <1>4, <1>5, <1>6, <1>7, <1>8 DEF AnchorNext, LedgerEnvironment

LEMMA AnchorInitially == AnchorInit => AnchorInv
<1>. SUFFICES ASSUME AnchorInit PROVE AnchorInv
  OBVIOUS
<1>1. <<>> \in Seq(Line) /\ <<>> \in Seq(Receipt) /\ Len(receipts) = 0
  BY DEF AnchorInit
<1>2. NoCheckpoint \in Anchor
  BY <1>1 DEF NoCheckpoint, Anchor
<1>3. AnchorTypes
  BY <1>1, <1>2 DEF AnchorInit, LedgerInit, AnchorTypes
<1>4. CheckpointsBuild
  BY DEF AnchorInit, CheckpointsBuild
<1>5. Numbered /\ InTime /\ Outdated
  BY <1>1 DEF AnchorInit, Numbered, InTime, Outdated
<1>. QED BY <1>3, <1>4, <1>5 DEF AnchorInv

LEMMA ChainDecides ==
  ASSUME AnchorInv
  PROVE  AnchorsDecide
<1>. SUFFICES ASSUME receipts # <<>>
              PROVE  ChainVerifies <=>
                       /\ ~torn /\ ~forked /\ ~stale
                       /\ \A i \in 1..Len(receipts) : Extends(ledger, receipts[i].prefix)
  BY DEF AnchorsDecide
<1>. DEFINE n == Len(receipts)
<1>1. /\ clock \in Nat /\ receipts \in Seq(Receipt) /\ n \in Nat /\ 1 \in 1..n
      /\ \A i \in 1..n : receipts[i] \in Receipt
  BY DEF AnchorInv, AnchorTypes
<1>2. \A i \in 1..n : ReceiptVerifies(receipts[i]) <=>
                        ~torn /\ Extends(ledger, receipts[i].prefix)
  BY <1>1, ReceiptFields DEF AnchorInv, InTime, ReceiptVerifies
<1>3. ASSUME ChainVerifies
      PROVE  /\ ~torn /\ ~forked /\ ~stale
             /\ \A i \in 1..n : Extends(ledger, receipts[i].prefix)
  <2>1. ~torn /\ \A i \in 1..n : Extends(ledger, receipts[i].prefix)
    BY <1>1, <1>2, <1>3 DEF ChainVerifies
  <2>2. ~forked
    BY <1>3 DEF ChainVerifies, AnchorInv, Numbered
  <2>3. ~stale
    <3>. SUFFICES ASSUME NEW i \in 1..n, i + 1 \in 1..n,
                         receipts[i + 1].generation < receipts[i].generation
                  PROVE  FALSE
      BY DEF AnchorInv, Outdated
    <3>1. receipts[i + 1].number = receipts[i].number + 1
      BY <2>2 DEF AnchorInv, Numbered
    <3>2. receipts[i + 1].generation >= receipts[i].generation
      BY <1>3, <3>1 DEF ChainVerifies
    <3>3. receipts[i].generation \in Nat /\ receipts[i + 1].generation \in Nat
      BY <1>1, ReceiptFields
    <3>. QED BY <3>2, <3>3
  <2>. QED BY <2>1, <2>2, <2>3
<1>4. ASSUME ~torn, ~forked, ~stale, \A i \in 1..n : Extends(ledger, receipts[i].prefix)
      PROVE  ChainVerifies
  <2>1. \A i \in 1..n : /\ receipts[i].number = i /\ receipts[i].previous = i - 1
                        /\ BuildsOn(receipts[i], i - 1)
    BY <1>4 DEF AnchorInv, Numbered
  <2>2. \A i \in 1..n : ReceiptVerifies(receipts[i])
    BY <1>2, <1>4
  <2>3. {receipts[i].number : i \in 1..n} = 1..n
    BY <2>1
  <2>4. ASSUME NEW i \in 1..n, NEW j \in 1..n, receipts[j].number = receipts[i].number + 1
        PROVE  /\ receipts[j].previous = i
               /\ Len(receipts[j].prefix) > Len(receipts[i].prefix)
               /\ receipts[j].signed >= receipts[i].signed
               /\ receipts[j].generation >= receipts[i].generation
    <3>1. j = i + 1 /\ j - 1 = i /\ i < j /\ i # 0
      BY <1>1, <2>1, <2>4
    <3>2. receipts[j].previous = i /\ BuildsOn(receipts[j], i)
      BY <2>1, <3>1
    <3>3. Len(receipts[i].prefix) \in Nat /\ Len(receipts[j].prefix) \in Nat
      BY <1>1, ReceiptFields
    <3>4. Len(receipts[j].prefix) > Len(receipts[i].prefix)
      BY <3>1, <3>2, <3>3 DEF BuildsOn
    <3>5. /\ receipts[i].signed <= receipts[j].signed
          /\ receipts[i].generation <= receipts[j].generation
      BY <1>4, <3>1 DEF AnchorInv, InTime, Outdated
    <3>6. /\ receipts[i].signed \in Nat /\ receipts[j].signed \in Nat
          /\ receipts[i].generation \in Nat /\ receipts[j].generation \in Nat
      BY <1>1, ReceiptFields
    <3>. QED BY <3>2, <3>4, <3>5, <3>6
  <2>5. /\ \A i, j \in 1..n : receipts[i].number = receipts[j].number => i = j
        /\ \A i \in 1..n : receipts[i].number = 1 => receipts[i].previous = 0
    BY <2>1
  <2>. QED BY <2>2, <2>3, <2>4, <2>5 DEF ChainVerifies
<1>. QED BY <1>3, <1>4

\* The verifier of the receipts accepts exactly the histories in which nothing is wrong,
\* for any requesters, witness, ledger and number of receipts
\* (audit_anchor.py: 311-399).
THEOREM ChainOfAnchorsDecides == AnchorSpec => []AnchorsDecide
<1>1. AnchorInv => AnchorsDecide
  BY ChainDecides
<1>. QED BY <1>1, AnchorInitially, AnchorStep, PTL DEF AnchorSpec
==============================================================================

----------------------------- MODULE Acquisition -----------------------------
(***************************************************************************)
(* The acquisition controller (acquisition_controller.py) over its durable *)
(* state: evidence, outcomes, the state file and the audit ledger.         *)
(*                                                                         *)
(* A cycle loads the state file, and for each selected source in order:    *)
(* audits the plan, fetches, stores the evidence, stores the outcome, and  *)
(* audits the outcome and the change it is; the state file is written once *)
(* at the end.  A ledger that refuses an append ends the cycle; a failed   *)
(* fetch does not.  Nothing but the ledger's lock orders two processes on  *)
(* the same state root: a scheduled controller and a one-shot operator run *)
(* at once, and the one that finishes last has the last word on the state. *)
(*                                                                         *)
(* A payload is a member of Content; evidence and outcomes are named by    *)
(* their digest, so a set of contents and a set of records stand for them. *)
(***************************************************************************)
EXTENDS AuditLedger, FiniteSets

None == "none"

CONSTANTS Controller,    \* processes on one state root
          Source,        \* the source IDs of the registry, in their order
          Content,       \* payloads a source can serve
          ValidUntil,    \* per source: the instant its registration expires
          MaxWork,       \* bound: sources selected in all cycles
          MaxPublishes,  \* bound: changes of a source at its publisher
          MaxCrashes     \* bound: process crashes and power losses

ASSUME SourceAssumption == /\ Source \subseteq Nat \ {0}
                           /\ ValidUntil \in [Source -> Nat]
                           /\ None \notin Content

VARIABLES site,          \* what each publisher serves
          evidence,      \* payloads in the evidence vault
          flushed,       \* those whose directory entries the kernel has written back
          outcomes,      \* outcome documents
          state,         \* the state file: per source, the current digest
          run,           \* per controller: the cycle it is in
          work, publishes, crashes,
          \* history
          lost,          \* payloads a power loss took from the vault
          clean          \* every cycle so far ran alone and wrote its state

diskVars == <<evidence, flushed, outcomes, state, lost>>
envVars  == <<site, publishes, crashes>>
vars == <<ledgerVars, diskVars, envVars, run, work, clean>>

Idle == [pc |-> "idle", at |-> 0, todo |-> {}, src |-> 0, got |-> None,
         prev |-> None, memory |-> [s \in Source |-> None]]

\* The events this controller appends; an outcome document is the entry's payload.
Event(type, source, at, prev, got) ==
    [type |-> type, source |-> source, at |-> at, prev |-> prev, got |-> got]
Outcome(s, at, prev, got) == [source |-> s, at |-> at, prev |-> prev, got |-> got]

Move(c, pc) == run' = [run EXCEPT ![c] = [@ EXCEPT !.pc = pc]]
\* The process ends: its memory is gone.  A cycle cut after it audited a completion
\* leaves the state file behind the ledger.
Ends(c) == /\ run' = [run EXCEPT ![c] = Idle]
           /\ clean' = (clean /\ run[c].memory = state /\ run[c].pc # "change")

------------------------------------------------------------------------------
(* A cycle of reconcile. *)

\* Selection and _load_state: all sources, or the one an operator names.
Start(c, selected) ==
    /\ run[c].pc = "idle"
    /\ work + Cardinality(selected) <= MaxWork
    /\ run' = [run EXCEPT ![c] = [Idle EXCEPT !.pc = "plan", !.at = clock,
                                  !.todo = selected, !.memory = state]]
    /\ work' = work + Cardinality(selected)
    /\ clean' = (clean /\ \A other \in Controller : run[other].pc = "idle")
    /\ UNCHANGED <<ledgerVars, diskVars, envVars>>

\* The planned event, before any network access.
Plan(c) ==
    /\ run[c].pc = "plan"
    /\ \E s \in run[c].todo :
        /\ \A t \in run[c].todo : s <= t
        /\ AppendEvent(Event("planned", s, run[c].at, None, None))
        /\ run' = [run EXCEPT ![c] = [@ EXCEPT !.pc = "fetch", !.src = s,
                                        !.todo = run[c].todo \ {s}, !.prev = run[c].memory[s]]]
    /\ UNCHANGED <<diskVars, envVars, work, clean>>

\* acquire_registry_source succeeds: the source is eligible at the cycle's time, the
\* payload is within its bounds, and the vault links it under its digest.
Fetch(c) ==
    /\ run[c].pc = "fetch"
    /\ run[c].at < ValidUntil[run[c].src]
    /\ run' = [run EXCEPT ![c] = [@ EXCEPT !.pc = "outcome", !.got = site[run[c].src]]]
    /\ evidence' = evidence \cup {site[run[c].src]}
    /\ UNCHANGED <<ledgerVars, flushed, outcomes, state, lost, envVars, work, clean>>

\* It is not eligible, or its host, its answer or its payload is refused.
FetchFails(c) ==
    /\ run[c].pc = "fetch"
    /\ run' = [run EXCEPT ![c] = [@ EXCEPT !.pc = "outcome", !.got = None]]
    /\ UNCHANGED <<ledgerVars, diskVars, envVars, work, clean>>

\* _store_outcome: content-addressed, written atomically.
StoreOutcome(c) ==
    /\ run[c].pc = "outcome"
    /\ outcomes' = outcomes \cup {Outcome(run[c].src, run[c].at, run[c].prev, run[c].got)}
    /\ Move(c, "record")
    /\ UNCHANGED <<ledgerVars, evidence, flushed, state, lost, envVars, work, clean>>

NextSource(c) == IF run[c].todo = {} THEN "write" ELSE "plan"

\* acquisition_failed: the cycle goes on with the next source.
RecordFailed(c) ==
    /\ run[c].pc = "record" /\ run[c].got = None
    /\ AppendEvent(Event("failed", run[c].src, run[c].at, run[c].prev, None))
    /\ Move(c, NextSource(c))
    /\ UNCHANGED <<diskVars, envVars, work, clean>>

\* A mistake to be caught: the digest is saved as soon as the completion is audited.
RecordCompletedSaves(c) ==
    /\ run[c].pc = "record" /\ run[c].got # None
    /\ AppendEvent(Event("completed", run[c].src, run[c].at, run[c].prev, run[c].got))
    /\ state' = [state EXCEPT ![run[c].src] = run[c].got]
    /\ Move(c, "change")
    /\ UNCHANGED <<evidence, flushed, outcomes, lost, envVars, work, clean>>

\* acquisition_completed.
RecordCompleted(c) ==
    /\ run[c].pc = "record" /\ run[c].got # None
    /\ AppendEvent(Event("completed", run[c].src, run[c].at, run[c].prev, run[c].got))
    /\ Move(c, "change")
    /\ UNCHANGED <<diskVars, envVars, work, clean>>

\* source_changed (which "initial" is too) or source_unchanged, then the digest in memory.
Change(prev, got) == IF prev = got THEN "unchanged" ELSE "changed"
RecordChangeForgets(c) ==           \* a mistake to be caught: the memory stays
    /\ run[c].pc = "change"
    /\ AppendEvent(Event(Change(run[c].prev, run[c].got), run[c].src, run[c].at,
                         run[c].prev, run[c].got))
    /\ Move(c, NextSource(c))
    /\ UNCHANGED <<diskVars, envVars, work, clean>>
RecordChange(c) ==
    /\ run[c].pc = "change"
    /\ AppendEvent(Event(Change(run[c].prev, run[c].got), run[c].src, run[c].at,
                         run[c].prev, run[c].got))
    /\ run' = [run EXCEPT ![c] = [@ EXCEPT !.pc = NextSource(c),
                                    !.memory[run[c].src] = run[c].got]]
    /\ UNCHANGED <<diskVars, envVars, work, clean>>

\* The state file is replaced by the memory of this cycle; the process sleeps or exits.
WriteState(c) ==
    /\ run[c].pc = "write"
    /\ state' = run[c].memory
    /\ run' = [run EXCEPT ![c] = Idle]
    /\ UNCHANGED <<ledgerVars, evidence, flushed, outcomes, lost, envVars, work, clean>>

\* AuditLedgerError from an append: the process exits without writing the state.
Refused(c) ==
    /\ run[c].pc \in {"plan", "record", "change"}
    /\ ~Appendable(run[c].at)
    /\ Ends(c)
    /\ UNCHANGED <<ledgerVars, diskVars, envVars, work>>

------------------------------------------------------------------------------
(* The environment. *)

\* The publisher changes what it serves.
Publish(s, content) ==
    /\ publishes < MaxPublishes
    /\ site[s] # content
    /\ site' = [site EXCEPT ![s] = content]
    /\ publishes' = publishes + 1
    /\ UNCHANGED <<ledgerVars, diskVars, crashes, run, work, clean>>

\* A process dies between two steps; every completed write stays.
Crash(c) ==
    /\ crashes < MaxCrashes
    /\ run[c].pc # "idle"
    /\ Ends(c)
    /\ crashes' = crashes + 1
    /\ UNCHANGED <<ledgerVars, diskVars, site, publishes, work>>

\* The kernel writes the vault's directories back in its own time: store() syncs the
\* payload and never the directory it links it in (core/pipeline.py: 132-154).
WriteBack ==
    /\ flushed # evidence
    /\ flushed' = evidence
    /\ UNCHANGED <<ledgerVars, evidence, outcomes, state, lost, envVars, run, work, clean>>

\* The machine stops: every process dies, links not written back may be lost, and an
\* append under way may leave an incomplete line.
PowerLoss(gone, half) ==
    /\ crashes < MaxCrashes
    /\ crashes' = crashes + 1
    /\ half => \E c \in Controller : run[c].pc \in {"plan", "record", "change"}
    /\ evidence' = evidence \ gone
    /\ flushed' = evidence'
    /\ lost' = lost \cup gone
    /\ torn' = (torn \/ half)
    /\ run' = [c \in Controller |-> Idle]
    /\ clean' = FALSE
    /\ UNCHANGED <<clock, ledger, restores, outcomes, state, site, publishes, work>>

Init == /\ LedgerInit
        /\ site \in [Source -> Content]
        /\ evidence = {} /\ flushed = {} /\ outcomes = {} /\ lost = {}
        /\ state = [s \in Source |-> None]
        /\ run = [c \in Controller |-> Idle]
        /\ work = 0 /\ publishes = 0 /\ crashes = 0
        /\ clean = TRUE

Cycle(c) == \/ \E selected \in SUBSET Source \ {{}} : Start(c, selected)
            \/ Plan(c)
            \/ Fetch(c)
            \/ FetchFails(c)
            \/ StoreOutcome(c)
            \/ RecordFailed(c)
            \/ RecordCompleted(c)
            \/ RecordChange(c)
            \/ WriteState(c)
            \/ Refused(c)
            \/ Crash(c)

Next == \/ \E c \in Controller : Cycle(c)
        \/ LedgerEnvironment /\ UNCHANGED <<diskVars, envVars, run, work, clean>>
        \/ \E s \in Source, content \in Content : Publish(s, content)
        \/ WriteBack
        \/ \E gone \in SUBSET (evidence \ flushed), half \in BOOLEAN : PowerLoss(gone, half)

Spec == Init /\ [][Next]_vars

------------------------------------------------------------------------------
(* What the durable state promises. *)

\* The ledger tells the whole acquisition of a content: planned, completed, and then
\* that it was a change.
Told(s, content) ==
    \E i, j, k \in 1..Len(ledger) :
        /\ i < j /\ j < k
        /\ ledger[i].type = "planned" /\ ledger[i].source = s
        /\ ledger[j].type = "completed" /\ ledger[j].source = s /\ ledger[j].got = content
        /\ ledger[k].type = "changed"
        /\ ledger[k].source = s /\ ledger[k].got = content

\* A digest in the state file is backed by all that led to it: its evidence, unless a
\* power loss took it before its directory was written back, a durable outcome, and
\* the events of the audit ledger, unless that was replaced by an older copy
\* (acquisition_controller.py: 182-264).
StateBacked ==
    \A s \in Source : state[s] # None =>
        /\ state[s] \in evidence \cup lost
        /\ \E outcome \in outcomes : outcome.source = s /\ outcome.got = state[s]
        /\ restores = 0 => Told(s, state[s])

\* The completions of a source in the ledger before position k.
Completions(s, k) == {i \in 1..(k - 1) : /\ ledger[i].type = "completed"
                                         /\ ledger[i].source = s}
Latest(positions) == CHOOSE i \in positions : \A j \in positions : j <= i

\* The content is told as a change of the source before position k.
Announced(s, content, k) ==
    \E i \in 1..(k - 1) : /\ ledger[i].type = "changed"
                          /\ ledger[i].source = s /\ ledger[i].got = content

\* Whichever cycles are cut short and whoever runs at once, the audit trail does not tell
\* content as unchanged that it never told as a change: a digest reaches the memory and
\* the state file after its change event.  While every cycle ran alone and wrote its
\* state, it tells each change and no other: a change event follows from the completion
\* before the one it reports.  (A cycle cut after its completion, or two at once, make
\* the next event compare with older content: acquisition_controller.py: 188-198,
\* 253-261.)
ChangesTold ==
    restores = 0 =>
        \A k \in 1..Len(ledger) : ledger[k].type \in {"changed", "unchanged"} =>
            LET s == ledger[k].source
                reported == Latest(Completions(s, k))
                before == Completions(s, reported)
            IN  /\ ledger[k].type = "unchanged" => Announced(s, ledger[k].got, k)
                /\ clean => /\ Completions(s, k) # {}
                            /\ ledger[reported].got = ledger[k].got
                            /\ ledger[k].type = "unchanged" <=>
                                 before # {} /\ ledger[Latest(before)].got = ledger[k].got
==============================================================================

----------------------------- MODULE AuditLedger -----------------------------
(***************************************************************************)
(* The append-only audit ledger of the corpus factory (audit.py).          *)
(*                                                                         *)
(* The ledger is a file of chained lines.  An entry's digest covers the    *)
(* entry before it, so that two ledgers with the same head digest are the  *)
(* same sequence: the digest of a prefix is modelled by the prefix.  Every *)
(* append locks the file, verifies ALL of it, and refuses an entry whose   *)
(* time is before the last one's; a final line cut short by a crash makes  *)
(* every later verification fail, and nothing in the factory repairs it.   *)
(***************************************************************************)
EXTENDS Integers, Sequences

CONSTANTS MaxTime,       \* bound: the clock's last instant
          MaxRestores    \* bound: times the ledger is restored from a copy

ASSUME LedgerAssumption == MaxTime \in Nat /\ MaxRestores \in Nat

VARIABLES clock,         \* the civil clock of the machine
          ledger,        \* the complete lines of the audit file
          torn,          \* the file ends in an incomplete line
          restores       \* times the file was replaced by an older copy

ledgerVars == <<clock, ledger, torn, restores>>

Last(seq) == seq[Len(seq)]

\* _verify_data and _validate_entry of a new entry: no torn line, and time does not
\* go back.
Appendable(at) == /\ ~torn
                  /\ ledger # <<>> => Last(ledger).at <= at

\* append_audit_event: the whole of it happens under the file's lock.
AppendEvent(entry) == /\ Appendable(entry.at)
                      /\ ledger' = Append(ledger, entry)
                      /\ UNCHANGED <<clock, torn, restores>>

Tick == /\ clock < MaxTime
        /\ clock' = clock + 1
        /\ UNCHANGED <<ledger, torn, restores>>

\* Someone with access to the storage puts an older copy of the file back: the only
\* thing that removes a torn line, and the loss that anchoring is there to show.
Restore(length) ==
    /\ restores < MaxRestores
    /\ torn \/ length < Len(ledger)
    /\ ledger' = SubSeq(ledger, 1, length)
    /\ torn' = FALSE
    /\ restores' = restores + 1
    /\ UNCHANGED clock

LedgerInit == clock = 0 /\ ledger = <<>> /\ torn = FALSE /\ restores = 0

LedgerEnvironment == \/ Tick
                     \/ \E length \in 0..Len(ledger) : Restore(length)
==============================================================================

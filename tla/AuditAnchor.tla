----------------------------- MODULE AuditAnchor -----------------------------
(***************************************************************************)
(* Anchoring of the audit ledger by an external witness (audit_anchor.py). *)
(*                                                                         *)
(* A requester checkpoints the ledger's head, naming the receipt before    *)
(* it; the witness signs a statement of it later, with the revocation      *)
(* generation it is told; whoever holds the receipts verifies the chain    *)
(* against the ledger file.  Keys are trusted and unrevoked and signatures *)
(* verify; the witness keeps every receipt, and a requester builds on the  *)
(* last one issued when it prepares.  The factory goes on writing between  *)
(* any two of these steps.                                                 *)
(***************************************************************************)
EXTENDS AuditLedger

CONSTANTS Requester,     \* operators that request anchors
          Subject,       \* what entries are about
          MaxEntries,    \* bound: entries of the ledger
          MaxReceipts    \* bound: receipts issued

ASSUME AnchorAssumption == MaxEntries \in Nat /\ MaxReceipts \in Nat

VARIABLES checkpoint,    \* per requester: the checkpoint it prepared, or none
          receipts,      \* the witness's receipts, in the order of signing
          \* history
          forked,        \* two checkpoints were prepared on the same receipt
          stale          \* a receipt was signed under an outdated generation

anchorVars == <<checkpoint, receipts, forked, stale>>
chainVars == <<ledgerVars, anchorVars>>

Generation == 1..2
NoCheckpoint == [number |-> 0, prefix |-> <<>>, previous |-> 0, created |-> 0]
Extends(longer, shorter) == /\ Len(shorter) <= Len(longer)
                            /\ \A i \in 1..Len(shorter) : longer[i] = shorter[i]

------------------------------------------------------------------------------
(* Requesters, the witness, and whoever verifies. *)

\* _ledger_prefix, _validate_checkpoint_against_ledger and verify_receipt: the file
\* verifies, still has the anchored entries, and the time is not before the signature.
ReceiptVerifies(receipt) == /\ ~torn
                            /\ clock >= receipt.signed
                            /\ Extends(ledger, receipt.prefix)

\* A mistake to be caught: the head need not have advanced.
PrepareStanding(r) ==
    /\ checkpoint[r] = NoCheckpoint
    /\ ~torn
    /\ ledger # <<>> /\ clock >= Last(ledger).at
    /\ receipts # <<>> => /\ ReceiptVerifies(Last(receipts))
    /\ checkpoint' = [checkpoint EXCEPT ![r] =
            [number   |-> IF receipts = <<>> THEN 1 ELSE Last(receipts).number + 1,
             prefix   |-> ledger,
             previous |-> Len(receipts),
             created  |-> clock]]
    /\ UNCHANGED <<ledgerVars, receipts, forked, stale>>

\* prepare_checkpoint: the previous receipt is the last one the requester can see.
PrepareCheckpoint(r) ==
    /\ checkpoint[r] = NoCheckpoint
    /\ ~torn
    /\ ledger # <<>> /\ clock >= Last(ledger).at
    /\ receipts # <<>> => /\ ReceiptVerifies(Last(receipts))
                          /\ Len(ledger) > Len(Last(receipts).prefix)
    /\ checkpoint' = [checkpoint EXCEPT ![r] =
            [number   |-> IF receipts = <<>> THEN 1 ELSE Last(receipts).number + 1,
             prefix   |-> ledger,
             previous |-> Len(receipts),
             created  |-> clock]]
    /\ UNCHANGED <<ledgerVars, receipts, forked, stale>>

\* prepare_witness_statement, the witness's signature and finalize_receipt: not before
\* the checkpoint; the generation is compared with nothing.
WitnessSigns(r, generation) ==
    /\ Len(receipts) < MaxReceipts
    /\ checkpoint[r] # NoCheckpoint
    /\ clock >= checkpoint[r].created
    /\ receipts' = Append(receipts,
            [number     |-> checkpoint[r].number,
             prefix     |-> checkpoint[r].prefix,
             previous   |-> checkpoint[r].previous,
             signed     |-> clock,
             generation |-> generation])
    /\ checkpoint' = [checkpoint EXCEPT ![r] = NoCheckpoint]
    /\ forked' = (forked \/ checkpoint[r].previous # Len(receipts))
    /\ stale' = (stale \/ \E i \in 1..Len(receipts) : receipts[i].generation > generation)
    /\ UNCHANGED ledgerVars

\* verify_anchor_chain over all receipts: one per number, contiguous from one, each
\* naming its predecessor, advancing, and with time and generation not going back.
ChainVerifies ==
    LET n == Len(receipts) IN
    /\ \A i, j \in 1..n : receipts[i].number = receipts[j].number => i = j
    /\ {receipts[i].number : i \in 1..n} = 1..n
    /\ \A i \in 1..n : ReceiptVerifies(receipts[i])
    /\ \A i, j \in 1..n : receipts[j].number = receipts[i].number + 1 =>
            /\ receipts[j].previous = i
            /\ Len(receipts[j].prefix) > Len(receipts[i].prefix)
            /\ receipts[j].signed >= receipts[i].signed
            /\ receipts[j].generation >= receipts[i].generation
    /\ \A i \in 1..n : receipts[i].number = 1 => receipts[i].previous = 0

------------------------------------------------------------------------------
(* Any process of the factory appends an event, at the time its own work began; an
   append cut short by a crash leaves an incomplete line. *)

Write(subject, at) == /\ Len(ledger) < MaxEntries
                      /\ AppendEvent([subject |-> subject, at |-> at])
                      /\ UNCHANGED anchorVars

Tear == /\ ~torn
        /\ torn' = TRUE
        /\ UNCHANGED <<clock, ledger, restores, anchorVars>>

AnchorInit ==
        /\ LedgerInit
        /\ checkpoint = [r \in Requester |-> NoCheckpoint]
        /\ receipts = <<>>
        /\ forked = FALSE
        /\ stale = FALSE

AnchorNext ==
        \/ \E r \in Requester : PrepareCheckpoint(r)
        \/ \E r \in Requester, generation \in Generation : WitnessSigns(r, generation)
        \/ \E subject \in Subject, at \in 0..clock : Write(subject, at)
        \/ Tear
        \/ LedgerEnvironment /\ UNCHANGED anchorVars

AnchorSpec == AnchorInit /\ [][AnchorNext]_chainVars

------------------------------------------------------------------------------
(* The chain of receipts is accepted exactly when nothing is wrong: the file has no
   incomplete last line, still begins with every ledger that was anchored, no two
   requesters built on the same receipt, and no statement named an older generation.
   Loss of anchored entries is always noticed, and a correct history is never refused
   (audit_anchor.py: 311-399; docs/external-audit-anchoring.md: 38-44). *)
AnchorsDecide ==
    receipts # <<>> =>
        (ChainVerifies <=> /\ ~torn /\ ~forked /\ ~stale
                           /\ \A i \in 1..Len(receipts) : Extends(ledger, receipts[i].prefix))
==============================================================================

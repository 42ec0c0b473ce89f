---------------------------- MODULE PrivacyFilter ----------------------------
(***************************************************************************)
(* The privacy filter (services/privacy_filter/main.py): block list, rate  *)
(* limit and risk verdict over the messages of a sender, in memory and in  *)
(* three JSON files that _save_data rewrites one after the other in place. *)
(*                                                                         *)
(* The detection patterns are the verdict "risky". Consent records share   *)
(* the files and nothing else with what is modelled.                       *)
(***************************************************************************)
EXTENDS Naturals

CONSTANTS
  Sender,       \* telephone numbers
  WindowLimit   \* max_sms_per_minute, the tighter of the two limits

ASSUME FilterAssumption == WindowLimit \in Nat \ {0}

VARIABLES
  blocked,     \* blocked_users
  window,      \* message_counts: messages of the current window
  store,       \* the files: the block list, and whether all of them parse
  filterUp,    \* the process runs
  toldBlocked  \* history: the users whose blocking was confirmed after the
               \* last save that was cut short, and not lifted since

filter == <<blocked, window, store, filterUp, toldBlocked>>

\* _save_data truncates and writes three files. A crash or an error (which is
\* swallowed) in between leaves one that does not parse, or the last one as it
\* was. told: the users whose blocking is confirmed once the save is complete.
Save(users, told) ==
  \/ /\ store' = [intact |-> TRUE, users |-> users]
     /\ toldBlocked' = told
     /\ UNCHANGED filterUp
  \/ /\ store' \in {[intact |-> FALSE, users |-> {}], store}
     /\ toldBlocked' = {}
     /\ filterUp' \in BOOLEAN

\* _log_audit_event, which saves each time the length is a multiple of ten.
AuditEvent == UNCHANGED <<store, filterUp, toldBlocked>> \/ Save(blocked, toldBlocked)

\* Mutant of BlockUser: the block list is not saved.
BlockUserInMemory(s) ==
  /\ filterUp
  /\ blocked' = blocked \cup {s}
  /\ toldBlocked' = toldBlocked \cup {s}
  /\ UNCHANGED <<window, store, filterUp>>

\* block_user and unblock_user.
BlockUser(s) ==
  /\ filterUp
  /\ blocked' = blocked \cup {s}
  /\ Save(blocked \cup {s}, toldBlocked \cup {s})
  /\ UNCHANGED window

UnblockUser(s) ==
  /\ filterUp /\ s \in blocked
  /\ blocked' = blocked \ {s}
  /\ Save(blocked \ {s}, toldBlocked \ {s})
  /\ UNCHANGED window

\* check_rate_limit drops what is older than the window.
WindowPasses(s) ==
  /\ window[s] # 0
  /\ window' = [window EXCEPT ![s] = 0]
  /\ UNCHANGED <<blocked, store, filterUp, toldBlocked>>

\* validate_message: blocked, over the limit, risky, or counted and valid.
Validate(s, risky, valid) ==
  /\ filterUp
  /\ valid <=> s \notin blocked /\ window[s] < WindowLimit /\ ~risky
  /\ window' = IF valid THEN [window EXCEPT ![s] = @ + 1] ELSE window
  /\ AuditEvent
  /\ UNCHANGED blocked

\* A validation whose answer reaches nobody: the caller has given up, or the
\* filter ends before it answers.
ValidateUnheard(s) == \E risky, valid \in BOOLEAN : Validate(s, risky, valid)

\* The process ends: in order, with a last save, or not.
FilterStops ==
  /\ filterUp
  /\ UNCHANGED store \/ store' = [intact |-> TRUE, users |-> blocked]
  /\ filterUp' = FALSE
  /\ UNCHANGED <<blocked, window, toldBlocked>>

\* _load_data: the first file that does not parse ends it without an error.
FilterStarts ==
  /\ ~filterUp
  /\ filterUp' = TRUE
  /\ blocked' = IF store.intact THEN store.users ELSE {}
  /\ window' = [s \in Sender |-> 0]
  /\ UNCHANGED <<store, toldBlocked>>

FilterInit ==
  /\ blocked = {} /\ window = [s \in Sender |-> 0]
  /\ store = [intact |-> TRUE, users |-> {}]
  /\ filterUp = TRUE /\ toldBlocked = {}

FilterStep ==
  \/ \E s \in Sender : BlockUser(s) \/ UnblockUser(s) \/ WindowPasses(s)
  \/ FilterStops \/ FilterStarts
=============================================================================

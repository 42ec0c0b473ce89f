---------------------------- MODULE MessageRouter ----------------------------
(***************************************************************************)
(* How the message router answers (message_router/main.py): treasure hunt, *)
(* privacy filter, classification, chat history, retrieval, the choice     *)
(* between the retrieved document, the language model and a refusal,       *)
(* delivery, and the record of what the answer rests on.                   *)
(*                                                                         *)
(* The stream loop and POST /route run in one process and share the chat   *)
(* store (shared/chat_history.py) and the slots of the language model;     *)
(* each await of one lets the others run. Texts are their classes, scores  *)
(* the outcome of their comparisons.                                       *)
(***************************************************************************)
EXTENDS PrivacyFilter, Sequences, FiniteSets

CONSTANTS
  Request,   \* messages being processed
  Profiles,  \* the safety settings of the deployment profiles
  Clues,     \* clues of the treasure hunt, 0 when there is none
  Slots,     \* llm_max_inflight_requests
  MaxTurns   \* chat_history_max_turns

Settings == [groundingRequired : BOOLEAN, \* rag_grounding_required
             emergencyRag : BOOLEAN,      \* emergency_rag_enabled
             generation : BOOLEAN,        \* generation_enabled
             vectorRequired : BOOLEAN]    \* rag_min_vector_confidence > 0

ASSUME RouterAssumption ==
  /\ Profiles \subseteq Settings
  /\ Clues \in Nat /\ Slots \in Nat \ {0} /\ MaxTurns \in Nat \ {0}

VARIABLES
  settings, \* the profile that is deployed
  request,  \* each request: where it is and what is known of it
  history,  \* ChatHistoryStore._history: the turns of each sender
  hunt      \* ChatHistoryStore._hunt_state: the current clue of each sender

vars == <<filter, settings, request, history, hunt>>

\* "canned": greetings, and the commands other than /reset.
Class == {"emergency", "reset", "canned", "query"}
HuntText == {"none", "start", "hint", "solution"}
Status == {"none", "unavailable", "no_evidence", "grounded"}
Mode == {"unset", "rag_direct", "llm_grounded", "llm_ungrounded",
         "refused_emergency_grounding", "refused_grounding",
         "refused_generation_disabled"}
Reply == {"none", "hunt", "blocked", "canned", "document", "generated", "refusal", "sorry"}
Place == {"new", "filtering", "retrieving", "queued", "generating", "sending",
          "done", "raised", "gone"}

Untouched(s) ==
  [at |-> "new", sender |-> s, class |-> "query",
   memory |-> <<>>, status |-> "none",
   supported |-> FALSE, mode |-> "unset", reply |-> "none", tries |-> 0]

\* What is left of a request that has ended.
Ended(q, at) ==
  [Untouched(request[q].sender) EXCEPT
     !.at = at, !.class = request[q].class, !.reply = request[q].reply]

Is(q, at) == request[q].at = at
Generating == {q \in Request : Is(q, "generating")}

-----------------------------------------------------------------------------
(* From arrival to the choice of the answer *)

\* _handle_treasure_hunt: the clue a text leads to; "hint" and its kind do not
\* move it.
HuntReplies(s, text) ==
  /\ Clues > 0
  /\ text \in {"start", "hint"} \/ (text = "solution" /\ hunt[s] \in 1..Clues)

NextClue(s, text) ==
  CASE text = "start" -> 1
    [] text = "solution" -> hunt[s] + 1
    [] OTHER -> hunt[s]

\* The hunt is checked before anything else, the privacy filter included.
Arrive(q) ==
  /\ Is(q, "new")
  /\ \E class \in Class, text \in HuntText : LET s == request[q].sender IN
       /\ text \in {"start", "hint"} => class = "query"
       /\ IF HuntReplies(s, text)
            THEN /\ hunt' = [hunt EXCEPT ![s] = NextClue(s, text)]
                 /\ request' = [request EXCEPT ![q] = [@ EXCEPT
                      !.at = "sending", !.class = class, !.reply = "hunt"]]
            ELSE /\ UNCHANGED hunt
                 /\ request' = [request EXCEPT ![q] = [@ EXCEPT
                      !.at = "filtering", !.class = class]]
  /\ UNCHANGED <<filter, settings, history>>

\* Mutant of Direct: an emergency is canned in every deployment.
DirectAlways(class) == class \in {"emergency", "reset", "canned"}

\* The classes that are answered without retrieval.
Direct(class) ==
  \/ class \in {"reset", "canned"}
  \/ class = "emergency" /\ ~settings.emergencyRag

\* Classification, and for a routed message the read of the chat history.
Classified(q) ==
  LET s == request[q].sender IN
  IF Direct(request[q].class)
    THEN /\ request' = [request EXCEPT ![q] = [@ EXCEPT !.at = "sending", !.reply = "canned"]]
         /\ history' = IF request[q].class = "reset"
                         THEN [history EXCEPT ![s] = <<>>] ELSE history
    ELSE /\ request' = [request EXCEPT ![q] = [@ EXCEPT !.at = "retrieving", !.memory = history[s]]]
         /\ UNCHANGED history

\* The filter's answer to /validate, with status 200 and within five seconds.
Validated(q) ==
  /\ Is(q, "filtering")
  /\ \E risky, valid \in BOOLEAN :
       /\ Validate(request[q].sender, risky, valid) /\ filterUp'
       /\ IF valid THEN Classified(q)
          ELSE /\ request' = [request EXCEPT ![q] = [@ EXCEPT !.at = "sending", !.reply = "blocked"]]
               /\ UNCHANGED history
  /\ UNCHANGED <<settings, hunt>>

\* No such answer, whether the filter runs or not: the router goes on without
\* it. The filter may have validated the message all the same.
Unvalidated(q) ==
  /\ Is(q, "filtering")
  /\ UNCHANGED filter \/ ValidateUnheard(request[q].sender)
  /\ Classified(q)
  /\ UNCHANGED <<settings, hunt>>

Filter(q) == Validated(q) \/ Unvalidated(q)

\* Mutant of Remember: emergency turns are remembered too.
RememberAll(q) ==
  LET turns == Append(history[request[q].sender], q) IN
  history' = [history EXCEPT ![request[q].sender] =
                IF Len(turns) > MaxTurns THEN Tail(turns) ELSE turns]

\* add_turn, which keeps the last turns.
Remember(q) ==
  LET turns == Append(history[request[q].sender], q) IN
  history' = IF request[q].class # "query" THEN history
             ELSE [history EXCEPT ![request[q].sender] =
                     IF Len(turns) > MaxTurns THEN Tail(turns) ELSE turns]

\* Mutant of Choice: evidence without vector support counts as grounding.
ChoiceUnsupported(class, found, supported, strong, short) ==
  CASE found /\ strong /\ (short \/ class = "emergency") -> "rag_direct"
    [] class = "emergency" -> "refused_emergency_grounding"
    [] settings.groundingRequired /\ ~found -> "refused_grounding"
    [] ~settings.generation -> "refused_generation_disabled"
    [] OTHER -> "unset"

\* The answer to a routed message; "unset" is left to the language model.
\* strong: the top score reaches rag_direct_threshold; short: the document
\* fits rag_direct_max_chars.
Choice(class, found, supported, strong, short) ==
  CASE found /\ strong /\ supported /\ (short \/ class = "emergency") -> "rag_direct"
    [] class = "emergency" -> "refused_emergency_grounding"
    [] settings.groundingRequired /\ ~(found /\ supported) -> "refused_grounding"
    [] ~settings.generation -> "refused_generation_disabled"
    [] OTHER -> "unset"

\* route_to_rag returns, and the answer is chosen without another await.
Retrieve(q) ==
  /\ Is(q, "retrieving")
  /\ \E status \in Status \ {"none"}, vector, strong, short \in BOOLEAN :
       LET found == status = "grounded"
           supported == ~settings.vectorRequired \/ (found /\ vector)
           mode == Choice(request[q].class, found, supported, strong, short)
           known == [request[q] EXCEPT !.status = status, !.supported = supported, !.mode = mode]
       IN IF mode = "unset"
            THEN /\ request' = [request EXCEPT ![q] = [known EXCEPT !.at = "queued"]]
                 /\ UNCHANGED history
            ELSE /\ request' = [request EXCEPT ![q] = [known EXCEPT !.at = "sending",
                      !.reply = IF mode = "rag_direct" THEN "document" ELSE "refusal"]]
                 /\ Remember(q)
  /\ UNCHANGED <<filter, settings, hunt>>

-----------------------------------------------------------------------------
(* The language model, delivery, attribution *)

TakeSlot(q) ==
  /\ Is(q, "queued") /\ Cardinality(Generating) < Slots
  /\ request' = [request EXCEPT ![q].at = "generating"]
  /\ UNCHANGED <<filter, settings, history, hunt>>

Generate(q) ==
  /\ Is(q, "generating")
  /\ request' = [request EXCEPT ![q] = [@ EXCEPT !.at = "sending", !.reply = "generated",
       !.mode = IF request[q].mode = "unset" /\ request[q].status = "grounded"
                  THEN "llm_grounded" ELSE "llm_ungrounded"]]
  /\ Remember(q)
  /\ UNCHANGED <<filter, settings, hunt>>

\* Two attempts, both in the slot; then an apology, which is remembered as well.
GenerateFails(q) ==
  /\ Is(q, "generating")
  /\ IF request[q].tries = 0
       THEN request' = [request EXCEPT ![q].tries = 1] /\ UNCHANGED history
       ELSE /\ request' = [request EXCEPT ![q] = [@ EXCEPT !.at = "sending", !.reply = "sorry"]]
            /\ Remember(q)
  /\ UNCHANGED <<filter, settings, hunt>>

\* What the validators of AnswerAttribution accept. The evidence may be empty
\* although documents were found.
Accepted(status, mode, grounded, evidence) ==
  /\ mode \in {"rag_direct", "llm_grounded", "llm_ungrounded", "refused_grounding",
               "refused_generation_disabled", "refused_emergency_grounding", "error"}
  /\ grounded <=> mode \in {"rag_direct", "llm_grounded"}
  /\ evidence => status = "grounded"

\* _finalize_answer_attribution: no record without a trace, and a trace without
\* a mode is recorded as an error.
Attributes(q, evidence) ==
  LET mode == IF request[q].mode = "unset" THEN "error" ELSE request[q].mode IN
  \/ request[q].status = "none"
  \/ Accepted(request[q].status, mode, mode \in {"rag_direct", "llm_grounded"}, evidence)

\* Mutant of Evidence: references of a search that found nothing are kept.
EvidenceKept(status) == BOOLEAN

\* Whether route_to_rag leaves references in the trace: the identifiers of what
\* was found may all be unfit.
Evidence(status) == IF status = "grounded" THEN BOOLEAN ELSE {FALSE}

\* The parts of the answer are sent, whatever becomes of each, and only then is
\* the attribution built; a record that is refused raises after delivery.
Send(q) ==
  /\ Is(q, "sending")
  /\ \E evidence \in Evidence(request[q].status) :
       request' = [request EXCEPT ![q] =
                     Ended(q, IF Attributes(q, evidence) THEN "done" ELSE "raised")]
  /\ UNCHANGED <<filter, settings, history, hunt>>

\* _evict_loop, after an hour of silence, or a day for the hunt.
Evict(s) ==
  /\ \/ history[s] # <<>> /\ history' = [history EXCEPT ![s] = <<>>] /\ UNCHANGED hunt
     \/ hunt[s] # 0 /\ hunt' = [hunt EXCEPT ![s] = 0] /\ UNCHANGED history
  /\ \A q \in Request : request[q].sender = s => request[q].at \in {"new", "done", "raised", "gone"}
  /\ UNCHANGED <<filter, settings, request>>

\* The process ends: history and hunts are in memory.
RouterRestarts ==
  /\ request' = [q \in Request |->
                   IF Is(q, "new") THEN request[q]
                   ELSE [Untouched(request[q].sender) EXCEPT !.at = "gone"]]
  /\ history' = [s \in Sender |-> <<>>]
  /\ hunt' = [s \in Sender |-> 0]
  /\ UNCHANGED <<filter, settings>>

-----------------------------------------------------------------------------

Init ==
  /\ FilterInit
  /\ settings \in Profiles
  /\ request \in [Request -> {Untouched(s) : s \in Sender}]
  /\ history = [s \in Sender |-> <<>>]
  /\ hunt = [s \in Sender |-> 0]

Advance(q) ==
  \/ Filter(q) \/ Retrieve(q) \/ TakeSlot(q) \/ Generate(q) \/ GenerateFails(q) \/ Send(q)

Next ==
  \/ \E q \in Request : Arrive(q) \/ Advance(q)
  \/ \E s \in Sender : Evict(s)
  \/ RouterRestarts
  \/ FilterStep /\ UNCHANGED <<settings, request, history, hunt>>

Spec == Init /\ [][Next]_vars

-----------------------------------------------------------------------------
(* Properties *)

\* Every variable holds a value of its kind.
TypeOK ==
  /\ settings \in Settings
  /\ request \in [Request -> [at : Place, sender : Sender, class : Class,
                              memory : Seq(Request), status : Status,
                              supported : BOOLEAN, mode : Mode, reply : Reply, tries : 0..1]]
  /\ history \in [Sender -> Seq(Request)]
  /\ hunt \in [Sender -> 0..Clues + 1]
  /\ blocked \subseteq Sender /\ toldBlocked \subseteq Sender

\* Field grounding mode: what the language model says is never the answer to
\* an emergency, never an answer where generation is disabled, and, where
\* grounding is required, never an answer without supported evidence. An
\* emergency is not answered with the conference's canned text either.
FieldSafe ==
  \A q \in {p \in Request : Is(p, "sending")} : LET r == request[q] IN
    /\ r.reply = "generated" =>
         /\ r.class = "query" /\ settings.generation
         /\ settings.groundingRequired => r.mode = "llm_grounded" /\ r.supported
    /\ r.class = "emergency" /\ settings.emergencyRag => r.reply # "canned"
    /\ r.mode = "rag_direct" => r.status = "grounded" /\ r.supported

\* No answer is sent and then fails on its own attribution record: that would
\* leave the message unacknowledged and have it answered again and again.
NeverRaisesAfterSending == \A q \in Request : ~Is(q, "raised")

\* The chat history of a sender holds only his own finished questions, each
\* once and no more than MaxTurns, whatever runs concurrently, and it is all
\* the language model is given; emergencies are not remembered.
MemoryPrivate ==
  \A s \in Sender :
    /\ Len(history[s]) <= MaxTurns
    /\ \A i \in 1..Len(history[s]) :
         /\ request[history[s][i]].sender = s
         /\ request[history[s][i]].class = "query"
         /\ request[history[s][i]].reply # "none"
         /\ \A j \in 1..Len(history[s]) : history[s][i] = history[s][j] => i = j
    /\ \A q \in Request, i \in 1..MaxTurns :
         request[q].sender = s /\ i <= Len(request[q].memory)
           => request[request[q].memory[i]].sender = s

\* Once the blocking of a user was confirmed, and until it is lifted, every
\* message of his that the filter validates in time is answered as blocked, also
\* after restarts of the filter, unless a save of its files was cut short since.
\* Hunt replies are sent before the filter is asked, and a call of /validate
\* that fails or is too slow stops no message: both are outside the promise.
BlockRespected ==
  [][\A q \in Request :
       Validated(q) /\ request[q].sender \in toldBlocked
         => request'[q].reply = "blocked"]_vars
=============================================================================

---------------------------- MODULE AnswerProofs ----------------------------
(***************************************************************************)
(* Proofs about what a user is answered. Of the router, for any senders,   *)
(* requests at once, profiles, clues, slots and turns, and any behaviour   *)
(* of the filter: whom the language model may answer and what it is told,  *)
(* that nothing raises after the delivery, and that a confirmed block      *)
(* holds. Of the RAG service, for any documents, packages, requests at     *)
(* once, faults and restarts: that a search finds by vector what it finds  *)
(* by words, that the index of a package is reused, and that a restart     *)
(* keeps the documents.                                                    *)
(***************************************************************************)
EXTENDS MessageRouter, KnowledgeBase, FiniteSetTheorems, TLAPS

Req == [at : Place, sender : Sender, class : Class, memory : Seq(Request),
        status : Status, supported : BOOLEAN, mode : Mode, reply : Reply, tries : 0..1]

\* What is known of a request at each place it passes: the language model is
\* only reached by a question that may be generated and is grounded if it must.
RequestSafe(r) ==
  /\ r.at \in {"new", "filtering", "retrieving"} => r.mode = "unset" /\ r.reply = "none"
  /\ r.at = "retrieving" => ~Direct(r.class)
  /\ r.at \in {"queued", "generating"} =>
       /\ r.class = "query" /\ r.mode = "unset" /\ settings.generation
       /\ settings.groundingRequired => r.status = "grounded" /\ r.supported
  /\ r.at = "sending" =>
       /\ r.reply = "generated" =>
            /\ r.class = "query" /\ settings.generation
            /\ settings.groundingRequired => r.mode = "llm_grounded" /\ r.supported
       /\ r.class = "emergency" /\ settings.emergencyRag => r.reply # "canned"
       /\ r.mode = "rag_direct" => r.status = "grounded" /\ r.supported
       /\ r.mode = "llm_grounded" => r.status = "grounded"
  /\ r.at # "raised"

\* A request whose answer is decided; only Send and a restart still change it.
Settled(r) == r.at \in {"sending", "done", "raised"}

Remembered(q, s) ==
  /\ Settled(request[q])
  /\ request[q].sender = s /\ request[q].class = "query" /\ request[q].reply # "none"

HistoryTrue ==
  \A s \in Sender :
    /\ Len(history[s]) <= MaxTurns
    /\ \A i \in 1..Len(history[s]) :
         /\ Remembered(history[s][i], s)
         /\ \A j \in 1..Len(history[s]) : history[s][i] = history[s][j] => i = j

MemoryTrue ==
  \A q \in Request : \A i \in 1..Len(request[q].memory) :
    request[request[q].memory[i]].sender = request[q].sender

\* The confirmed blocks are in memory and, while no save was cut short, on disk.
BlocksKept ==
  /\ toldBlocked \subseteq blocked /\ store.users \subseteq Sender
  /\ toldBlocked # {} => store.intact /\ toldBlocked \subseteq store.users

RequestsSafe == \A q \in Request : RequestSafe(request[q])

RouterInv == TypeOK /\ RequestsSafe /\ HistoryTrue /\ MemoryTrue /\ BlocksKept

-----------------------------------------------------------------------------
(* Lemmas *)

\* What add_turn makes of the turns t of a sender.
Kept(t, q) == IF Len(Append(t, q)) > MaxTurns THEN Tail(Append(t, q)) ELSE Append(t, q)

\* It leaves the last turns, the new one among them.
LEMMA LastTurns ==
  ASSUME NEW t \in Seq(Request), NEW q \in Request, Len(t) <= MaxTurns,
         \A i, j \in 1..Len(t) : t[i] = t[j] => i = j,
         \A i \in 1..Len(t) : t[i] # q,
         NEW u, u = Kept(t, q)
  PROVE  /\ u \in Seq(Request) /\ Len(u) <= MaxTurns
         /\ \A i \in 1..Len(u) : u[i] = q \/ \E k \in 1..Len(t) : u[i] = t[k]
         /\ \A i, j \in 1..Len(u) : u[i] = u[j] => i = j
<1>. DEFINE a == Append(t, q)
<1>1. /\ a \in Seq(Request) /\ Len(a) = Len(t) + 1 /\ Len(t) \in Nat
      /\ \A i \in 1..Len(t) : a[i] = t[i]
      /\ a[Len(t) + 1] = q
  OBVIOUS
<1>2. \A i, j \in 1..Len(a) : a[i] = a[j] => i = j
  <2>1. \A i \in 1..Len(a) : i \in 1..Len(t) \/ i = Len(t) + 1
    BY <1>1
  <2>. HIDE DEF a
  <2>. QED BY <1>1, <2>1
<1>3. MaxTurns \in Nat \ {0}
  BY RouterAssumption
<1>4. CASE Len(a) > MaxTurns
  <2>1. u = Tail(a)
    BY <1>4 DEF Kept
  <2>2. /\ u \in Seq(Request) /\ Len(u) = Len(t)
        /\ \A i \in 1..Len(t) : u[i] = a[i + 1]
    BY <1>1, <2>1
  <2>. HIDE DEF a
  <2>3. \A i \in 1..Len(t) : i + 1 \in 1..Len(a) /\ (i + 1 \in 1..Len(t) \/ i + 1 = Len(t) + 1)
    BY <1>1
  <2>4. \A i \in 1..Len(u) : u[i] = q \/ \E k \in 1..Len(t) : u[i] = t[k]
    BY <1>1, <2>2, <2>3
  <2>5. \A i, j \in 1..Len(u) : u[i] = u[j] => i = j
    <3>. SUFFICES ASSUME NEW i \in 1..Len(t), NEW j \in 1..Len(t), u[i] = u[j] PROVE i = j
      BY <2>2
    <3>1. i + 1 = j + 1
      BY <1>2, <2>2, <2>3
    <3>. QED BY <3>1
  <2>. QED BY <2>2, <2>4, <2>5
<1>5. CASE ~(Len(a) > MaxTurns)
  <2>1. u = a
    BY <1>5 DEF Kept
  <2>. HIDE DEF a
  <2>2. \A i \in 1..Len(u) : u[i] = q \/ \E k \in 1..Len(t) : u[i] = t[k]
    <3>1. \A i \in 1..Len(a) : i \in 1..Len(t) \/ i = Len(t) + 1
      BY <1>1
    <3>. QED BY <1>1, <2>1, <3>1
  <2>. QED BY <1>1, <1>2, <1>3, <1>5, <2>1, <2>2
<1>. QED BY <1>4, <1>5

\* What one step makes of one request. Its sender stays, what it knows is safe,
\* a decided answer stays decided, and it is given nobody else's history.
Proceeds(q, next) ==
  LET r == request[q] IN
  /\ request' = [request EXCEPT ![q] = next]
  /\ next.sender = r.sender
  /\ RequestSafe(next)
  /\ Settled(r) => Settled(next) /\ next.class = r.class /\ next.reply = r.reply
  /\ next.memory \in {<<>>, r.memory, history[r.sender]}

\* And of the history: nothing, /reset of the sender, or the turn of a request
\* whose answer is decided by this step.
HistoryFollows(q, next) ==
  LET r == request[q] IN
  \/ UNCHANGED history
  \/ history' = [history EXCEPT ![r.sender] = <<>>]
  \/ /\ Remember(q) /\ ~Settled(r)
     /\ Settled(next) /\ next.class = r.class /\ next.reply # "none"

\* A step of one request keeps what is known of the requests and the history.
LEMMA OneProceeds ==
  ASSUME TypeOK, RequestsSafe, HistoryTrue, MemoryTrue,
         NEW q \in Request, NEW next \in Req,
         Proceeds(q, next), HistoryFollows(q, next)
  PROVE  /\ request' \in [Request -> Req] /\ history' \in [Sender -> Seq(Request)]
         /\ \A p \in Request : RequestSafe(request'[p])
         /\ HistoryTrue' /\ MemoryTrue'
<1>1. /\ request \in [Request -> Req] /\ history \in [Sender -> Seq(Request)]
      /\ request' = [request EXCEPT ![q] = next]
      /\ next.sender = request[q].sender
  BY DEF TypeOK, Req, Proceeds
<1>2. request' \in [Request -> Req] /\ request'[q] = next
      /\ \A p \in Request \ {q} : request'[p] = request[p]
  BY <1>1
<1>3. \A p \in Request : RequestSafe(request'[p])
  BY <1>2 DEF Proceeds, RequestsSafe
<1>4. \A p \in Request : request'[p].sender = request[p].sender
  BY <1>1, <1>2
<1>5. \A p \in Request, s \in Sender : Remembered(p, s) => Remembered(p, s)'
  <2>. SUFFICES ASSUME NEW p \in Request, NEW s \in Sender, Remembered(p, s)
                PROVE  Remembered(p, s)'
    OBVIOUS
  <2>1. CASE p # q
    BY <1>2, <2>1 DEF Remembered, Settled
  <2>2. CASE p = q
    BY <1>2, <2>2 DEF Remembered, Settled, Proceeds
  <2>. QED BY <2>1, <2>2
<1>6. \A p \in Request : request[p].sender \in Sender /\ request[p].memory \in Seq(Request)
  BY <1>1 DEF Req
<1>7. history' \in [Sender -> Seq(Request)] /\ HistoryTrue'
  <2>1. CASE UNCHANGED history
    BY <1>1, <1>5, <2>1 DEF HistoryTrue
  <2>2. CASE history' = [history EXCEPT ![request[q].sender] = <<>>]
    <3>1. MaxTurns \in Nat
      BY RouterAssumption
    <3>2. history' \in [Sender -> Seq(Request)]
      <4>1. <<>> \in Seq(Request)
        OBVIOUS
      <4>. QED BY <1>1, <2>2, <4>1
    <3>3. \A s \in Sender : history'[s] = history[s] \/ history'[s] = <<>>
      BY <1>1, <2>2
    <3>. QED BY <1>1, <1>5, <3>1, <3>2, <3>3 DEF HistoryTrue
  <2>3. CASE Remember(q) /\ ~Settled(request[q]) /\ Settled(next)
             /\ next.class = request[q].class /\ next.reply # "none"
    <3>1. CASE request[q].class # "query"
      BY <1>1, <1>5, <2>3, <3>1 DEF HistoryTrue, Remember
    <3>2. CASE request[q].class = "query"
      <4>1. PICK s \in Sender, t \in Seq(Request) : s = request[q].sender /\ t = history[s]
        BY <1>1, <1>6
      <4>2. PICK u : u = Kept(t, q)
        OBVIOUS
      <4>3. history' = [history EXCEPT ![s] = u]
        BY <2>3, <3>2, <4>1, <4>2 DEF Remember, Kept
      <4>4. Len(t) <= MaxTurns /\ \A i, j \in 1..Len(t) : t[i] = t[j] => i = j
        BY <4>1 DEF HistoryTrue
      <4>5. \A i \in 1..Len(t) : Remembered(t[i], s) /\ t[i] # q
        BY <2>3, <4>1 DEF HistoryTrue, Remembered
      <4>6. /\ u \in Seq(Request) /\ Len(u) <= MaxTurns
            /\ \A i \in 1..Len(u) : u[i] = q \/ \E k \in 1..Len(t) : u[i] = t[k]
            /\ \A i, j \in 1..Len(u) : u[i] = u[j] => i = j
        <5>1. \A i \in 1..Len(t) : t[i] # q
          BY <4>5
        <5>2. \A i, j \in 1..Len(t) : t[i] = t[j] => i = j
          BY <4>4
        <5>3. t \in Seq(Request) /\ q \in Request /\ Len(t) <= MaxTurns
          BY <4>1, <4>4
        <5>. QED BY <4>2, <5>1, <5>2, <5>3, LastTurns
      <4>7. Remembered(q, s)'
        BY <1>1, <1>2, <2>3, <3>2, <4>1 DEF Remembered, Settled
      <4>8. history' \in [Sender -> Seq(Request)] /\ history'[s] = u
            /\ \A z \in Sender \ {s} : history'[z] = history[z]
        BY <1>1, <4>3, <4>6
      <4>9. ASSUME NEW i \in 1..Len(u) PROVE Remembered(u[i], s)'
        BY <1>5, <4>5, <4>6, <4>7
      <4>10. ASSUME NEW z \in Sender
             PROVE  /\ Len(history'[z]) <= MaxTurns
                    /\ \A i \in 1..Len(history'[z]) :
                         /\ Remembered(history[z][i], z)'
                         /\ \A j \in 1..Len(history'[z]) : history'[z][i] = history'[z][j] => i = j
        <5>1. CASE z = s
          BY <4>6, <4>8, <4>9, <5>1 DEF Remembered
        <5>2. CASE z # s
          <6>1. PICK v \in Seq(Request) : v = history[z] /\ v = history'[z]
            BY <1>1, <4>8, <5>2
          <6>2. /\ Len(v) <= MaxTurns
                /\ \A i \in 1..Len(v) :
                     /\ Remembered(v[i], z)
                     /\ \A j \in 1..Len(v) : v[i] = v[j] => i = j
            BY <6>1 DEF HistoryTrue
          <6>3. \A i \in 1..Len(v) : Remembered(v[i], z)'
            BY <1>5, <6>2
          <6>. QED BY <6>1, <6>2, <6>3 DEF Remembered
        <5>. QED BY <5>1, <5>2
      <4>. QED BY <4>8, <4>10 DEF HistoryTrue
    <3>. QED BY <3>1, <3>2
  <2>. QED BY <2>1, <2>2, <2>3 DEF HistoryFollows
<1>8. MemoryTrue'
  <2>1. ASSUME NEW p \in Request, NEW i \in 1..Len(request'[p].memory)
        PROVE  request[request'[p].memory[i]].sender = request[p].sender
               /\ request'[p].memory[i] \in Request
    <3>1. CASE request'[p].memory = request[p].memory
      BY <1>6, <2>1, <3>1 DEF MemoryTrue
    <3>2. CASE request'[p].memory = <<>>
      BY <2>1, <3>2
    <3>3. CASE p = q /\ request'[p].memory = history[request[q].sender]
      BY <1>1, <1>6, <2>1, <3>3 DEF HistoryTrue, Remembered
    <3>. QED BY <1>2, <3>1, <3>2, <3>3 DEF Proceeds
  <2>. QED BY <1>4, <2>1 DEF MemoryTrue
<1>. QED BY <1>2, <1>3, <1>7, <1>8

OneStep(q) == \E next \in Req : Proceeds(q, next) /\ HistoryFollows(q, next)

LEMMA ArriveStep ==
  ASSUME TypeOK, RequestsSafe, NEW q \in Request, Arrive(q)
  PROVE  OneStep(q) /\ hunt' \in [Sender -> 0..Clues + 1]
<1>1. request \in [Request -> Req] /\ hunt \in [Sender -> 0..Clues + 1] /\ Clues \in Nat
  BY RouterAssumption DEF TypeOK, Req
<1>2. PICK r \in Req : r = request[q]
  BY <1>1
<1>3. RequestSafe(r) /\ r.at = "new" /\ r.sender \in Sender
  BY <1>2 DEF RequestsSafe, Arrive, Is, Req
<1>4. PICK class \in Class, text \in HuntText :
        IF HuntReplies(r.sender, text)
          THEN /\ hunt' = [hunt EXCEPT ![r.sender] = NextClue(r.sender, text)]
               /\ request' = [request EXCEPT ![q] = [r EXCEPT
                    !.at = "sending", !.class = class, !.reply = "hunt"]]
          ELSE /\ UNCHANGED hunt
               /\ request' = [request EXCEPT ![q] = [r EXCEPT
                    !.at = "filtering", !.class = class]]
  BY <1>1, <1>2 DEF Arrive
<1>5. UNCHANGED <<history, settings>>
  BY DEF Arrive
<1>6. CASE HuntReplies(r.sender, text)
  <2>1. PICK next : next = [r EXCEPT !.at = "sending", !.class = class, !.reply = "hunt"]
    OBVIOUS
  <2>2. /\ next \in Req /\ next.at = "sending" /\ next.reply = "hunt" /\ next.mode = "unset"
        /\ next.sender = r.sender /\ next.memory = r.memory
    BY <1>3, <2>1 DEF Req, Place, Reply, RequestSafe
  <2>3. RequestSafe(next)
    BY <2>2 DEF RequestSafe
  <2>4. request' = [request EXCEPT ![q] = next]
    BY <1>4, <1>6, <2>1
  <2>5. NextClue(r.sender, text) \in 0..Clues + 1
    BY <1>1, <1>3, <1>6 DEF NextClue, HuntReplies
  <2>6. hunt' \in [Sender -> 0..Clues + 1]
    BY <1>1, <1>4, <1>6, <2>5
  <2>. QED BY <1>2, <1>3, <1>5, <2>2, <2>3, <2>4, <2>6 DEF OneStep, Proceeds, HistoryFollows, Settled
<1>7. CASE ~HuntReplies(r.sender, text)
  <2>1. PICK next : next = [r EXCEPT !.at = "filtering", !.class = class]
    OBVIOUS
  <2>2. /\ next \in Req /\ next.at = "filtering" /\ next.mode = "unset" /\ next.reply = "none"
        /\ next.sender = r.sender /\ next.memory = r.memory
    BY <1>3, <2>1 DEF Req, Place, RequestSafe
  <2>3. RequestSafe(next)
    BY <2>2 DEF RequestSafe
  <2>4. request' = [request EXCEPT ![q] = next] /\ UNCHANGED hunt
    BY <1>4, <1>7, <2>1
  <2>. QED BY <1>1, <1>2, <1>3, <1>5, <2>2, <2>3, <2>4 DEF OneStep, Proceeds, HistoryFollows, Settled
<1>. QED BY <1>6, <1>7

LEMMA ClassifiedStep ==
  ASSUME TypeOK, RequestsSafe, NEW q \in Request, Is(q, "filtering"), Classified(q)
  PROVE  OneStep(q)
<1>1. request \in [Request -> Req] /\ history \in [Sender -> Seq(Request)]
  BY DEF TypeOK, Req
<1>2. PICK r \in Req : r = request[q]
  BY <1>1
<1>3. RequestSafe(r) /\ r.at = "filtering" /\ r.sender \in Sender
  BY <1>2 DEF RequestsSafe, Is, Req
<1>4. CASE Direct(r.class)
  <2>1. PICK next : next = [r EXCEPT !.at = "sending", !.reply = "canned"]
    OBVIOUS
  <2>2. /\ next \in Req /\ next.at = "sending" /\ next.reply = "canned" /\ next.mode = "unset"
        /\ next.sender = r.sender /\ next.memory = r.memory /\ next.class = r.class
    BY <1>3, <2>1 DEF Req, Place, Reply, RequestSafe
  <2>3. RequestSafe(next)
    BY <1>4, <2>2 DEF RequestSafe, Direct
  <2>4. request' = [request EXCEPT ![q] = next]
    BY <1>2, <1>4, <2>1 DEF Classified
  <2>5. history' = [history EXCEPT ![r.sender] = <<>>] \/ history' = history
    BY <1>2, <1>4 DEF Classified
  <2>. QED BY <1>2, <1>3, <2>2, <2>3, <2>4, <2>5 DEF OneStep, Proceeds, HistoryFollows, Settled
<1>5. CASE ~Direct(r.class)
  <2>1. PICK next : next = [r EXCEPT !.at = "retrieving", !.memory = history[r.sender]]
    OBVIOUS
  <2>2. /\ next \in Req /\ next.at = "retrieving" /\ next.mode = "unset" /\ next.reply = "none"
        /\ next.sender = r.sender /\ next.memory = history[r.sender] /\ next.class = r.class
    BY <1>1, <1>3, <2>1 DEF Req, Place, RequestSafe
  <2>3. RequestSafe(next)
    BY <1>5, <2>2 DEF RequestSafe
  <2>4. request' = [request EXCEPT ![q] = next] /\ UNCHANGED history
    BY <1>2, <1>5, <2>1 DEF Classified
  <2>. QED BY <1>2, <1>3, <2>2, <2>3, <2>4 DEF OneStep, Proceeds, HistoryFollows, Settled
<1>. QED BY <1>4, <1>5

LEMMA FilteringStep ==
  ASSUME TypeOK, RequestsSafe, NEW q \in Request, Filter(q)
  PROVE  OneStep(q)
<1>1. CASE Classified(q)
  BY <1>1, ClassifiedStep DEF Filter, Validated, Unvalidated
<1>2. CASE /\ request' = [request EXCEPT ![q] = [@ EXCEPT !.at = "sending", !.reply = "blocked"]]
           /\ UNCHANGED history
  <2>1. request \in [Request -> Req]
    BY DEF TypeOK, Req
  <2>2. PICK r \in Req : r = request[q]
    BY <2>1
  <2>3. RequestSafe(r) /\ r.at = "filtering"
    BY <2>2 DEF RequestsSafe, Filter, Validated, Unvalidated, Is
  <2>4. PICK next : next = [r EXCEPT !.at = "sending", !.reply = "blocked"]
    OBVIOUS
  <2>5. /\ next \in Req /\ next.at = "sending" /\ next.reply = "blocked" /\ next.mode = "unset"
        /\ next.sender = r.sender /\ next.memory = r.memory
    BY <2>3, <2>4 DEF Req, Place, Reply, RequestSafe
  <2>6. RequestSafe(next)
    BY <2>5 DEF RequestSafe
  <2>7. request' = [request EXCEPT ![q] = next]
    BY <1>2, <2>2, <2>4
  <2>. QED BY <1>2, <2>2, <2>3, <2>5, <2>6, <2>7 DEF OneStep, Proceeds, HistoryFollows, Settled
<1>. QED BY <1>1, <1>2 DEF Filter, Validated, Unvalidated

LEMMA RetrieveStep ==
  ASSUME TypeOK, RequestsSafe, NEW q \in Request, Retrieve(q)
  PROVE  OneStep(q)
<1>1. request \in [Request -> Req] /\ settings \in Settings
  BY DEF TypeOK, Req
<1>2. PICK r \in Req : r = request[q]
  BY <1>1
<1>3. RequestSafe(r) /\ r.at = "retrieving" /\ r.mode = "unset" /\ ~Direct(r.class)
  BY <1>2 DEF RequestsSafe, RequestSafe, Retrieve, Is
<1>4. PICK status \in Status \ {"none"}, vector \in BOOLEAN, strong \in BOOLEAN, short \in BOOLEAN :
       LET found == status = "grounded"
           supported == ~settings.vectorRequired \/ (found /\ vector)
           mode == Choice(request[q].class, found, supported, strong, short)
           known == [request[q] EXCEPT !.status = status, !.supported = supported, !.mode = mode]
       IN IF mode = "unset"
            THEN /\ request' = [request EXCEPT ![q] = [known EXCEPT !.at = "queued"]]
                 /\ UNCHANGED history
            ELSE /\ request' = [request EXCEPT ![q] = [known EXCEPT !.at = "sending",
                      !.reply = IF mode = "rag_direct" THEN "document" ELSE "refusal"]]
                 /\ Remember(q)
  BY DEF Retrieve
<1>5. PICK supported \in BOOLEAN : supported = (~settings.vectorRequired \/ (status = "grounded" /\ vector))
  OBVIOUS
<1>6. PICK mode : mode = Choice(r.class, status = "grounded", supported, strong, short)
  OBVIOUS
<1>7. PICK next : next = [r EXCEPT !.status = status, !.supported = supported, !.mode = mode,
                            !.at = IF mode = "unset" THEN "queued" ELSE "sending",
                            !.reply = IF mode = "unset" THEN r.reply
                                      ELSE IF mode = "rag_direct" THEN "document" ELSE "refusal"]
  OBVIOUS
<1>8. /\ mode \in {"rag_direct", "refused_emergency_grounding", "refused_grounding",
                   "refused_generation_disabled", "unset"}
      /\ mode = "rag_direct" => status = "grounded" /\ supported
      /\ mode = "unset" => /\ r.class # "emergency" /\ settings.generation
                           /\ settings.groundingRequired => status = "grounded" /\ supported
  BY <1>6 DEF Choice, Settings
<1>9. /\ next \in Req /\ next.sender = r.sender /\ next.memory = r.memory /\ next.class = r.class
      /\ next.status = status /\ next.supported = supported /\ next.mode = mode
      /\ next.at = (IF mode = "unset" THEN "queued" ELSE "sending")
      /\ mode # "unset" => next.reply \in {"document", "refusal"}
  BY <1>7, <1>8 DEF Req, Place, Reply, Mode
<1>10. RequestSafe(next)
  <2>1. r.class \in {"query", "emergency"}
    BY <1>3 DEF Req, Class, Direct
  <2>. QED BY <1>8, <1>9, <2>1 DEF RequestSafe
<1>11. request' = [request EXCEPT ![q] = next] /\ (UNCHANGED history \/ (mode # "unset" /\ Remember(q)))
  <2>1. CASE mode = "unset"
    <3>1. next = [[r EXCEPT !.status = status, !.supported = supported, !.mode = mode] EXCEPT !.at = "queued"]
      BY <1>7, <2>1 DEF Req
    <3>. QED BY <1>2, <1>4, <1>5, <1>6, <2>1, <3>1
  <2>2. CASE mode # "unset"
    <3>1. next = [[r EXCEPT !.status = status, !.supported = supported, !.mode = mode]
                    EXCEPT !.at = "sending",
                           !.reply = IF mode = "rag_direct" THEN "document" ELSE "refusal"]
      BY <1>7, <2>2 DEF Req
    <3>. QED BY <1>2, <1>4, <1>5, <1>6, <2>2, <3>1
  <2>. QED BY <2>1, <2>2
<1>12. Proceeds(q, next)
  BY <1>2, <1>3, <1>9, <1>10, <1>11 DEF Proceeds, Settled
<1>13. HistoryFollows(q, next)
  BY <1>2, <1>3, <1>9, <1>11 DEF HistoryFollows, Settled
<1>. QED BY <1>9, <1>12, <1>13 DEF OneStep

LEMMA SlotStep ==
  ASSUME TypeOK, RequestsSafe, NEW q \in Request, TakeSlot(q)
  PROVE  OneStep(q)
<1>1. request \in [Request -> Req]
  BY DEF TypeOK, Req
<1>2. PICK r \in Req : r = request[q]
  BY <1>1
<1>3. PICK next : next = [r EXCEPT !.at = "generating"]
  OBVIOUS
<1>4. RequestSafe(r) /\ r.at = "queued" /\ request' = [request EXCEPT ![q] = next] /\ UNCHANGED history
  BY <1>2, <1>3 DEF RequestsSafe, TakeSlot, Is
<1>5. /\ next \in Req /\ next.at = "generating" /\ next.mode = r.mode /\ next.status = r.status
      /\ next.supported = r.supported /\ next.sender = r.sender /\ next.memory = r.memory
      /\ next.class = r.class
  BY <1>3 DEF Req, Place
<1>6. RequestSafe(next)
  BY <1>4, <1>5 DEF RequestSafe
<1>. QED BY <1>2, <1>4, <1>5, <1>6 DEF OneStep, Proceeds, HistoryFollows, Settled

LEMMA GenerateStep ==
  ASSUME TypeOK, RequestsSafe, NEW q \in Request, Generate(q)
  PROVE  OneStep(q)
<1>1. request \in [Request -> Req]
  BY DEF TypeOK, Req
<1>2. PICK r \in Req : r = request[q]
  BY <1>1
<1>3. RequestSafe(r) /\ r.at = "generating" /\ r.mode = "unset"
  BY <1>2 DEF RequestsSafe, RequestSafe, Generate, Is
<1>4. PICK mode \in {"llm_grounded", "llm_ungrounded"} :
        mode = (IF r.mode = "unset" /\ r.status = "grounded" THEN "llm_grounded" ELSE "llm_ungrounded")
  OBVIOUS
<1>5. PICK next : next = [r EXCEPT !.at = "sending", !.reply = "generated", !.mode = mode]
  OBVIOUS
<1>6. request' = [request EXCEPT ![q] = next] /\ Remember(q)
  <2>1. request' = [request EXCEPT ![q] = [request[q] EXCEPT !.at = "sending", !.reply = "generated",
          !.mode = IF request[q].mode = "unset" /\ request[q].status = "grounded"
                     THEN "llm_grounded" ELSE "llm_ungrounded"]]
    BY DEF Generate
  <2>. QED BY <1>2, <1>4, <1>5, <2>1 DEF Generate
<1>7. /\ next \in Req /\ next.at = "sending" /\ next.mode = mode /\ next.status = r.status
      /\ next.supported = r.supported /\ next.sender = r.sender /\ next.memory = r.memory
      /\ next.class = r.class /\ next.reply = "generated"
  BY <1>4, <1>5 DEF Req, Place, Mode, Reply
<1>8. RequestSafe(next)
  BY <1>3, <1>4, <1>7 DEF RequestSafe
<1>. QED BY <1>2, <1>3, <1>6, <1>7, <1>8 DEF OneStep, Proceeds, HistoryFollows, Settled

LEMMA FailureStep ==
  ASSUME TypeOK, RequestsSafe, NEW q \in Request, GenerateFails(q)
  PROVE  OneStep(q)
<1>1. request \in [Request -> Req]
  BY DEF TypeOK, Req
<1>2. PICK r \in Req : r = request[q]
  BY <1>1
<1>3. RequestSafe(r) /\ r.at = "generating" /\ r.mode = "unset"
  BY <1>2 DEF RequestsSafe, RequestSafe, GenerateFails, Is
<1>4. CASE r.tries = 0
  <2>1. PICK next : next = [r EXCEPT !.tries = 1]
    OBVIOUS
  <2>2. request' = [request EXCEPT ![q] = next] /\ UNCHANGED history
    BY <1>2, <1>4, <2>1 DEF GenerateFails
  <2>3. /\ next \in Req /\ next.at = "generating" /\ next.mode = r.mode /\ next.status = r.status
        /\ next.supported = r.supported /\ next.sender = r.sender /\ next.memory = r.memory
        /\ next.class = r.class
    BY <1>3, <2>1 DEF Req
  <2>4. RequestSafe(next)
    BY <1>3, <2>3 DEF RequestSafe
  <2>. QED BY <1>2, <1>3, <2>2, <2>3, <2>4 DEF OneStep, Proceeds, HistoryFollows, Settled
<1>5. CASE r.tries # 0
  <2>1. PICK next : next = [r EXCEPT !.at = "sending", !.reply = "sorry"]
    OBVIOUS
  <2>2. request' = [request EXCEPT ![q] = next] /\ Remember(q)
    BY <1>2, <1>5, <2>1 DEF GenerateFails
  <2>3. /\ next \in Req /\ next.at = "sending" /\ next.mode = r.mode /\ next.reply = "sorry"
        /\ next.sender = r.sender /\ next.memory = r.memory /\ next.class = r.class
    BY <2>1 DEF Req, Place, Reply
  <2>4. RequestSafe(next)
    BY <1>3, <2>3 DEF RequestSafe
  <2>. QED BY <1>2, <1>3, <2>2, <2>3, <2>4 DEF OneStep, Proceeds, HistoryFollows, Settled
<1>. QED BY <1>4, <1>5

LEMMA SendStep ==
  ASSUME TypeOK, RequestsSafe, NEW q \in Request, Send(q)
  PROVE  OneStep(q)
<1>1. request \in [Request -> Req]
  BY DEF TypeOK, Req
<1>2. PICK r \in Req : r = request[q]
  BY <1>1
<1>3. r.at = "sending" /\ UNCHANGED history
  BY <1>2 DEF Send, Is
<1>4. PICK evidence \in Evidence(r.status) :
        request' = [request EXCEPT ![q] = Ended(q, IF Attributes(q, evidence) THEN "done" ELSE "raised")]
  BY <1>2 DEF Send
<1>5. Attributes(q, evidence)
  <2>1. evidence => r.status = "grounded"
    BY <1>4 DEF Evidence
  <2>2. r.mode \in Mode
    BY DEF Req
  <2>. QED BY <1>2, <2>1, <2>2 DEF Attributes, Accepted, Mode
<1>6. PICK next : next = Ended(q, "done")
  OBVIOUS
<1>7. /\ next \in Req /\ next.at = "done" /\ next.sender = r.sender /\ next.class = r.class
      /\ next.reply = r.reply /\ next.memory = <<>>
  <2>1. <<>> \in Seq(Request)
    OBVIOUS
  <2>2. next = [at |-> "done", sender |-> r.sender, class |-> r.class, memory |-> <<>>,
                status |-> "none", supported |-> FALSE, mode |-> "unset",
                reply |-> r.reply, tries |-> 0]
    BY <1>2, <1>6 DEF Ended, Untouched
  <2>. QED BY <2>1, <2>2 DEF Req, Place, Status, Mode
<1>8. RequestSafe(next)
  BY <1>7 DEF RequestSafe
<1>9. request' = [request EXCEPT ![q] = next]
  BY <1>4, <1>5, <1>6
<1>. QED BY <1>2, <1>3, <1>7, <1>8, <1>9 DEF OneStep, Proceeds, HistoryFollows, Settled

-----------------------------------------------------------------------------
(* The filter, evictions, restarts *)

\* Every step of the filter keeps the confirmed blocks.
FilterEffect == FilterStep \/ \E s \in Sender, risky, valid \in BOOLEAN : Validate(s, risky, valid)

\* A save that is complete, and one that was cut short.
LEMMA SaveKeepsBlocks ==
  ASSUME NEW users \in SUBSET Sender, NEW told \in SUBSET users, Save(users, told),
         store.users \subseteq Sender
  PROVE  /\ toldBlocked' \in {told, {}} /\ store'.users \subseteq Sender
         /\ toldBlocked' # {} => store'.intact /\ toldBlocked' \subseteq store'.users
<1>1. CASE store' = [intact |-> TRUE, users |-> users] /\ toldBlocked' = told
  BY <1>1
<1>2. CASE store' \in {[intact |-> FALSE, users |-> {}], store} /\ toldBlocked' = {}
  BY <1>2
<1>. QED BY <1>1, <1>2 DEF Save

LEMMA FilterKeepsBlocks ==
  ASSUME BlocksKept, blocked \subseteq Sender, FilterEffect
  PROVE  BlocksKept' /\ blocked' \subseteq Sender
<1>1. ASSUME NEW s \in Sender, BlockUser(s)
      PROVE  BlocksKept' /\ blocked' \subseteq Sender
  <2>1. blocked' = blocked \cup {s} /\ Save(blocked \cup {s}, toldBlocked \cup {s})
    BY <1>1 DEF BlockUser
  <2>. QED BY <2>1, SaveKeepsBlocks DEF BlocksKept
<1>2. ASSUME NEW s \in Sender, UnblockUser(s)
      PROVE  BlocksKept' /\ blocked' \subseteq Sender
  <2>1. blocked' = blocked \ {s} /\ Save(blocked \ {s}, toldBlocked \ {s})
    BY <1>2 DEF UnblockUser
  <2>. QED BY <2>1, SaveKeepsBlocks DEF BlocksKept
<1>3. ASSUME NEW s \in Sender, WindowPasses(s)
      PROVE  BlocksKept' /\ blocked' \subseteq Sender
  BY <1>3 DEF WindowPasses, BlocksKept
<1>4. ASSUME NEW s \in Sender, NEW risky \in BOOLEAN, NEW valid \in BOOLEAN, Validate(s, risky, valid)
      PROVE  BlocksKept' /\ blocked' \subseteq Sender
  <2>1. CASE UNCHANGED <<store, filterUp, toldBlocked>>
    BY <1>4, <2>1 DEF Validate, BlocksKept
  <2>2. CASE Save(blocked, toldBlocked)
    BY <1>4, <2>2, SaveKeepsBlocks DEF Validate, BlocksKept
  <2>. QED BY <1>4, <2>1, <2>2 DEF Validate, AuditEvent
<1>5. CASE FilterStops
  <2>1. CASE UNCHANGED store
    BY <1>5, <2>1 DEF FilterStops, BlocksKept
  <2>2. CASE store' = [intact |-> TRUE, users |-> blocked]
    BY <1>5, <2>2 DEF FilterStops, BlocksKept
  <2>. QED BY <1>5, <2>1, <2>2 DEF FilterStops
<1>6. CASE FilterStarts
  <2>1. UNCHANGED <<store, toldBlocked>> /\ blocked' = IF store.intact THEN store.users ELSE {}
    BY <1>6 DEF FilterStarts
  <2>. QED BY <2>1 DEF BlocksKept
<1>. QED BY <1>1, <1>2, <1>3, <1>4, <1>5, <1>6 DEF FilterEffect, FilterStep

LEMMA EvictKeeps ==
  ASSUME RouterInv, NEW s \in Sender, Evict(s)
  PROVE  RouterInv'
<1>1. /\ history \in [Sender -> Seq(Request)] /\ hunt \in [Sender -> 0..Clues + 1]
      /\ Clues \in Nat /\ MaxTurns \in Nat
  BY RouterAssumption DEF RouterInv, TypeOK
<1>2. /\ \A z \in Sender : history'[z] = history[z] \/ history'[z] = <<>>
      /\ history' \in [Sender -> Seq(Request)]
  <2>1. <<>> \in Seq(Request)
    OBVIOUS
  <2>. QED BY <1>1, <2>1 DEF Evict
<1>3. hunt' \in [Sender -> 0..Clues + 1]
  BY <1>1 DEF Evict
<1>4. UNCHANGED <<filter, settings, request>>
  BY DEF Evict
<1>5. TypeOK'
  BY <1>2, <1>3, <1>4 DEF RouterInv, TypeOK, filter
<1>6. RequestsSafe' /\ MemoryTrue' /\ BlocksKept'
  BY <1>4 DEF RouterInv, RequestsSafe, RequestSafe, Direct, MemoryTrue, BlocksKept, filter
<1>7. HistoryTrue'
  BY <1>1, <1>2, <1>4 DEF RouterInv, HistoryTrue, Remembered, Settled
<1>. QED BY <1>5, <1>6, <1>7 DEF RouterInv

LEMMA RestartHolds ==
  ASSUME RouterInv, RouterRestarts
  PROVE  RouterInv'
<1>1. /\ request \in [Request -> Req] /\ Clues \in Nat /\ MaxTurns \in Nat
  BY RouterAssumption DEF RouterInv, TypeOK, Req
<1>2. UNCHANGED <<filter, settings>>
  BY DEF RouterRestarts
<1>3. ASSUME NEW q \in Request
      PROVE  /\ request'[q] \in Req /\ RequestSafe(request'[q])
             /\ request'[q].sender = request[q].sender
             /\ request'[q].memory = request[q].memory \/ request'[q].memory = <<>>
  <2>1. CASE Is(q, "new")
    BY <1>1, <2>1 DEF RouterRestarts, RouterInv, RequestsSafe
  <2>2. CASE ~Is(q, "new")
    <3>1. PICK z \in Sender : z = request[q].sender
      BY <1>1 DEF Req
    <3>2. request'[q] = [at |-> "gone", sender |-> z, class |-> "query", memory |-> <<>>,
                         status |-> "none", supported |-> FALSE, mode |-> "unset",
                         reply |-> "none", tries |-> 0]
      BY <2>2, <3>1 DEF RouterRestarts, Untouched
    <3>3. <<>> \in Seq(Request)
      OBVIOUS
    <3>4. request'[q] \in Req
      BY <3>2, <3>3 DEF Req, Place, Class, Status, Mode, Reply
    <3>. QED BY <3>1, <3>2, <3>4 DEF RequestSafe
  <2>. QED BY <2>1, <2>2
<1>4. request' \in [Request -> Req]
  BY <1>3 DEF RouterRestarts
<1>5. history' \in [Sender -> Seq(Request)] /\ \A s \in Sender : history'[s] = <<>>
  <2>1. <<>> \in Seq(Request)
    OBVIOUS
  <2>. QED BY <2>1 DEF RouterRestarts
<1>6. TypeOK'
  <2>1. hunt' \in [Sender -> 0..Clues + 1]
    BY <1>1 DEF RouterRestarts
  <2>. QED BY <1>2, <1>4, <1>5, <2>1 DEF RouterInv, TypeOK, filter, Req
<1>7. RequestsSafe'
  BY <1>2, <1>3 DEF RequestsSafe, RequestSafe, Direct
<1>8. MemoryTrue'
  <2>. SUFFICES ASSUME NEW q \in Request, NEW i \in 1..Len(request'[q].memory)
                PROVE  request'[request'[q].memory[i]].sender = request'[q].sender
    BY DEF MemoryTrue
  <2>1. PICK m \in Seq(Request) : m = request[q].memory
    BY <1>1 DEF Req
  <2>2. request'[q].memory = m
    BY <1>3, <2>1
  <2>3. m[i] \in Request /\ request[m[i]].sender = request[q].sender
    BY <2>1, <2>2 DEF RouterInv, MemoryTrue
  <2>. QED BY <1>3, <2>2, <2>3
<1>9. HistoryTrue'
  BY <1>1, <1>5 DEF HistoryTrue
<1>10. BlocksKept'
  BY <1>2 DEF RouterInv, BlocksKept, filter
<1>. QED BY <1>6, <1>7, <1>8, <1>9, <1>10 DEF RouterInv

-----------------------------------------------------------------------------
(* The invariant *)

LEMMA Initially == Init => RouterInv
<1>. SUFFICES ASSUME Init PROVE RouterInv
  OBVIOUS
<1>1. <<>> \in Seq(Request) /\ Clues \in Nat /\ MaxTurns \in Nat
  BY RouterAssumption
<1>2. ASSUME NEW q \in Request
      PROVE  /\ request[q] \in Req /\ request[q].at = "new" /\ request[q].mode = "unset"
             /\ request[q].reply = "none"
             /\ request[q].memory = <<>>
  <2>1. PICK s \in Sender : request[q] = Untouched(s)
    BY DEF Init
  <2>. QED BY <1>1, <2>1 DEF Untouched, Req, Place, Class, Status, Mode, Reply
<1>3. TypeOK
  <2>1. request \in [Request -> Req]
    BY <1>2 DEF Init
  <2>. QED BY <1>1, <2>1, RouterAssumption DEF Init, FilterInit, TypeOK, Req
<1>4. RequestsSafe
  BY <1>2 DEF RequestsSafe, RequestSafe
<1>5. HistoryTrue /\ MemoryTrue
  BY <1>1, <1>2 DEF Init, HistoryTrue, MemoryTrue
<1>6. BlocksKept
  BY DEF Init, FilterInit, BlocksKept
<1>. QED BY <1>3, <1>4, <1>5, <1>6 DEF RouterInv

\* One step of one request.
LEMMA RequestStep ==
  ASSUME RouterInv, NEW q \in Request, Arrive(q) \/ Advance(q)
  PROVE  RouterInv'
<1>1. OneStep(q)
  BY ArriveStep, FilteringStep, RetrieveStep, SlotStep, GenerateStep, FailureStep, SendStep
    DEF RouterInv, Advance
<1>2. PICK next \in Req : Proceeds(q, next) /\ HistoryFollows(q, next)
  BY <1>1 DEF OneStep
<1>3. /\ request' \in [Request -> Req] /\ history' \in [Sender -> Seq(Request)]
      /\ \A p \in Request : RequestSafe(request'[p])
      /\ HistoryTrue' /\ MemoryTrue'
  BY <1>2, OneProceeds DEF RouterInv
<1>4. settings' = settings
  BY DEF Arrive, Advance, Filter, Validated, Unvalidated, Retrieve, TakeSlot, Generate, GenerateFails, Send
<1>5. RequestsSafe'
  BY <1>3, <1>4 DEF RequestsSafe, RequestSafe, Direct
<1>6. hunt' \in [Sender -> 0..Clues + 1]
  <2>1. CASE Arrive(q)
    BY <2>1, ArriveStep DEF RouterInv
  <2>2. CASE Advance(q)
    BY <2>2 DEF Advance, Filter, Validated, Unvalidated, Retrieve, TakeSlot, Generate, GenerateFails,
                Send, RouterInv, TypeOK
  <2>. QED BY <2>1, <2>2
<1>7. BlocksKept' /\ blocked' \subseteq Sender
  <2>1. CASE UNCHANGED filter
    BY <2>1 DEF RouterInv, TypeOK, BlocksKept, filter
  <2>2. CASE \E risky, valid \in BOOLEAN : Validate(request[q].sender, risky, valid)
    <3>1. request[q].sender \in Sender
      BY DEF RouterInv, TypeOK
    <3>. QED BY <2>2, <3>1, FilterKeepsBlocks DEF RouterInv, TypeOK, FilterEffect
  <2>. QED BY <2>1, <2>2
    DEF Arrive, Advance, Filter, Validated, Unvalidated, ValidateUnheard, Retrieve, TakeSlot,
        Generate, GenerateFails, Send
<1>8. TypeOK'
  BY <1>3, <1>4, <1>6, <1>7 DEF TypeOK, RouterInv, Req, BlocksKept
<1>. QED BY <1>3, <1>5, <1>7, <1>8 DEF RouterInv

LEMMA RouterInductive == RouterInv /\ [Next]_vars => RouterInv'
<1>. SUFFICES ASSUME RouterInv, [Next]_vars PROVE RouterInv'
  OBVIOUS
<1>1. ASSUME NEW q \in Request, Arrive(q) \/ Advance(q) PROVE RouterInv'
  BY <1>1, RequestStep
<1>2. ASSUME NEW s \in Sender, Evict(s) PROVE RouterInv'
  BY <1>2, EvictKeeps
<1>3. CASE RouterRestarts
  BY <1>3, RestartHolds
<1>4. CASE FilterStep /\ UNCHANGED <<settings, request, history, hunt>>
  <2>1. BlocksKept' /\ blocked' \subseteq Sender
    BY <1>4, FilterKeepsBlocks DEF RouterInv, TypeOK, FilterEffect
  <2>2. TypeOK'
    BY <1>4, <2>1 DEF RouterInv, TypeOK, BlocksKept
  <2>3. RequestsSafe' /\ MemoryTrue'
    BY <1>4 DEF RouterInv, RequestsSafe, RequestSafe, Direct, MemoryTrue
  <2>4. HistoryTrue'
    BY <1>4 DEF RouterInv, HistoryTrue, Remembered, Settled
  <2>. QED BY <2>1, <2>2, <2>3, <2>4 DEF RouterInv
<1>5. CASE UNCHANGED vars
  <2>1. TypeOK' /\ BlocksKept'
    BY <1>5 DEF vars, filter, RouterInv, TypeOK, BlocksKept
  <2>2. RequestsSafe' /\ MemoryTrue'
    BY <1>5 DEF vars, RouterInv, RequestsSafe, RequestSafe, Direct, MemoryTrue
  <2>3. HistoryTrue'
    BY <1>5 DEF vars, RouterInv, HistoryTrue, Remembered, Settled
  <2>. QED BY <2>1, <2>2, <2>3 DEF RouterInv
<1>. QED BY <1>1, <1>2, <1>3, <1>4, <1>5 DEF Next

\* The filter holds the confirmed blocks, and the router passes its word on.
LEMMA BlockedStays ==
  ASSUME RouterInv, NEW q \in Request, Validated(q), request[q].sender \in toldBlocked
  PROVE  request'[q].reply = "blocked"
<1>1. request \in [Request -> Req] /\ request[q].sender \in blocked
  BY DEF RouterInv, TypeOK, Req, BlocksKept
<1>2. request' = [request EXCEPT ![q] = [@ EXCEPT !.at = "sending", !.reply = "blocked"]]
  BY <1>1 DEF Validated, Validate
<1>. QED BY <1>1, <1>2 DEF Req

-----------------------------------------------------------------------------
(* Theorems *)

\* What the router knows of its requests, the history it keeps and the blocks
\* that were confirmed fit together in every reachable state.
THEOREM InvariantHolds == Spec => []RouterInv
<1>1. Init => RouterInv
  BY Initially
<1>2. RouterInv /\ [Next]_vars => RouterInv'
  BY RouterInductive
<1>. QED BY <1>1, <1>2, PTL DEF Spec

\* Every variable of the router and the filter holds a value of its kind.
THEOREM TypeCorrect == Spec => []TypeOK
<1>1. RouterInv => TypeOK
  BY DEF RouterInv
<1>. QED BY <1>1, InvariantHolds, PTL

\* Field grounding mode: generated text is never the answer to an emergency, nor
\* where generation is disabled, nor without supported evidence where grounding
\* is required (main.py, _process_message), in whatever order requests proceed.
THEOREM GroundingKept == Spec => []FieldSafe
<1>1. RouterInv => FieldSafe
  BY DEF RouterInv, RequestsSafe, RequestSafe, FieldSafe, Is
<1>. QED BY <1>1, InvariantHolds, PTL

\* No answer is sent and then refused by the validators of its attribution.
THEOREM DeliveryNeverRaises == Spec => []NeverRaisesAfterSending
<1>1. RouterInv => NeverRaisesAfterSending
  BY DEF RouterInv, RequestsSafe, RequestSafe, NeverRaisesAfterSending, Is
<1>. QED BY <1>1, InvariantHolds, PTL

\* The history of a sender, and what the language model is given of it, are his
\* own finished questions, each once and at most MaxTurns of them.
THEOREM HistoryIsPrivate == Spec => []MemoryPrivate
<1>1. ASSUME RouterInv PROVE MemoryPrivate
  <2>1. ASSUME NEW s \in Sender, NEW i \in 1..Len(history[s])
        PROVE  /\ request[history[s][i]].sender = s
               /\ request[history[s][i]].class = "query"
               /\ request[history[s][i]].reply # "none"
               /\ \A j \in 1..Len(history[s]) : history[s][i] = history[s][j] => i = j
    BY <1>1 DEF RouterInv, HistoryTrue, Remembered
  <2>2. ASSUME NEW q \in Request, NEW i \in 1..MaxTurns, i <= Len(request[q].memory)
        PROVE  request[request[q].memory[i]].sender = request[q].sender
    <3>1. request[q].memory \in Seq(Request) /\ MaxTurns \in Nat
      BY <1>1, RouterAssumption DEF RouterInv, TypeOK
    <3>2. i \in 1..Len(request[q].memory)
      BY <2>2, <3>1
    <3>. QED BY <1>1, <3>2 DEF RouterInv, MemoryTrue
  <2>3. \A s \in Sender : Len(history[s]) <= MaxTurns
    BY <1>1 DEF RouterInv, HistoryTrue
  <2>. QED BY <2>1, <2>2, <2>3 DEF MemoryPrivate
<1>2. RouterInv => MemoryPrivate
  BY <1>1
<1>. QED BY <1>2, InvariantHolds, PTL

\* A message that the filter validates in time for a user whose blocking was
\* confirmed and not lifted is answered as blocked (main.py, 714-730), also by a
\* filter that has restarted, unless a save of its files was cut short since.
THEOREM BlocksHold == Spec => BlockRespected
<1>1. RouterInv /\ [Next]_vars =>
        [\A q \in Request :
           Validated(q) /\ request[q].sender \in toldBlocked
             => request'[q].reply = "blocked"]_vars
  BY BlockedStays
<1>. QED BY <1>1, InvariantHolds, PTL DEF Spec, BlockRespected

-----------------------------------------------------------------------------
(* What a request to the RAG service turns into *)

\* A nonempty set of naturals has a least element.
LEMMA HasLeast ==
  ASSUME NEW T \in SUBSET Nat, T # {}
  PROVE  \E n \in T : \A m \in T : n <= m
<1>1. PICK R : R = OpToRel(<, Nat)
  OBVIOUS
<1>2. IsWellFoundedOn(R, Nat)
  BY <1>1, NatLessThanWellFounded
<1>3. PICK n \in T : \A m \in T : ~(<<m, n>> \in R)
  BY <1>2, WFMin
<1>4. \A m \in T : m < n => <<m, n>> \in R
  BY <1>1 DEF OpToRel
<1>5. \A m \in T : ~(m < n)
  BY <1>3, <1>4
<1>. QED BY <1>5

\* Counting along a finite set of positions meets every number.
LEMMA Reaching ==
  ASSUME NEW n \in Nat, NEW S \in SUBSET (1..n), NEW k \in 1..Cardinality(S)
  PROVE  \E i \in S : Cardinality(S \cap 1..i) = k
<1>. DEFINE Upto(i) == Cardinality(S \cap 1..i)
<1>1. IsFiniteSet(1..n)
  BY FS_Interval
<1>2. IsFiniteSet(S)
  BY <1>1, FS_Subset
<1>3. \A i : IsFiniteSet(S \cap 1..i) /\ Upto(i) \in Nat
  <2>. TAKE i
  <2>1. S \cap 1..i \in SUBSET S
    OBVIOUS
  <2>2. IsFiniteSet(S \cap 1..i)
    BY <1>2, <2>1, FS_Subset
  <2>. QED BY <2>2, FS_CardinalityType, Zenon
<1>4. Cardinality(S) \in Nat
  BY <1>2, FS_CardinalityType, Zenon
<1>5. (S \cap 1..n) = S /\ (S \cap 1..0) = {}
  <2>1. 1..0 = {}
    OBVIOUS
  <2>2. (S \cap 1..n) = S
    OBVIOUS
  <2>. QED BY <2>1, <2>2
<1>6. Upto(n) = Cardinality(S) /\ Upto(0) = 0
  BY <1>5, FS_EmptySet
<1>. DEFINE T == {i \in Nat : k <= Upto(i)}
<1>7. n \in T /\ 0 \notin T
  BY <1>4, <1>6
<1>8. PICK m \in T : \A j \in T : m <= j
  <2>. HIDE DEF T
  <2>1. T \in SUBSET Nat
    BY DEF T
  <2>. QED BY <1>7, <2>1, HasLeast
<1>9. m \in Nat \ {0} /\ m - 1 \in Nat /\ ~(k <= Upto(m - 1)) /\ k <= Upto(m)
  <2>1. m \in Nat \ {0} /\ k <= Upto(m)
    BY <1>7
  <2>2. m - 1 \in Nat /\ m - 1 \notin T
    BY <1>8, <2>1
  <2>. QED BY <2>1, <2>2
<1>10. m \in S
  <2>1. ASSUME m \notin S PROVE S \cap 1..m = S \cap 1..(m - 1)
    BY <1>9, <2>1
  <2>. QED BY <1>9, <2>1
<1>11. Upto(m) = Upto(m - 1) + 1
  <2>1. PICK P : P = S \cap 1..(m - 1)
    OBVIOUS
  <2>2. S \cap 1..m = P \cup {m} /\ m \notin P
    BY <1>9, <1>10, <2>1
  <2>3. IsFiniteSet(P)
    BY <1>3, <2>1
  <2>4. Cardinality(P \cup {m}) = Cardinality(P) + 1
    BY <2>2, <2>3, FS_AddElement
  <2>. QED BY <2>1, <2>2, <2>4
<1>12. Upto(m) = k
  <2>1. Upto(m - 1) \in Nat /\ Upto(m) \in Nat /\ k \in Nat
    BY <1>3, <1>4
  <2>. HIDE DEF Upto
  <2>. QED BY <1>9, <1>11, <2>1
<1>. QED BY <1>10, <1>12

\* An item of a bulk request, whose text may be none.
ItemKind == [doc : Doc, text : Text \cup {Invalid}]

\* The accepted items are those whose text is one, in their order.
LEMMA AcceptedAre ==
  ASSUME NEW items \in Seq(ItemKind), NEW a, a = AcceptedItems(items)
  PROVE  /\ a \in Seq(Upsert) /\ Len(a) <= Len(items)
         /\ \A n \in 1..Len(a) : \E i \in 1..Len(items) : a[n] = items[i]
         /\ (\A i \in 1..Len(items) : items[i].text # Invalid) => a = items
<1>. DEFINE valid == {i \in 1..Len(items) : items[i].text # Invalid}
            Upto(i) == Cardinality(valid \cap 1..i)
            At(n) == CHOOSE i \in valid : Upto(i) = n
<1>1. Len(items) \in Nat /\ valid \in SUBSET (1..Len(items))
  OBVIOUS
<1>2. IsFiniteSet(1..Len(items)) /\ Cardinality(1..Len(items)) = Len(items)
  <2>1. PICK n \in Nat : n = Len(items)
    BY <1>1
  <2>2. IsFiniteSet(1..n) /\ Cardinality(1..n) = IF 1 > n THEN 0 ELSE n - 1 + 1
    BY FS_Interval
  <2>3. Cardinality(1..n) = n
    BY <2>2
  <2>. QED BY <2>1, <2>2, <2>3
<1>3. IsFiniteSet(valid) /\ Cardinality(valid) <= Len(items)
  <2>. HIDE DEF valid
  <2>. QED BY <1>1, <1>2, FS_Subset
<1>4. Cardinality(valid) \in Nat
  BY <1>3, FS_CardinalityType, Zenon
<1>5. a = [n \in 1..Cardinality(valid) |-> items[At(n)]]
  BY DEF AcceptedItems
<1>6. ASSUME NEW n \in 1..Cardinality(valid)
      PROVE  At(n) \in valid /\ Upto(At(n)) = n
  <2>. HIDE DEF valid
  <2>1. \E i \in valid : Upto(i) = n
    BY <1>1, Reaching
  <2>. QED BY <2>1
<1>7. Len(a) = Cardinality(valid) /\ a \in Seq(Upsert)
  <2>1. ASSUME NEW n \in 1..Cardinality(valid) PROVE items[At(n)] \in Upsert
    <3>1. At(n) \in valid
      BY <1>6
    <3>. HIDE DEF At
    <3>2. At(n) \in 1..Len(items) /\ items[At(n)].text # Invalid
      BY <3>1
    <3>3. items[At(n)] \in ItemKind
      BY <3>2
    <3>. QED BY <3>2, <3>3 DEF ItemKind, Upsert
  <2>. HIDE DEF valid, At
  <2>. QED BY <1>4, <1>5, <2>1
<1>8. \A n \in 1..Len(a) : \E i \in 1..Len(items) : a[n] = items[i]
  <2>1. \A n \in 1..Cardinality(valid) : At(n) \in 1..Len(items)
    BY <1>6
  <2>. HIDE DEF valid, At
  <2>. QED BY <1>5, <1>7, <2>1
<1>9. ASSUME \A i \in 1..Len(items) : items[i].text # Invalid
      PROVE  a = items
  <2>1. valid = 1..Len(items)
    BY <1>9
  <2>2. ASSUME NEW i \in 1..Len(items) PROVE Upto(i) = i
    <3>1. valid \cap 1..i = 1..i
      BY <1>1, <2>1
    <3>2. Cardinality(1..i) = i
      BY FS_Interval
    <3>. QED BY <3>1, <3>2
  <2>3. \A n \in 1..Len(items) : At(n) = n
    BY <1>6, <2>1, <2>2, <1>2
  <2>4. a = [n \in 1..Len(items) |-> items[n]]
    BY <1>2, <1>5, <2>1, <2>3
  <2>. QED BY <2>4
<1>. QED BY <1>3, <1>7, <1>8, <1>9

\* And a nonempty set of positions a greatest.
LEMMA HasGreatest ==
  ASSUME NEW n \in Nat, NEW S \in SUBSET (1..n), S # {}
  PROVE  \E i \in S : \A j \in S : j <= i
<1>. DEFINE T == {n - i : i \in S}
<1>1. T \in SUBSET Nat /\ T # {}
  <2>1. \A i \in S : n - i \in Nat
    OBVIOUS
  <2>2. PICK i \in S : TRUE
    OBVIOUS
  <2>3. n - i \in T
    OBVIOUS
  <2>. QED BY <2>1, <2>3
<1>2. PICK m \in T : \A k \in T : m <= k
  <2>. HIDE DEF T
  <2>. QED BY <1>1, HasLeast
<1>3. PICK i \in S : m = n - i
  BY <1>2
<1>4. ASSUME NEW j \in S PROVE j <= i
  <2>1. m <= n - j
    BY <1>2
  <2>. QED BY <1>3, <2>1
<1>. QED BY <1>4

\* Of what is added, the last text of a document remains.
LEMMA AddedAre ==
  ASSUME docs \in Documents, NEW a \in Seq(Upsert), NEW new, new = Added(a)
  PROVE  /\ new \in Documents
         /\ a = <<>> => new = docs
         /\ \A d \in Doc : (\A i \in 1..Len(a) : a[i].doc # d) => new[d] = docs[d]
         /\ \A i \in 1..Len(a) :
              (\A j \in 1..Len(a) : j > i => a[j].doc # a[i].doc) => new[a[i].doc] = a[i].text
<1>. DEFINE Places(d) == {i \in 1..Len(a) : a[i].doc = d}
<1>0. Len(a) \in Nat /\ \A i \in 1..Len(a) : a[i] \in Upsert
  OBVIOUS
<1>1. new = [d \in Doc |-> IF Places(d) = {} THEN docs[d] ELSE a[Max(Places(d))].text]
  BY DEF Added
<1>2. ASSUME NEW d \in Doc, Places(d) # {} PROVE Max(Places(d)) \in Places(d)
  <2>1. Places(d) \in SUBSET (1..Len(a))
    OBVIOUS
  <2>. HIDE DEF Places
  <2>2. \E i \in Places(d) : \A j \in Places(d) : j <= i
    BY <1>0, <1>2, <2>1, HasGreatest
  <2>3. \E i \in Places(d) : \A j \in Places(d) : i >= j
    BY <1>0, <2>1, <2>2
  <2>. QED BY <2>3 DEF Max
<1>3. new \in Documents
  <2>1. ASSUME NEW d \in Doc
        PROVE  (IF Places(d) = {} THEN docs[d] ELSE a[Max(Places(d))].text) \in Text \cup {None}
    <3>1. CASE Places(d) = {}
      BY <3>1 DEF Documents
    <3>2. CASE Places(d) # {}
      <4>1. Max(Places(d)) \in 1..Len(a)
        BY <1>2, <3>2
      <4>2. a[Max(Places(d))].text \in Text
        BY <1>0, <4>1 DEF Upsert
      <4>. QED BY <3>2, <4>2
    <3>. QED BY <3>1, <3>2
  <2>. HIDE DEF Places
  <2>. QED BY <1>1, <2>1 DEF Documents
<1>4. ASSUME NEW d \in Doc, \A i \in 1..Len(a) : a[i].doc # d PROVE new[d] = docs[d]
  BY <1>1, <1>4
<1>5. ASSUME NEW i \in 1..Len(a), \A j \in 1..Len(a) : j > i => a[j].doc # a[i].doc
      PROVE  new[a[i].doc] = a[i].text
  <2>1. PICK d \in Doc : d = a[i].doc
    BY <1>0 DEF Upsert
  <2>2. i \in Places(d) /\ \A j \in Places(d) : i >= j
    BY <1>0, <1>5, <2>1
  <2>3. Max(Places(d)) \in Places(d) /\ \A j \in Places(d) : Max(Places(d)) >= j
    <3>. HIDE DEF Places
    <3>. QED BY <2>2 DEF Max
  <2>4. Max(Places(d)) = i
    BY <1>0, <2>2, <2>3
  <2>. QED BY <1>1, <2>1, <2>2, <2>4
<1>6. a = <<>> => new = docs
  BY <1>3, <1>4 DEF Documents
<1>. QED BY <1>3, <1>4, <1>5, <1>6

\* The texts that meet the identifiers belong to documents the request names;
\* without a refused item they are its items.
LEMMA ZippedAre ==
  ASSUME NEW items \in Seq(ItemKind), NEW z, z = Zipped(items)
  PROVE  /\ z \in Seq(ItemKind)
         /\ \A n \in 1..Len(z) : \E i \in 1..Len(items) : z[n].doc = items[i].doc
         /\ (\A i \in 1..Len(items) : items[i].text # Invalid) => z = items
<1>. PICK a : a = AcceptedItems(items)
  OBVIOUS
<1>1. /\ a \in Seq(Upsert) /\ Len(a) <= Len(items) /\ Len(a) \in Nat /\ Len(items) \in Nat
      /\ \A n \in 1..Len(a) : \E i \in 1..Len(items) : a[n] = items[i]
      /\ (\A i \in 1..Len(items) : items[i].text # Invalid) => a = items
  BY AcceptedAre
<1>2. z = [i \in 1..Len(a) |-> [doc |-> a[i].doc, text |-> items[i].text]]
  BY DEF Zipped
<1>3. ASSUME NEW i \in 1..Len(a)
      PROVE  [doc |-> a[i].doc, text |-> items[i].text] \in ItemKind
  <2>1. a[i] \in Upsert /\ i \in 1..Len(items) /\ items[i] \in ItemKind
    BY <1>1
  <2>. QED BY <2>1 DEF ItemKind, Upsert
<1>4. z \in Seq(ItemKind) /\ Len(z) = Len(a)
  BY <1>1, <1>2, <1>3
<1>5. ASSUME \A i \in 1..Len(items) : items[i].text # Invalid PROVE z = items
  <2>1. a = items
    BY <1>1, <1>5
  <2>2. ASSUME NEW i \in 1..Len(items)
        PROVE  [doc |-> a[i].doc, text |-> items[i].text] = items[i]
    <3>1. items[i] \in ItemKind
      OBVIOUS
    <3>. QED BY <2>1, <3>1 DEF ItemKind
  <2>3. z = [i \in 1..Len(items) |-> items[i]]
    BY <1>2, <2>1, <2>2
  <2>. QED BY <2>3
<1>6. ASSUME NEW n \in 1..Len(z)
      PROVE  \E i \in 1..Len(items) : z[n].doc = items[i].doc
  <2>1. n \in 1..Len(a) /\ z[n].doc = a[n].doc
    BY <1>2, <1>4
  <2>. QED BY <1>1, <2>1
<1>. QED BY <1>4, <1>5, <1>6

\* Changing the entry of a document changes no other, and no other collection.
LEMMA IndexSet ==
  ASSUME index \in Collections, corpus \in Corpus, client \in Store \cup {"none"},
         NEW d \in Doc, NEW t \in Text \cup {None}, SetIndex(d, t),
         UNCHANGED <<client, corpus>>
  PROVE  /\ index' \in Collections
         /\ \A x \in Store \X Corpus : x # <<client, corpus>> => index'[x] = index[x]
         /\ client # "none" => /\ Indexed'[d] = t
                               /\ \A e \in Doc : e # d => Indexed'[e] = Indexed[e]
<1>1. index' = [index EXCEPT ![<<client, corpus>>][d] = t]
  BY DEF SetIndex, CollectionOf
<1>2. index' \in Collections
  BY <1>1 DEF Collections, Documents
<1>3. \A x \in Store \X Corpus : x # <<client, corpus>> => index'[x] = index[x]
  BY <1>1 DEF Collections
<1>4. ASSUME client # "none"
      PROVE  Indexed'[d] = t /\ \A e \in Doc : e # d => Indexed'[e] = Indexed[e]
  <2>1. <<client, corpus>> \in Store \X Corpus
    <3>1. client \in Store
      BY <1>4
    <3>. QED BY <3>1
  <2>2. /\ Indexed = index[<<client, corpus>>] /\ Indexed' = index'[<<client, corpus>>]
        /\ index[<<client, corpus>>] \in Documents
    BY <2>1 DEF Indexed, CollectionOf, Collections
  <2>3. index'[<<client, corpus>>] = [index[<<client, corpus>>] EXCEPT ![d] = t]
    BY <1>1, <2>1 DEF Collections
  <2>. QED BY <2>2, <2>3 DEF Documents
<1>. QED BY <1>2, <1>3, <1>4

-----------------------------------------------------------------------------
(* The documents and their index *)

\* The files as a save, or one that went wrong, leaves them.
FileKind == [documents : Documents \cup {Torn}, categories : {"good", "torn"}]

\* What is bounded stays within its bound.
LEMMA FaultsBounded ==
  ASSUME faults \in 0..MaxFaults, NEW n \in Nat, Faults(n)
  PROVE  faults' \in 0..MaxFaults
BY KnowledgeAssumption DEF Faults

\* Costs are numbers.
LEMMA CostCounts == \A x, y : Cost(x) \in Nat /\ Cost(x) + Cost(y) \in Nat
BY DEF Cost

\* A save that went well leaves files that load as what was saved.
LEMMA SavedAre ==
  ASSUME NEW before \in FileKind, NEW d \in Documents, NEW outcome, SaveDocuments(before, d, outcome)
  PROVE  /\ file' \in FileKind /\ unsaved' \in BOOLEAN
         /\ ~unsaved' => file' = [documents |-> d, categories |-> "good"]
BY DEF SaveDocuments, FileKind

\* An upsert changes the entry of its document alone, to the text or to none.
LEMMA UpsertTouches ==
  ASSUME index \in Collections, corpus \in Corpus, client \in Store \cup {"none"},
         NEW d \in Doc, NEW t \in Text, NEW outcome, UpsertChunks(d, t, outcome),
         UNCHANGED <<client, corpus>>
  PROVE  /\ index' \in Collections
         /\ \A x \in Store \X Corpus : x # <<client, corpus>> => index'[x] = index[x]
         /\ client # "none" => /\ outcome = "done" => Indexed'[d] = t
                               /\ \A e \in Doc : e # d => Indexed'[e] = Indexed[e]
<1>1. CASE SetIndex(d, t)
  BY <1>1, IndexSet
<1>2. CASE outcome # "done" /\ SetIndex(d, None)
  BY <1>2, IndexSet
<1>3. CASE outcome # "done" /\ UNCHANGED index
  <2>1. Indexed' = Indexed
    BY <1>3 DEF Indexed, CollectionOf
  <2>. QED BY <1>3, <2>1
<1>. QED BY <1>1, <1>2, <1>3 DEF UpsertChunks

\* Samples are added to the mutable corpus only, requests are in progress only
\* while the service serves it, and with a package it has that package's
\* documents.
CorpusInv ==
  /\ phase = "sampling" => corpus = Mutable
  /\ phase = "syncing" => client \in Store
  /\ phase # "serving" => \A c \in Call : call[c] = <<>>
  /\ corpus \in Package => docs = Packaged[corpus] /\ \A c \in Call : call[c] = <<>>

\* When the last save went well the files can be read, and load as the
\* documents the mutable corpus has.
FilesInv ==
  ~unsaved => /\ file.documents # Torn /\ file.categories = "good"
              /\ corpus = Mutable => file.documents = docs

\* What AnswersCurrent says, from the end of the synchronization on.
IndexInv ==
  phase \in {"sampling", "serving"} /\ client # "none" /\ ~sync.errors =>
    \A d \in Doc : Indexed[d] = docs[d] \/ Pending(d) \/ d \in excused

\* The upserts that are left of a document belong to one request, and the last
\* of them has its text: this is what the end of a request needs, and why two
\* requests that meet on a document, or a refused item, are excepted.
LastIsTrue(d) ==
  \A c \in Call : \A i \in 1..Len(call[c]) :
    call[c][i].doc = d =>
      /\ \A e \in Call : \A j \in 1..Len(call[e]) : call[e][j].doc = d => e = c
      /\ (\A j \in 1..Len(call[c]) : j > i => call[c][j].doc # d) => call[c][i].text = docs[d]

PendingInv == \A d \in Doc : d \in excused \/ LastIsTrue(d)

KnowledgeInv == KnowledgeTypes /\ CorpusInv /\ FilesInv /\ IndexInv /\ PendingInv

\* Between two requests nothing is left to index.
LEMMA IdlePending ==
  ASSUME \A c \in Call : call[c] = <<>>
  PROVE  /\ \A d \in Doc : ~Pending(d)
         /\ PendingInv
<1>1. \A c \in Call : 1..Len(call[c]) = {}
  OBVIOUS
<1>. QED BY <1>1 DEF Pending, PendingInv, LastIsTrue

\* The empty service satisfies the invariant.
LEMMA KnowledgeStarts == KnowledgeInit => KnowledgeInv
<1>. SUFFICES ASSUME KnowledgeInit PROVE KnowledgeInv
  OBVIOUS
<1>. USE DEF KnowledgeInit
<1>1. KnowledgeTypes
  <2>1. Empty \in Documents
    BY DEF Empty, Documents
  <2>2. <<>> \in Seq(Upsert)
    OBVIOUS
  <2>3. call \in [Call -> Seq(Upsert)]
    BY <2>2
  <2>4. index \in Collections
    BY <2>1 DEF Collections
  <2>5. sync \in [status : {"not_started", "unavailable", "ready", "failed", "partial"},
                   errors : BOOLEAN]
    BY DEF NotStarted
  <2>6. file \in [documents : Documents \cup {Torn}, categories : {"good", "torn"}]
    BY <2>1
  <2>7. requests \in 0..MaxRequests /\ faults \in 0..MaxFaults
    BY KnowledgeAssumption
  <2>8. /\ phase \in {"down", "syncing", "sampling", "serving"} /\ corpus \in Corpus
        /\ client \in Store \cup {"none"} /\ excused \subseteq Doc /\ unsaved \in BOOLEAN
    BY DEF Corpus
  <2>9. docs \in Documents
    BY <2>1
  <2>. HIDE DEF KnowledgeInit
  <2>. QED BY <2>3, <2>4, <2>5, <2>6, <2>7, <2>8, <2>9 DEF KnowledgeTypes
<1>2. CorpusInv /\ FilesInv /\ IndexInv
  <2>1. Empty # Torn
    BY KnowledgeAssumption DEF Empty, Documents
  <2>. QED BY <2>1, KnowledgeAssumption DEF CorpusInv, FilesInv, IndexInv
<1>3. PendingInv
  BY IdlePending
<1>. QED BY <1>1, <1>2, <1>3 DEF KnowledgeInv

\* What is loaded are documents, and the files as they are when both can be read.
LEMMA LoadedAre ==
  ASSUME KnowledgeTypes, NEW c \in Corpus
  PROVE  /\ Loaded(c) \in Documents
         /\ c \in Package => Loaded(c) = Packaged[c]
         /\ c = Mutable /\ file.documents # Torn /\ file.categories = "good" =>
              Loaded(c) = file.documents
<1>1. Empty \in Documents
  BY DEF Empty, Documents
<1>2. c \in Package => Packaged[c] \in Documents
  BY KnowledgeAssumption
<1>3. file.documents \in Documents \cup {Torn}
  <2>1. file \in FileKind
    BY DEF KnowledgeTypes, FileKind
  <2>. QED BY <2>1 DEF FileKind
<1>. QED BY <1>1, <1>2, <1>3, KnowledgeAssumption DEF Loaded

\* Every step keeps the invariant, action by action.
LEMMA StartHolds ==
  ASSUME KnowledgeInv, NEW c \in Corpus, NEW s \in Store \cup {"none"}, Start(c, s)
  PROVE  KnowledgeInv'
<1>. USE DEF KnowledgeInv
<1>1. /\ docs' = Loaded(c) /\ corpus' = c /\ client' = s
      /\ UNCHANGED <<file, index, call, requests, excused, unsaved>>
      /\ phase = "down" /\ faults' \in 0..MaxFaults
      /\ phase' \in {"syncing", "sampling", "serving"}
      /\ phase' = "syncing" => s \in Store
      /\ phase' = "sampling" => docs' = Empty
      /\ phase' # "syncing" => s = "none"
      /\ sync' \in [status : {"not_started", "unavailable"}, errors : BOOLEAN]
  <2>1. faults' \in 0..MaxFaults
    BY CostCounts, FaultsBounded DEF Start, KnowledgeTypes
  <2>2. sync' \in [status : {"not_started", "unavailable"}, errors : BOOLEAN]
    BY DEF Start, NotStarted
  <2>. QED BY <2>1, <2>2 DEF Start, Ready, Store
<1>2. KnowledgeTypes'
  <2>1. docs' \in Documents
    BY <1>1, LoadedAre
  <2>. QED BY <1>1, <2>1 DEF KnowledgeTypes
<1>3. \A x \in Call : call'[x] = <<>>
  BY <1>1 DEF CorpusInv
<1>4. CorpusInv'
  <2>1. c \in Package => docs' = Packaged[c] /\ docs' # Empty
    BY <1>1, LoadedAre, KnowledgeAssumption
  <2>. QED BY <1>1, <1>3, <2>1 DEF CorpusInv, Corpus
<1>5. FilesInv'
  BY <1>1, LoadedAre DEF FilesInv
<1>6. IndexInv'
  BY <1>1 DEF IndexInv
<1>7. PendingInv'
  <2>1. \A x \in Call : 1..Len(call'[x]) = {}
    BY <1>3
  <2>. QED BY <2>1 DEF PendingInv, LastIsTrue
<1>. QED BY <1>2, <1>4, <1>5, <1>6, <1>7

LEMMA SyncDeleteHolds ==
  ASSUME KnowledgeInv, NEW d \in Doc, SyncDelete(d)
  PROVE  KnowledgeInv'
<1>. USE DEF KnowledgeInv
<1>1. /\ phase = "syncing" /\ SetIndex(d, None)
      /\ UNCHANGED <<phase, corpus, docs, file, client, sync, call, requests, faults, excused, unsaved>>
  BY DEF SyncDelete
<1>2. index' \in Collections
  BY <1>1, IndexSet DEF KnowledgeTypes
<1>3. KnowledgeTypes' /\ CorpusInv' /\ FilesInv' /\ IndexInv' /\ PendingInv'
  BY <1>1, <1>2 DEF KnowledgeTypes, CorpusInv, FilesInv, IndexInv, PendingInv, LastIsTrue
<1>. QED BY <1>3

LEMMA SyncUpsertHolds ==
  ASSUME KnowledgeInv, NEW d \in Doc, SyncUpsert(d)
  PROVE  KnowledgeInv'
<1>. USE DEF KnowledgeInv
<1>1. /\ phase = "syncing" /\ SetIndex(d, docs[d])
      /\ UNCHANGED <<phase, corpus, docs, file, client, sync, call, requests, faults, excused, unsaved>>
  BY DEF SyncUpsert
<1>2. docs[d] \in Text \cup {None}
  BY DEF KnowledgeTypes, Documents
<1>3. index' \in Collections
  BY <1>1, <1>2, IndexSet DEF KnowledgeTypes
<1>4. KnowledgeTypes' /\ CorpusInv' /\ FilesInv' /\ IndexInv' /\ PendingInv'
  BY <1>1, <1>3 DEF KnowledgeTypes, CorpusInv, FilesInv, IndexInv, PendingInv, LastIsTrue
<1>. QED BY <1>4

\* A process is ready with samples to add when it has no document, so never
\* on a package.
LEMMA ReadyIs ==
  ASSUME KnowledgeTypes, CorpusInv, phase' = Ready(docs), UNCHANGED <<corpus, docs, call>>,
         phase # "serving"
  PROVE  phase' \in {"sampling", "serving"} /\ CorpusInv'
<1>1. phase' \in {"sampling", "serving"} /\ (phase' = "sampling" => docs = Empty)
  BY DEF Ready
<1>2. corpus \in Package => docs # Empty
  BY KnowledgeAssumption DEF CorpusInv
<1>3. corpus \in Package \cup {Mutable}
  BY DEF KnowledgeTypes, Corpus
<1>. QED BY <1>1, <1>2, <1>3 DEF CorpusInv

LEMMA SyncDoneHolds ==
  ASSUME KnowledgeInv, SyncDone
  PROVE  KnowledgeInv'
<1>. USE DEF KnowledgeInv
<1>1. /\ phase = "syncing" /\ StaleParents \cup Outdated = {} /\ phase' = Ready(docs)
      /\ sync' = [sync EXCEPT !.status = "ready"]
      /\ UNCHANGED <<corpus, docs, file, client, index, call, requests, faults, excused, unsaved>>
  BY DEF SyncDone
<1>2. phase' \in {"sampling", "serving"} /\ CorpusInv'
  BY <1>1, ReadyIs
<1>3. sync' \in [status : {"not_started", "unavailable", "ready", "failed", "partial"},
                 errors : BOOLEAN]
  BY <1>1 DEF KnowledgeTypes
<1>4. KnowledgeTypes'
  BY <1>1, <1>2, <1>3 DEF KnowledgeTypes
<1>5. FilesInv' /\ PendingInv'
  BY <1>1 DEF FilesInv, PendingInv, LastIsTrue
<1>6. IndexInv'
  <2>1. \A d \in Doc : Indexed[d] = docs[d]
    BY <1>1 DEF StaleParents, Outdated
  <2>2. Indexed' = Indexed
    BY <1>1 DEF Indexed, CollectionOf
  <2>. QED BY <1>1, <2>1, <2>2 DEF IndexInv
<1>. QED BY <1>2, <1>4, <1>5, <1>6

LEMMA SyncFailsHolds ==
  ASSUME KnowledgeInv, SyncFails
  PROVE  KnowledgeInv'
<1>. USE DEF KnowledgeInv
<1>1. /\ phase = "syncing" /\ phase' = Ready(docs)
      /\ sync' = [status |-> "failed", errors |-> TRUE] /\ Faults(1)
      /\ UNCHANGED <<corpus, docs, file, client, call, requests, excused, unsaved>>
  BY DEF SyncFails
<1>2. phase' \in {"sampling", "serving"} /\ CorpusInv'
  BY <1>1, ReadyIs
<1>3. index' \in Collections
  <2>1. CASE UNCHANGED index
    BY <2>1 DEF KnowledgeTypes
  <2>2. CASE \E d \in Doc : SetIndex(d, None)
    BY <1>1, <2>2, IndexSet DEF KnowledgeTypes
  <2>. QED BY <2>1, <2>2 DEF SyncFails, Outdated
<1>4. faults' \in 0..MaxFaults
  BY <1>1, FaultsBounded DEF KnowledgeTypes
<1>5. KnowledgeTypes'
  BY <1>1, <1>2, <1>3, <1>4 DEF KnowledgeTypes
<1>6. FilesInv' /\ PendingInv' /\ IndexInv'
  BY <1>1 DEF FilesInv, PendingInv, LastIsTrue, IndexInv
<1>. QED BY <1>2, <1>5, <1>6

LEMMA StopHolds ==
  ASSUME KnowledgeInv, Stop
  PROVE  KnowledgeInv'
<1>. USE DEF KnowledgeInv
<1>1. /\ phase' = "down" /\ client' = "none" /\ sync' = NotStarted /\ excused' = {}
      /\ call' = [c \in Call |-> <<>>]
      /\ UNCHANGED <<corpus, docs, file, index, requests, faults, unsaved>>
  BY DEF Stop
<1>2. \A c \in Call : call'[c] = <<>> /\ 1..Len(call'[c]) = {}
  BY <1>1
<1>3. KnowledgeTypes'
  <2>1. <<>> \in Seq(Upsert)
    OBVIOUS
  <2>2. call' \in [Call -> Seq(Upsert)]
    BY <1>1, <2>1
  <2>3. sync' \in [status : {"not_started", "unavailable", "ready", "failed", "partial"},
                   errors : BOOLEAN]
    BY <1>1 DEF NotStarted
  <2>. QED BY <1>1, <2>2, <2>3 DEF KnowledgeTypes
<1>4. CorpusInv'
  BY <1>1, <1>2 DEF CorpusInv
<1>5. FilesInv' /\ IndexInv'
  BY <1>1 DEF FilesInv, IndexInv
<1>6. PendingInv'
  BY <1>2 DEF PendingInv, LastIsTrue
<1>. QED BY <1>3, <1>4, <1>5, <1>6

LEMMA AddSampleHolds ==
  ASSUME KnowledgeInv, NEW d \in Doc, AddSample(d)
  PROVE  KnowledgeInv'
<1>. USE DEF KnowledgeInv
<1>1. PICK saved \in SaveOutcome, indexed \in UpsertOutcome :
        /\ phase = "sampling" /\ d \in MissingSamples
        /\ docs' = [docs EXCEPT ![d] = Sample[d]]
        /\ SaveDocuments(file, docs', saved)
        /\ IF client = "none"
           THEN UNCHANGED <<index, sync>>
           ELSE /\ UpsertChunks(d, Sample[d], indexed)
                /\ sync' = IF indexed = "done" /\ sync.status # "partial"
                           THEN [sync EXCEPT !.status = "ready"]
                           ELSE [status |-> "partial", errors |-> TRUE]
        /\ Faults(Cost(saved) + Cost(indexed))
        /\ phase' \in {"sampling", "serving"}
        /\ UNCHANGED <<corpus, client, call, requests, excused>>
  BY DEF AddSample
<1>2. corpus = Mutable /\ corpus \notin Package /\ \A c \in Call : call[c] = <<>>
  BY <1>1, KnowledgeAssumption DEF CorpusInv
<1>3. Sample[d] \in Text
  BY <1>1, KnowledgeAssumption DEF MissingSamples, Documents
<1>4. docs' \in Documents /\ docs'[d] = Sample[d] /\ \A e \in Doc : e # d => docs'[e] = docs[e]
  BY <1>1, <1>3 DEF KnowledgeTypes, Documents
<1>5. /\ file' \in FileKind /\ unsaved' \in BOOLEAN
      /\ ~unsaved' => file' = [documents |-> docs', categories |-> "good"]
  <2>1. file \in FileKind
    BY DEF KnowledgeTypes, FileKind
  <2>2. PICK new : new = docs'
    OBVIOUS
  <2>. QED BY <1>1, <1>4, <2>1, <2>2, SavedAre
<1>6. ASSUME client # "none"
      PROVE  /\ index' \in Collections
             /\ indexed = "done" => Indexed'[d] = Sample[d]
             /\ \A e \in Doc : e # d => Indexed'[e] = Indexed[e]
  BY <1>1, <1>3, <1>6, UpsertTouches DEF KnowledgeTypes
<1>7. KnowledgeTypes'
  <2>1. index' \in Collections
    BY <1>1, <1>6 DEF KnowledgeTypes
  <2>2. faults' \in 0..MaxFaults
    BY <1>1, CostCounts, FaultsBounded DEF KnowledgeTypes
  <2>3. sync' \in [status : {"not_started", "unavailable", "ready", "failed", "partial"},
                   errors : BOOLEAN]
    <3>1. sync \in [status : {"not_started", "unavailable", "ready", "failed", "partial"},
                   errors : BOOLEAN]
      BY DEF KnowledgeTypes
    <3>2. \/ sync' = sync
          \/ sync' = [sync EXCEPT !.status = "ready"]
          \/ sync' = [status |-> "partial", errors |-> TRUE]
      BY <1>1
    <3>3. CASE sync' = [sync EXCEPT !.status = "ready"]
      BY <3>1, <3>3
    <3>4. CASE sync' = [status |-> "partial", errors |-> TRUE]
      BY <3>4
    <3>. QED BY <3>1, <3>2, <3>3, <3>4
  <2>4. file' \in [documents : Documents \cup {Torn}, categories : {"good", "torn"}]
    BY <1>5 DEF FileKind
  <2>. QED BY <1>1, <1>4, <1>5, <2>1, <2>2, <2>3, <2>4 DEF KnowledgeTypes
<1>8. CorpusInv'
  BY <1>1, <1>2 DEF CorpusInv
<1>9. FilesInv'
  <2>1. docs' # Torn
    BY <1>4, KnowledgeAssumption
  <2>. QED BY <1>5, <2>1 DEF FilesInv
<1>10. IndexInv'
  <2>. SUFFICES ASSUME client' # "none", ~sync'.errors, NEW e \in Doc
                PROVE  Indexed'[e] = docs'[e] \/ Pending(e)' \/ e \in excused'
    BY DEF IndexInv
  <2>1. client # "none"
    BY <1>1
  <2>2. indexed = "done" /\ ~sync.errors
    BY <1>1, <2>1 DEF KnowledgeTypes
  <2>3. CASE e = d
    BY <1>4, <1>6, <2>1, <2>2, <2>3
  <2>4. CASE e # d
    <3>1. Indexed[e] = docs[e] \/ Pending(e) \/ e \in excused
      BY <1>1, <2>1, <2>2 DEF IndexInv
    <3>2. Pending(e)' = Pending(e)
      BY <1>1 DEF Pending
    <3>. QED BY <1>1, <1>4, <1>6, <2>1, <2>4, <3>1, <3>2
  <2>. QED BY <2>3, <2>4
<1>11. PendingInv'
  <2>1. \A c \in Call : 1..Len(call'[c]) = {}
    BY <1>1, <1>2
  <2>. QED BY <2>1 DEF PendingInv, LastIsTrue
<1>. QED BY <1>7, <1>8, <1>9, <1>10, <1>11

\* A bulk request turns into upserts of documents it names; when none of its
\* items is refused these are its items, the last of a document the text it
\* leaves.
LEMMA RequestIs ==
  ASSUME KnowledgeTypes, NEW items \in Items,
         NEW a, a = AcceptedItems(items), NEW u, u = AcceptedItems(Zipped(items)),
         NEW new, new = Added(a)
  PROVE  /\ items \in Seq(ItemKind)
         /\ a \in Seq(Upsert) /\ u \in Seq(Upsert) /\ new \in Documents
         /\ a = <<>> => new = docs
         /\ \A n \in 1..Len(u) : \E i \in ToSet(items) : u[n].doc = i.doc
         /\ \A d \in Doc : (\A i \in ToSet(items) : i.doc # d) => new[d] = docs[d]
         /\ (\A i \in ToSet(items) : i.text # Invalid) => u = items /\ a = items
<1>. DEFINE z == Zipped(items)
<1>1. items \in Seq(ItemKind)
  BY KnowledgeAssumption DEF ItemKind
<1>2. \A n \in 1..Len(items) : items[n] \in ToSet(items)
  BY <1>1 DEF ToSet
<1>3. \A i \in ToSet(items) : \E n \in 1..Len(items) : i = items[n]
  BY <1>1 DEF ToSet
<1>4. /\ a \in Seq(Upsert)
      /\ \A n \in 1..Len(a) : \E i \in 1..Len(items) : a[n] = items[i]
      /\ (\A i \in 1..Len(items) : items[i].text # Invalid) => a = items
  BY <1>1, AcceptedAre
<1>5. /\ z \in Seq(ItemKind)
      /\ \A n \in 1..Len(z) : \E i \in 1..Len(items) : z[n].doc = items[i].doc
      /\ (\A i \in 1..Len(items) : items[i].text # Invalid) => z = items
  <2>. HIDE DEF z
  <2>1. PICK y : y = Zipped(items)
    OBVIOUS
  <2>2. z = y
    BY <2>1 DEF z
  <2>. QED BY <1>1, <2>1, <2>2, ZippedAre
<1>6. /\ u \in Seq(Upsert)
      /\ \A n \in 1..Len(u) : \E i \in 1..Len(z) : u[n] = z[i]
      /\ (\A i \in 1..Len(z) : z[i].text # Invalid) => u = z
  <2>. HIDE DEF z
  <2>1. u = AcceptedItems(z)
    BY DEF z
  <2>. QED BY <1>5, <2>1, AcceptedAre
<1>. HIDE DEF z
<1>7. /\ new \in Documents /\ (a = <<>> => new = docs)
      /\ \A d \in Doc : (\A i \in 1..Len(a) : a[i].doc # d) => new[d] = docs[d]
  <2>1. docs \in Documents
    BY DEF KnowledgeTypes
  <2>2. a \in Seq(Upsert)
    BY <1>4
  <2>. QED BY <2>1, <2>2, AddedAre
<1>8. ASSUME NEW n \in 1..Len(u) PROVE \E i \in ToSet(items) : u[n].doc = i.doc
  <2>1. PICK i \in 1..Len(z) : u[n] = z[i]
    BY <1>6
  <2>2. PICK j \in 1..Len(items) : z[i].doc = items[j].doc
    BY <1>5
  <2>. QED BY <1>2, <2>1, <2>2
<1>9. ASSUME NEW d \in Doc, \A i \in ToSet(items) : i.doc # d PROVE new[d] = docs[d]
  BY <1>2, <1>4, <1>7, <1>9
<1>10. ASSUME \A i \in ToSet(items) : i.text # Invalid PROVE u = items /\ a = items
  BY <1>2, <1>4, <1>5, <1>6, <1>10
<1>. QED BY <1>1, <1>4, <1>6, <1>7, <1>8, <1>9, <1>10

LEMMA AddDocumentsHolds ==
  ASSUME KnowledgeInv, NEW c \in Call, NEW items \in Items, AddDocuments(c, items)
  PROVE  KnowledgeInv'
<1>. USE DEF KnowledgeInv
<1>. PICK a : a = AcceptedItems(items)
  OBVIOUS
<1>. PICK u : u = AcceptedItems(Zipped(items))
  OBVIOUS
<1>. PICK new : new = Added(a)
  OBVIOUS
<1>1. /\ phase = "serving" /\ corpus = Mutable /\ corpus \notin Package
      /\ call[c] = <<>> /\ Admitted
      /\ docs' = new
      /\ call' = [call EXCEPT ![c] = IF client = "none" THEN <<>> ELSE u]
      /\ excused' = excused \cup Astray(items)
      /\ UNCHANGED <<phase, corpus, client, index, sync>>
  BY KnowledgeAssumption DEF AddDocuments, Writable
<1>2. /\ items \in Seq(ItemKind)
      /\ a \in Seq(Upsert) /\ u \in Seq(Upsert) /\ new \in Documents
      /\ a = <<>> => new = docs
      /\ \A n \in 1..Len(u) : \E i \in ToSet(items) : u[n].doc = i.doc
      /\ \A d \in Doc : (\A i \in ToSet(items) : i.doc # d) => new[d] = docs[d]
      /\ (\A i \in ToSet(items) : i.text # Invalid) => u = items /\ a = items
  <2>1. KnowledgeTypes
    OBVIOUS
  <2>. QED BY <2>1, RequestIs
<1>3. /\ file' \in FileKind /\ unsaved' \in BOOLEAN /\ faults' \in 0..MaxFaults
      /\ FilesInv'
  <2>1. CASE a = <<>>
    <3>1. UNCHANGED <<file, unsaved, faults, docs, corpus>>
      BY <1>1, <1>2, <2>1 DEF AddDocuments
    <3>. QED BY <3>1 DEF KnowledgeTypes, FilesInv, FileKind
  <2>2. CASE a # <<>>
    <3>1. PICK saved \in SaveOutcome, before \in SavedBefore(a) :
            SaveDocuments(before, docs', saved) /\ Faults(Cost(saved))
      BY <2>2 DEF AddDocuments
    <3>2. SavedBefore(a) \subseteq FileKind
      <4>1. ASSUME NEW k \in 1..Len(a) - 1 PROVE Added(SubSeq(a, 1, k)) \in Documents
        <5>1. SubSeq(a, 1, k) \in Seq(Upsert)
          BY <1>2
        <5>2. PICK y : y = Added(SubSeq(a, 1, k))
          OBVIOUS
        <5>. QED BY <5>1, <5>2, AddedAre DEF KnowledgeTypes
      <4>2. file \in FileKind
        BY DEF KnowledgeTypes, FileKind
      <4>. QED BY <4>1, <4>2 DEF SavedBefore, FileKind
    <3>3. /\ file' \in FileKind /\ unsaved' \in BOOLEAN
          /\ ~unsaved' => file' = [documents |-> new, categories |-> "good"]
      BY <1>1, <1>2, <3>1, <3>2, SavedAre
    <3>4. faults' \in 0..MaxFaults
      BY <3>1, CostCounts, FaultsBounded DEF KnowledgeTypes
    <3>5. new # Torn
      BY <1>2, KnowledgeAssumption
    <3>. QED BY <1>1, <3>3, <3>4, <3>5 DEF FilesInv
  <2>. QED BY <2>1, <2>2
<1>4. KnowledgeTypes'
  <2>1. requests' \in 0..MaxRequests
    BY <1>1, KnowledgeAssumption DEF Admitted, KnowledgeTypes
  <2>2. call' \in [Call -> Seq(Upsert)]
    <3>1. (IF client = "none" THEN <<>> ELSE u) \in Seq(Upsert)
      BY <1>2
    <3>. QED BY <1>1, <3>1 DEF KnowledgeTypes
  <2>3. excused' \subseteq Doc
    <3>1. ASSUME NEW i \in ToSet(items) PROVE i.doc \in Doc
      <4>1. PICK n \in 1..Len(items) : i = items[n]
        BY <1>2 DEF ToSet
      <4>2. items[n] \in ItemKind
        BY <1>2
      <4>. QED BY <4>1, <4>2 DEF ItemKind
    <3>. QED BY <1>1, <3>1 DEF Astray, KnowledgeTypes
  <2>4. file' \in [documents : Documents \cup {Torn}, categories : {"good", "torn"}]
    BY <1>3 DEF FileKind
  <2>. QED BY <1>1, <1>2, <1>3, <2>1, <2>2, <2>3, <2>4 DEF KnowledgeTypes
<1>5. CorpusInv'
  BY <1>1 DEF CorpusInv
\* The documents the request leaves in step.
<1>6. ASSUME NEW d \in Doc, d \notin excused'
      PROVE  \/ /\ docs'[d] = docs[d]
                /\ \A i \in 1..Len(call'[c]) : call'[c][i].doc # d
             \/ /\ ~Pending(d)
                /\ \E i \in ToSet(items) : i.doc = d
                /\ a = items /\ u = items
  <2>1. CASE \A i \in ToSet(items) : i.doc # d
    <3>1. \A i \in 1..Len(u) : u[i].doc # d
      BY <1>2, <2>1
    <3>2. call'[c] = <<>> \/ call'[c] = u
      BY <1>1 DEF KnowledgeTypes
    <3>3. 1..Len(<<>>) = {}
      OBVIOUS
    <3>. QED BY <1>1, <1>2, <2>1, <3>1, <3>2, <3>3
  <2>2. CASE \E i \in ToSet(items) : i.doc = d
    <3>1. d \notin Astray(items)
      BY <1>1, <1>6
    <3>2. ~Pending(d) /\ \A i \in ToSet(items) : i.text # Invalid
      BY <2>2, <3>1 DEF Astray
    <3>. QED BY <1>2, <2>2, <3>2
  <2>. QED BY <2>1, <2>2
<1>7. \A e \in Call : e # c => call'[e] = call[e]
  BY <1>1 DEF KnowledgeTypes
<1>8. IndexInv'
  <2>. SUFFICES ASSUME client' # "none", ~sync'.errors, NEW d \in Doc, d \notin excused'
                PROVE  Indexed'[d] = docs'[d] \/ Pending(d)'
    BY DEF IndexInv
  <2>1. client # "none" /\ ~sync.errors /\ d \notin excused /\ call'[c] = u
    BY <1>1 DEF KnowledgeTypes
  <2>2. Indexed[d] = docs[d] \/ Pending(d)
    BY <1>1, <2>1 DEF IndexInv
  <2>3. Indexed' = Indexed
    BY <1>1 DEF Indexed, CollectionOf
  <2>4. CASE docs'[d] = docs[d]
    <3>1. ASSUME NEW e \in Call, NEW i \in 1..Len(call[e]), call[e][i].doc = d
          PROVE  Pending(d)'
      <4>1. e # c
        BY <1>1, <3>1
      <4>. QED BY <1>7, <3>1, <4>1 DEF Pending
    <3>. QED BY <2>2, <2>3, <2>4, <3>1 DEF Pending
  <2>5. CASE (\E i \in ToSet(items) : i.doc = d) /\ u = items
    <3>1. \E i \in 1..Len(u) : u[i].doc = d
      BY <1>2, <2>5 DEF ToSet
    <3>. QED BY <2>1, <3>1 DEF Pending
  <2>. QED BY <1>6, <2>4, <2>5
<1>9. PendingInv'
  <2>. SUFFICES ASSUME NEW d \in Doc, d \notin excused',
                       NEW e \in Call, NEW i \in 1..Len(call'[e]), call'[e][i].doc = d
                PROVE  /\ \A f \in Call : \A j \in 1..Len(call'[f]) : call'[f][j].doc = d => f = e
                       /\ (\A j \in 1..Len(call'[e]) : j > i => call'[e][j].doc # d) =>
                            call'[e][i].text = docs'[d]
    BY DEF PendingInv, LastIsTrue
  <2>1. CASE docs'[d] = docs[d] /\ \A j \in 1..Len(call'[c]) : call'[c][j].doc # d
    <3>1. e # c /\ call'[e] = call[e]
      BY <1>7, <2>1
    <3>2. LastIsTrue(d)
      BY <1>1 DEF PendingInv
    <3>3. /\ \A f \in Call : \A j \in 1..Len(call[f]) : call[f][j].doc = d => f = e
          /\ (\A j \in 1..Len(call[e]) : j > i => call[e][j].doc # d) => call[e][i].text = docs[d]
      BY <3>1, <3>2 DEF LastIsTrue
    <3>. QED BY <1>7, <2>1, <3>1, <3>3
  <2>2. CASE ~Pending(d) /\ a = items /\ u = items
    <3>1. \A f \in Call : \A j \in 1..Len(call'[f]) : call'[f][j].doc = d => f = c
      BY <1>7, <2>2 DEF Pending
    <3>2. e = c
      BY <3>1
    <3>3. call'[c] = a
      <4>1. call'[c] = <<>> \/ call'[c] = a
        BY <1>1, <2>2 DEF KnowledgeTypes
      <4>2. 1..Len(<<>>) = {}
        OBVIOUS
      <4>. QED BY <3>2, <4>1, <4>2
    <3>4. /\ i \in 1..Len(a) /\ a[i].doc = d
          /\ (\A j \in 1..Len(a) : j > i => a[j].doc # a[i].doc) => new[a[i].doc] = a[i].text
      BY <1>2, <3>2, <3>3, AddedAre DEF KnowledgeTypes
    <3>. QED BY <1>1, <3>1, <3>2, <3>3, <3>4
  <2>. QED BY <1>6, <2>1, <2>2
<1>. QED BY <1>3, <1>4, <1>5, <1>8, <1>9

LEMMA FinishUpsertHolds ==
  ASSUME KnowledgeInv, NEW c \in Call, FinishUpsert(c)
  PROVE  KnowledgeInv'
<1>. USE DEF KnowledgeInv
<1>1. call[c] \in Seq(Upsert) /\ call[c] # <<>>
  BY DEF FinishUpsert, KnowledgeTypes
<1>2. PICK head \in Upsert, tail \in Seq(Upsert) :
        /\ head = Head(call[c]) /\ tail = Tail(call[c])
        /\ head = call[c][1] /\ Len(call[c]) = Len(tail) + 1 /\ Len(tail) \in Nat
        /\ \A i \in 1..Len(tail) : tail[i] = call[c][i + 1]
  <2>1. PICK q \in Seq(Upsert) : q = call[c] /\ q # <<>>
    BY <1>1
  <2>2. Len(q) \in Nat /\ Len(q) > 0 /\ q[1] \in Upsert /\ Tail(q) \in Seq(Upsert)
    BY <2>1
  <2>3. Len(q) = Len(Tail(q)) + 1 /\ Len(Tail(q)) \in Nat
    BY <2>1, <2>2
  <2>4. \A i \in 1..Len(Tail(q)) : Tail(q)[i] = q[i + 1]
    BY <2>1, <2>2
  <2>5. Head(q) = q[1]
    BY <2>1
  <2>6. PICK tail \in Seq(Upsert) : tail = Tail(q)
    BY <2>2
  <2>7. PICK head \in Upsert : head = Head(q) /\ head = q[1]
    BY <2>2, <2>5
  <2>8. /\ Len(q) = Len(tail) + 1 /\ Len(tail) \in Nat
        /\ \A i \in 1..Len(tail) : tail[i] = q[i + 1]
    BY <2>3, <2>4, <2>6
  <2>. QED BY <2>1, <2>6, <2>7, <2>8, Zenon
<1>3. PICK outcome \in UpsertOutcome :
        /\ phase = "serving"
        /\ UpsertChunks(head.doc, head.text, outcome)
        /\ Faults(Cost(outcome))
        /\ excused' = IF outcome = "done" THEN excused ELSE excused \cup {head.doc}
        /\ call' = [call EXCEPT ![c] = tail]
        /\ UNCHANGED <<phase, corpus, docs, file, client, sync, requests, unsaved>>
  BY <1>2 DEF FinishUpsert
<1>4. head.doc \in Doc /\ head.text \in Text
  BY <1>2 DEF Upsert
<1>5. /\ index' \in Collections
      /\ client # "none" => /\ outcome = "done" => Indexed'[head.doc] = head.text
                            /\ \A e \in Doc : e # head.doc => Indexed'[e] = Indexed[e]
  BY <1>3, <1>4, UpsertTouches DEF KnowledgeTypes
<1>6. call'[c] = tail /\ \A e \in Call : e # c => call'[e] = call[e]
  BY <1>3 DEF KnowledgeTypes
<1>7. KnowledgeTypes'
  <2>1. faults' \in 0..MaxFaults
    BY <1>3, CostCounts, FaultsBounded DEF KnowledgeTypes
  <2>. QED BY <1>2, <1>3, <1>4, <1>5, <2>1 DEF KnowledgeTypes
<1>8. CorpusInv' /\ FilesInv'
  BY <1>1, <1>3 DEF CorpusInv, FilesInv
\* What is left of a request was in it, behind the document it has finished.
<1>9. ASSUME NEW e \in Call, NEW i \in 1..Len(call'[e])
      PROVE  \E j \in 1..Len(call[e]) :
               /\ call'[e][i] = call[e][j]
               /\ \A k \in 1..Len(call[e]) : k > j =>
                    \E l \in 1..Len(call'[e]) : l > i /\ call'[e][l] = call[e][k]
  <2>1. CASE e = c
    <3>1. i + 1 \in 1..Len(call[e]) /\ call'[e][i] = call[e][i + 1]
      <4>1. i \in 1..Len(tail) /\ call'[e][i] = tail[i]
        BY <1>6, <2>1
      <4>2. tail[i] = call[c][i + 1] /\ i + 1 \in 1..Len(call[c])
        BY <1>2, <4>1
      <4>. QED BY <2>1, <4>1, <4>2
    <3>2. ASSUME NEW k \in 1..Len(call[e]), k > i + 1
          PROVE  k - 1 \in 1..Len(call'[e]) /\ k - 1 > i /\ call'[e][k - 1] = call[e][k]
      <4>1. k - 1 \in 1..Len(tail) /\ k - 1 > i
        BY <1>2, <2>1, <3>2
      <4>2. tail[k - 1] = call[c][(k - 1) + 1] /\ (k - 1) + 1 = k
        BY <1>2, <4>1
      <4>. QED BY <1>6, <2>1, <4>1, <4>2
    <3>. QED BY <3>1, <3>2
  <2>2. CASE e # c
    BY <1>6, <2>2
  <2>. QED BY <2>1, <2>2
<1>10. IndexInv'
  <2>. SUFFICES ASSUME client' # "none", ~sync'.errors, NEW d \in Doc, d \notin excused', ~Pending(d)'
                PROVE  Indexed'[d] = docs'[d]
    BY DEF IndexInv
  <2>1. client # "none" /\ ~sync.errors /\ d \notin excused
    BY <1>3
  <2>2. Indexed[d] = docs[d] \/ Pending(d)
    BY <1>3, <2>1 DEF IndexInv
  <2>3. CASE d = head.doc
    <3>1. outcome = "done" /\ Indexed'[d] = head.text
      BY <1>3, <1>5, <2>1, <2>3
    <3>2. LastIsTrue(d) /\ 1 \in 1..Len(call[c]) /\ call[c][1].doc = d
      BY <1>2, <2>1, <2>3 DEF PendingInv
    <3>3. ASSUME NEW j \in 1..Len(call[c]), j > 1 PROVE call[c][j].doc # d
      <4>1. j - 1 \in 1..Len(tail) /\ tail[j - 1] = call[c][j]
        <5>1. j - 1 \in 1..Len(tail) /\ (j - 1) + 1 = j
          BY <1>2, <3>3
        <5>. QED BY <1>2, <5>1
      <4>2. \A i \in 1..Len(tail) : tail[i].doc # d
        BY <1>6 DEF Pending
      <4>. QED BY <4>1, <4>2
    <3>4. head.text = docs[d]
      BY <1>2, <3>2, <3>3 DEF LastIsTrue
    <3>. QED BY <1>3, <3>1, <3>4
  <2>4. CASE d # head.doc
    <3>1. ~Pending(d)
      <4>1. ASSUME NEW e \in Call, NEW i \in 1..Len(call[e]) PROVE call[e][i].doc # d
        <5>1. CASE e # c
          BY <1>6, <5>1 DEF Pending
        <5>2. CASE e = c /\ i = 1
          BY <1>2, <2>4, <5>2
        <5>3. CASE e = c /\ i # 1
          <6>1. i - 1 \in 1..Len(tail) /\ (i - 1) + 1 = i
            BY <1>2, <5>3
          <6>2. tail[i - 1] = call[e][i]
            BY <1>2, <5>3, <6>1
          <6>. QED BY <1>6, <6>1, <6>2 DEF Pending
        <5>. QED BY <5>1, <5>2, <5>3
      <4>. QED BY <4>1 DEF Pending
    <3>. QED BY <1>3, <1>5, <2>1, <2>2, <2>4, <3>1
  <2>. QED BY <2>3, <2>4
<1>11. PendingInv'
  <2>. SUFFICES ASSUME NEW d \in Doc, d \notin excused',
                       NEW e \in Call, NEW i \in 1..Len(call'[e]), call'[e][i].doc = d
                PROVE  /\ \A f \in Call : \A j \in 1..Len(call'[f]) : call'[f][j].doc = d => f = e
                       /\ (\A j \in 1..Len(call'[e]) : j > i => call'[e][j].doc # d) =>
                            call'[e][i].text = docs'[d]
    BY DEF PendingInv, LastIsTrue
  <2>1. LastIsTrue(d)
    BY <1>3 DEF PendingInv
  <2>2. PICK p \in 1..Len(call[e]) :
          /\ call'[e][i] = call[e][p]
          /\ \A k \in 1..Len(call[e]) : k > p =>
               \E l \in 1..Len(call'[e]) : l > i /\ call'[e][l] = call[e][k]
    BY <1>9
  <2>3. /\ \A f \in Call : \A j \in 1..Len(call[f]) : call[f][j].doc = d => f = e
        /\ (\A j \in 1..Len(call[e]) : j > p => call[e][j].doc # d) => call[e][p].text = docs[d]
    BY <2>1, <2>2 DEF LastIsTrue
  <2>4. ASSUME NEW f \in Call, NEW j \in 1..Len(call'[f]), call'[f][j].doc = d PROVE f = e
    <3>1. PICK k \in 1..Len(call[f]) : call'[f][j] = call[f][k]
      BY <1>9
    <3>. QED BY <2>3, <2>4, <3>1
  <2>5. ASSUME \A j \in 1..Len(call'[e]) : j > i => call'[e][j].doc # d
        PROVE  call'[e][i].text = docs'[d]
    <3>1. \A k \in 1..Len(call[e]) : k > p => call[e][k].doc # d
      BY <2>2, <2>5
    <3>. QED BY <1>3, <2>2, <2>3, <3>1
  <2>. QED BY <2>4, <2>5
<1>. QED BY <1>7, <1>8, <1>10, <1>11

LEMMA DeleteDocumentHolds ==
  ASSUME KnowledgeInv, NEW d \in Doc, DeleteDocument(d)
  PROVE  KnowledgeInv'
<1>. USE DEF KnowledgeInv
<1>1. PICK saved \in SaveOutcome, removed \in {"done", "preserved"} :
        /\ Removed(d, saved) /\ RemoveChunks(d, removed)
        /\ Faults(Cost(saved) + Cost(removed))
        /\ excused' = IF removed = "preserved" \/ Pending(d) THEN excused \cup {d} ELSE excused
  BY DEF DeleteDocument
<1>2. /\ phase = "serving" /\ corpus = Mutable /\ corpus \notin Package /\ Admitted
      /\ docs' = [docs EXCEPT ![d] = None] /\ SaveDocuments(file, docs', saved)
      /\ UNCHANGED <<phase, corpus, client, sync, call>>
  BY <1>1, KnowledgeAssumption DEF DeleteDocument, Writable, Removed
<1>3. docs' \in Documents /\ docs'[d] = None /\ \A e \in Doc : e # d => docs'[e] = docs[e]
  BY <1>2 DEF KnowledgeTypes, Documents
<1>4. /\ file' \in FileKind /\ unsaved' \in BOOLEAN
      /\ ~unsaved' => file' = [documents |-> docs', categories |-> "good"]
  <2>1. file \in FileKind
    BY DEF KnowledgeTypes, FileKind
  <2>2. PICK new : new = docs'
    OBVIOUS
  <2>. QED BY <1>2, <1>3, <2>1, <2>2, SavedAre
<1>5. /\ index' \in Collections
      /\ client # "none" => /\ removed = "done" => Indexed'[d] = None
                            /\ \A e \in Doc : e # d => Indexed'[e] = Indexed[e]
  <2>1. CASE client = "none" \/ removed = "preserved"
    <3>1. UNCHANGED index
      BY <1>1, <2>1 DEF RemoveChunks
    <3>2. Indexed' = Indexed
      BY <1>2, <3>1 DEF Indexed, CollectionOf
    <3>. QED BY <2>1, <3>1, <3>2 DEF KnowledgeTypes
  <2>2. CASE client # "none" /\ removed # "preserved"
    <3>1. SetIndex(d, None)
      BY <1>1, <2>2 DEF RemoveChunks
    <3>. QED BY <1>2, <3>1, IndexSet DEF KnowledgeTypes
  <2>. QED BY <2>1, <2>2
<1>6. KnowledgeTypes'
  <2>1. faults' \in 0..MaxFaults
    BY <1>1, CostCounts, FaultsBounded DEF KnowledgeTypes
  <2>2. requests' \in 0..MaxRequests
    BY <1>2, KnowledgeAssumption DEF Admitted, KnowledgeTypes
  <2>3. file' \in [documents : Documents \cup {Torn}, categories : {"good", "torn"}]
    BY <1>4 DEF FileKind
  <2>. QED BY <1>1, <1>2, <1>3, <1>4, <1>5, <2>1, <2>2, <2>3 DEF KnowledgeTypes
<1>7. CorpusInv'
  BY <1>2 DEF CorpusInv
<1>8. FilesInv'
  <2>1. docs' # Torn
    BY <1>3, KnowledgeAssumption
  <2>. QED BY <1>4, <2>1 DEF FilesInv
<1>9. \A e \in Doc : Pending(e)' = Pending(e)
  BY <1>2 DEF Pending
<1>10. IndexInv'
  <2>. SUFFICES ASSUME client' # "none", ~sync'.errors, NEW e \in Doc, e \notin excused', ~Pending(e)'
                PROVE  Indexed'[e] = docs'[e]
    BY DEF IndexInv
  <2>1. client # "none" /\ ~sync.errors /\ e \notin excused /\ ~Pending(e)
    BY <1>1, <1>2, <1>9
  <2>2. Indexed[e] = docs[e]
    BY <1>2, <2>1 DEF IndexInv
  <2>3. e = d => removed = "done"
    BY <1>1
  <2>. QED BY <1>3, <1>5, <2>1, <2>2, <2>3
<1>11. PendingInv'
  <2>. SUFFICES ASSUME NEW e \in Doc, e \notin excused' PROVE LastIsTrue(e)'
    BY DEF PendingInv
  <2>1. LastIsTrue(e) /\ (e = d => ~Pending(e))
    BY <1>1 DEF PendingInv
  <2>2. CASE e = d
    BY <1>2, <2>1, <2>2 DEF LastIsTrue, Pending
  <2>3. CASE e # d
    BY <1>2, <1>3, <2>1, <2>3 DEF LastIsTrue
  <2>. QED BY <2>2, <2>3
<1>. QED BY <1>6, <1>7, <1>8, <1>10, <1>11

LEMMA KnowledgeSteps ==
  ASSUME KnowledgeInv, [KnowledgeNext]_knowledgeVars
  PROVE  KnowledgeInv'
<1>1. CASE UNCHANGED knowledgeVars
  <2>. USE <1>1 DEF knowledgeVars
  <2>1. KnowledgeTypes' /\ CorpusInv' /\ FilesInv'
    BY DEF KnowledgeInv, KnowledgeTypes, CorpusInv, FilesInv
  <2>2. Indexed' = Indexed /\ \A d \in Doc : Pending(d)' = Pending(d)
    BY DEF Indexed, CollectionOf, Pending
  <2>3. IndexInv'
    BY <2>2 DEF KnowledgeInv, IndexInv
  <2>4. PendingInv'
    BY DEF KnowledgeInv, PendingInv, LastIsTrue
  <2>. QED BY <2>1, <2>3, <2>4 DEF KnowledgeInv
<1>2. CASE KnowledgeNext
  BY <1>2, StartHolds, SyncDeleteHolds, SyncUpsertHolds, SyncDoneHolds, SyncFailsHolds,
     AddSampleHolds, StopHolds, AddDocumentsHolds, FinishUpsertHolds, DeleteDocumentHolds
     DEF KnowledgeNext
<1>. QED BY <1>1, <1>2

\* The documents, their files, the vector collection and the requests in
\* progress fit together in every reachable state (main.py, document_manager.py).
THEOREM KnowledgeHolds == KnowledgeSpec => []KnowledgeInv
BY KnowledgeStarts, KnowledgeSteps, PTL DEF KnowledgeSpec

\* Every variable of the RAG service holds a value of its kind.
THEOREM KnowledgeTypeCorrect == KnowledgeSpec => []KnowledgeTypes
<1>1. KnowledgeInv => KnowledgeTypes
  BY DEF KnowledgeInv
<1>. QED BY <1>1, KnowledgeHolds, PTL

\* A service that counted no error at its start finds by vector what it finds by
\* words, for every document whose change is not being embedded and whose entry
\* it has not let go (_sync_local_documents, _upsert_document_chunks).
THEOREM AnswersAreCurrent == KnowledgeSpec => []AnswersCurrent
<1>1. KnowledgeInv => AnswersCurrent
  BY DEF KnowledgeInv, IndexInv, AnswersCurrent, VectorText, LexicalText
<1>. QED BY <1>1, KnowledgeHolds, PTL

\* A step writes to the collection it is connected to, and to the one of a
\* package only to bring it up to date.
LEMMA CollectionsKept ==
  ASSUME KnowledgeInv, KnowledgeNext, NEW s \in Store, NEW p \in Package,
         index[<<s, p>>] = Packaged[p]
  PROVE  index'[<<s, p>>] = Packaged[p]
<1>. USE DEF KnowledgeInv
<1>1. index \in Collections /\ corpus \in Corpus /\ client \in Store \cup {"none"}
      /\ <<s, p>> \in Store \X Corpus /\ p # Mutable
  BY KnowledgeAssumption DEF KnowledgeTypes, Corpus
<1>2. CASE UNCHANGED index
  BY <1>2
<1>3. ASSUME NEW d \in Doc, NEW t \in Text \cup {None}, SetIndex(d, t), UNCHANGED <<client, corpus>>,
             corpus \notin Package \/ Indexed[d] # docs[d]
      PROVE  index'[<<s, p>>] = Packaged[p]
  <2>1. <<s, p>> # <<client, corpus>>
    <3>1. ASSUME <<s, p>> = <<client, corpus>> PROVE FALSE
      <4>1. corpus = p /\ Indexed = index[<<s, p>>]
        BY <3>1 DEF Indexed, CollectionOf
      <4>2. docs = Packaged[p]
        BY <4>1 DEF CorpusInv
      <4>. QED BY <1>3, <4>1, <4>2
    <3>. QED BY <3>1
  <2>2. \A x \in Store \X Corpus : x # <<client, corpus>> => index'[x] = index[x]
    BY <1>1, <1>3, IndexSet
  <2>. QED BY <1>1, <2>1, <2>2
<1>4. ASSUME NEW c \in Corpus, NEW x \in Store \cup {"none"}, Start(c, x) PROVE UNCHANGED index
  BY <1>4 DEF Start
<1>5. CASE SyncDone \/ Stop \/ \E c \in Call, items \in Items : AddDocuments(c, items)
  BY <1>2, <1>5 DEF SyncDone, Stop, AddDocuments
<1>6. ASSUME NEW d \in Doc, SyncDelete(d) \/ SyncUpsert(d)
      PROVE  index'[<<s, p>>] = Packaged[p]
  <2>1. docs[d] \in Text \cup {None}
    BY DEF KnowledgeTypes, Documents
  <2>2. CASE SyncDelete(d)
    <3>1. SetIndex(d, None) /\ UNCHANGED <<client, corpus>> /\ Indexed[d] # docs[d]
      BY <2>2 DEF SyncDelete, StaleParents
    <3>. QED BY <1>3, <3>1
  <2>3. CASE SyncUpsert(d)
    <3>1. SetIndex(d, docs[d]) /\ UNCHANGED <<client, corpus>> /\ Indexed[d] # docs[d]
      BY <2>3 DEF SyncUpsert, Outdated
    <3>. QED BY <1>3, <2>1, <3>1
  <2>. QED BY <1>6, <2>2, <2>3
<1>7. CASE SyncFails
  <2>1. CASE \E d \in Outdated : SetIndex(d, None)
    <3>1. PICK d \in Outdated : SetIndex(d, None)
      BY <2>1
    <3>2. d \in Doc /\ Indexed[d] # docs[d] /\ UNCHANGED <<client, corpus>>
      BY <1>7 DEF Outdated, SyncFails
    <3>. QED BY <1>3, <3>1, <3>2
  <2>. QED BY <1>2, <1>7, <2>1 DEF SyncFails
\* Upserts and deletions there are with the mutable corpus only.
<1>8. ASSUME NEW d \in Doc, NEW t \in Text, NEW outcome, UpsertChunks(d, t, outcome),
             UNCHANGED <<client, corpus>>, corpus \notin Package
      PROVE  index'[<<s, p>>] = Packaged[p]
  BY <1>2, <1>3, <1>8 DEF UpsertChunks
<1>9. ASSUME NEW d \in Doc, AddSample(d) PROVE index'[<<s, p>>] = Packaged[p]
  <2>1. /\ corpus \notin Package /\ UNCHANGED <<client, corpus>> /\ Sample[d] \in Text
        /\ \/ UNCHANGED index
           \/ \E indexed \in UpsertOutcome : UpsertChunks(d, Sample[d], indexed)
    BY <1>9, KnowledgeAssumption DEF AddSample, CorpusInv, MissingSamples, Documents
  <2>. QED BY <1>2, <1>8, <2>1
<1>10. ASSUME NEW c \in Call, FinishUpsert(c) PROVE index'[<<s, p>>] = Packaged[p]
  <2>1. corpus \notin Package /\ UNCHANGED <<client, corpus>>
    BY <1>10 DEF FinishUpsert, CorpusInv
  <2>2. Head(call[c]) \in Upsert
    BY <1>10 DEF FinishUpsert, KnowledgeTypes
  <2>3. Head(call[c]).doc \in Doc /\ Head(call[c]).text \in Text
    BY <2>2 DEF Upsert
  <2>4. PICK outcome \in UpsertOutcome : UpsertChunks(Head(call[c]).doc, Head(call[c]).text, outcome)
    BY <1>10 DEF FinishUpsert
  <2>. QED BY <1>8, <2>1, <2>3, <2>4
<1>11. ASSUME NEW d \in Doc, DeleteDocument(d) PROVE index'[<<s, p>>] = Packaged[p]
  <2>1. /\ corpus \notin Package /\ UNCHANGED <<client, corpus>>
        /\ UNCHANGED index \/ SetIndex(d, None)
    BY <1>11, KnowledgeAssumption DEF DeleteDocument, Writable, RemoveChunks
  <2>. QED BY <1>2, <1>3, <2>1
<1>. QED BY <1>2, <1>4, <1>5, <1>6, <1>7, <1>9, <1>10, <1>11 DEF KnowledgeNext

\* A complete index of a package stays complete through every other package, the
\* mutable corpus, failures and crashes (_select_embedding_collection).
THEOREM IndexIsReused == KnowledgeSpec => IndexReused
<1>1. KnowledgeInv /\ [KnowledgeNext]_knowledgeVars =>
        [\A s \in Store, p \in Package :
           index[<<s, p>>] = Packaged[p] => index'[<<s, p>>] = Packaged[p]]_knowledgeVars
  BY CollectionsKept
<1>. QED BY <1>1, KnowledgeHolds, PTL DEF KnowledgeSpec, IndexReused

\* A restart on the mutable corpus has the documents of the process before,
\* unless the last save went wrong (_load_documents, _save_documents).
THEOREM RestartIsKeeping == KnowledgeSpec => RestartKeeps
<1>1. ASSUME KnowledgeInv, KnowledgeNext, phase = "down", phase' # "down",
             corpus = Mutable, corpus' = Mutable
      PROVE  docs' = docs \/ unsaved
  <2>1. PICK c \in Corpus, s \in Store \cup {"none"} : Start(c, s)
    BY <1>1 DEF KnowledgeNext, SyncDelete, SyncUpsert, SyncDone, SyncFails, AddSample, Stop,
       AddDocuments, FinishUpsert, DeleteDocument, Writable
  <2>2. docs' = Loaded(Mutable)
    BY <1>1, <2>1 DEF Start
  <2>3. KnowledgeTypes /\ FilesInv
    BY <1>1 DEF KnowledgeInv
  <2>4. ~unsaved => Loaded(Mutable) = docs
    BY <1>1, <2>3, LoadedAre DEF FilesInv, Corpus
  <2>. QED BY <2>2, <2>4
<1>2. KnowledgeInv /\ [KnowledgeNext]_knowledgeVars =>
        [phase = "down" /\ phase' # "down" /\ corpus = Mutable /\ corpus' = Mutable
         => docs' = docs \/ unsaved]_knowledgeVars
  BY <1>1
<1>. QED BY <1>2, KnowledgeHolds, PTL DEF KnowledgeSpec, RestartKeeps
=============================================================================

---------------------------- MODULE ChatTurn_proofs ----------------------------
(***************************************************************************)
(* Theorems about ChatTurn, for any requests, branches and POSTs and any   *)
(* number of turns.                                                        *)
(*                                                                         *)
(* Every step leaves the messages alone, appends the one question or the   *)
(* one answer that fits, or deletes conversations.  LogInv says what these *)
(* keep; the properties follow from it with what the callers were told and *)
(* which receipts were published.                                          *)
(***************************************************************************)
EXTENDS ChatTurn, SequenceTheorems, WellFoundedInduction, TLAPS

(* The conversations and the turns in them *)
LogInv ==
    /\ open \subseteq Conv
    /\ nextTurn \in 1 .. MaxTurns + 1
    /\ log \in [Conv -> Seq(Message)]
    /\ \A k \in Conv \ open : log[k] = <<>>
    /\ Alternating
    /\ \A k \in Conv : \A i \in DOMAIN log[k] :
          log[k][i].turn < nextTurn /\ i <= 2 * log[k][i].turn
    /\ \A k, l \in Conv : \A i \in DOMAIN log[k], j \in DOMAIN log[l] :
          log[k][i].turn = log[l][j].turn /\ log[k][i].role = log[l][j].role => k = l /\ i = j

Origin == [root : Request, cutoff : Nat]

(* Where a branch comes from *)
OriginInv ==
    /\ origin \in [Branch -> Origin \cup {None}]
    /\ \A b \in Branch \cap open :
          /\ origin[b] # None
          /\ origin[b].root \in open
          /\ origin[b].cutoff <= Len(log[origin[b].root])
    /\ \A b \in Branch : origin[b] # None => origin[b].cutoff <= 2 * MaxTurns

(* What a POST under way knows *)
CallInv ==
    /\ call \in [Call -> [pc : {"idle", "preparing", "generating"},
                          request : Request \cup {None}, conv : Conv \cup {None},
                          turn : Turn \cup {None}]]
    /\ \A c \in Call :
          /\ call[c].pc # "idle" => call[c].request \in Request
          /\ call[c].pc = "generating" => call[c].turn \in Turn /\ call[c].turn < nextTurn

BaseInv == LogInv /\ OriginInv /\ CallInv

(* What callers were told is of an answered turn, as long as it exists *)
ToldInv ==
    /\ told \subseteq [turn : Turn, status : Final]
    /\ \A a \in told : a.turn < nextTurn
    /\ AgreedAnswer

-----------------------------------------------------------------------------
(* Messages and conversations *)

LEMMA Even == \A n \in Nat : (n % 2 # 1 <=> n % 2 = 0) /\ ((n + 1) % 2 = 1 <=> n % 2 = 0)
  OBVIOUS

LEMMA OddBelow == \A n, t \in Nat : n % 2 = 1 /\ n <= 2 * t => n + 1 <= 2 * t
  OBVIOUS

LEMMA MessageFacts ==
    ASSUME NEW m \in Message
    PROVE  /\ m.role \in {"user", "assistant"}
           /\ m.turn \in Turn
           /\ m.role = "user" => m.request \in Request
           /\ m.role = "assistant" => m.status \in Final /\ m.receipt \in BOOLEAN
  BY DEF Message

LEMMA QuestionFacts ==
    ASSUME NEW t \in Turn, NEW r \in Request
    PROVE  /\ Question(t, r) \in Message
           /\ Question(t, r).role = "user"
           /\ Question(t, r).turn = t
           /\ Question(t, r).request = r
  BY DEF Message, Question

LEMMA AnswerFacts ==
    ASSUME NEW t \in Turn, NEW s \in Final, NEW r \in BOOLEAN
    PROVE  /\ Answer(t, s, r) \in Message
           /\ Answer(t, s, r).role = "assistant"
           /\ Answer(t, s, r).turn = t
           /\ Answer(t, s, r).status = s
           /\ Answer(t, s, r).receipt = r
  BY DEF Message, Answer

LEMMA LogFacts ==
    ASSUME LogInv, NEW k \in Conv
    PROVE  /\ log[k] \in Seq(Message)
           /\ Len(log[k]) \in Nat
           /\ DOMAIN log[k] = 1 .. Len(log[k])
           /\ \A i \in 1 .. Len(log[k]) : log[k][i] \in Message
           /\ log[k] = <<>> <=> Len(log[k]) = 0
<1>1. log[k] \in Seq(Message)
  BY DEF LogInv
<1>. QED  BY <1>1, LenProperties, EmptySeq, ElementOfSeq

LEMMA Parity ==
    ASSUME LogInv, NEW k \in Conv
    PROVE  Pending(log[k]) <=> Len(log[k]) % 2 = 1
<1>1. CASE log[k] = <<>>
  BY <1>1, LogFacts DEF Pending
<1>2. CASE log[k] # <<>>
  <2>1. Len(log[k]) \in DOMAIN log[k]
    BY <1>2, LogFacts
  <2>2. IF Len(log[k]) % 2 = 1 THEN log[k][Len(log[k])].role = "user"
        ELSE log[k][Len(log[k])].role = "assistant"
    BY <2>1 DEF LogInv, Alternating
  <2>. QED  BY <1>2, <2>2 DEF Pending, Latest
<1>. QED  BY <1>1, <1>2

(* A message joins a conversation *)
Joins(k, m) ==
    /\ k \in Conv /\ m \in Message
    /\ log' = [log EXCEPT ![k] = Append(@, m)]

LEMMA Joined ==
    ASSUME LogInv, NEW k, NEW m, Joins(k, m)
    PROVE  /\ log' \in [Conv -> Seq(Message)]
           /\ \A l \in Conv \ {k} : log'[l] = log[l]
           /\ Len(log'[k]) = Len(log[k]) + 1
           /\ DOMAIN log'[k] = 1 .. Len(log[k]) + 1
           /\ \A i \in 1 .. Len(log[k]) : log'[k][i] = log[k][i]
           /\ log'[k][Len(log[k]) + 1] = m
<1>1. log[k] \in Seq(Message) /\ m \in Message /\ k \in Conv
  BY LogFacts DEF Joins
<1>2. /\ Append(log[k], m) \in Seq(Message)
      /\ Len(Append(log[k], m)) = Len(log[k]) + 1
      /\ \A i \in 1 .. Len(log[k]) : Append(log[k], m)[i] = log[k][i]
      /\ Append(log[k], m)[Len(log[k]) + 1] = m
  BY <1>1, AppendProperties
<1>3. DOMAIN Append(log[k], m) = 1 .. Len(log[k]) + 1
  BY <1>2, LenProperties
<1>4. log'[k] = Append(log[k], m) /\ \A l \in Conv \ {k} : log'[l] = log[l]
  BY <1>1 DEF Joins, LogInv
<1>5. log' \in [Conv -> Seq(Message)]
  BY <1>1, <1>2 DEF Joins, LogInv
<1>. QED  BY <1>2, <1>3, <1>4, <1>5

(* The message fits: a question with the next turn after an answer, or the  *)
(* answer to the question that waits.                                       *)
Fits(k, m) ==
    \/ /\ m.role = "user" /\ m.turn = nextTurn
       /\ ~Pending(log[k])
       /\ nextTurn' = nextTurn + 1
    \/ /\ m.role = "assistant" /\ Pending(log[k])
       /\ m.turn = Latest(log[k]).turn
       /\ nextTurn' = nextTurn

LEMMA QuestionBefore ==
    ASSUME LogInv, NEW k \in Conv, NEW i \in DOMAIN log[k], log[k][i].role = "assistant"
    PROVE  /\ i - 1 \in DOMAIN log[k]
           /\ log[k][i - 1].role = "user"
           /\ log[k][i - 1].turn = log[k][i].turn
<1>1. i % 2 = 0 /\ i \in 1 .. Len(log[k])
  BY LogFacts DEF LogInv, Alternating
<1>2. i - 1 \in 1 .. Len(log[k]) /\ (i - 1) % 2 = 1
  BY <1>1, LogFacts
<1>. QED  BY <1>1, <1>2, LogFacts, ZenonT(40) DEF LogInv, Alternating

LEMMA JoinKeepsLog ==
    ASSUME LogInv, NEW k, NEW m, Joins(k, m), Fits(k, m),
           open \subseteq open', open' \subseteq Conv, k \in open',
           nextTurn' <= MaxTurns + 1
    PROVE  LogInv'
<1>. DEFINE n == Len(log[k])
<1>1. /\ k \in Conv /\ m \in Message
      /\ n \in Nat
      /\ nextTurn \in Nat /\ nextTurn' \in 1 .. MaxTurns + 1
      /\ nextTurn <= nextTurn'
      /\ m.turn \in Nat
  BY LogFacts, MessageFacts, MaxTurnsAssumption DEF Joins, Fits, LogInv, Turn
<1>2. /\ log' \in [Conv -> Seq(Message)]
      /\ \A l \in Conv \ {k} : log'[l] = log[l]
      /\ DOMAIN log'[k] = 1 .. n + 1
      /\ \A i \in 1 .. n : log'[k][i] = log[k][i]
      /\ log'[k][n + 1] = m
  BY Joined
<1>3. \A l \in Conv : \A i \in DOMAIN log'[l] :
          \/ i \in DOMAIN log[l] /\ log'[l][i] = log[l][i]
          \/ l = k /\ i = n + 1 /\ log'[l][i] = m
  BY <1>1, <1>2, LogFacts
<1>4. n # 0 => n \in DOMAIN log[k] /\ log[k][n].turn \in Nat /\ log[k][n].turn < nextTurn
                /\ n <= 2 * log[k][n].turn
  BY <1>1, LogFacts, MessageFacts DEF LogInv, Turn
<1>5. CASE m.role = "user" /\ m.turn = nextTurn /\ ~Pending(log[k]) /\ nextTurn' = nextTurn + 1
  <2>1. n % 2 = 0
    <3>1. ~(n % 2 = 1)
      BY <1>1, <1>5, Parity, Zenon
    <3>. QED  BY <3>1, <1>1, Even
  <2>2. Alternating'
    <3>1. SUFFICES ASSUME NEW l \in Conv, NEW i \in DOMAIN log'[l]
                   PROVE  IF i % 2 = 1 THEN log'[l][i].role = "user"
                          ELSE /\ log'[l][i].role = "assistant"
                               /\ log'[l][i].turn = log'[l][i - 1].turn
      BY DEF Alternating
    <3>2. CASE i \in DOMAIN log[l] /\ log'[l][i] = log[l][i]
      <4>1. CASE i % 2 = 1
        BY <3>2, <4>1 DEF LogInv, Alternating
      <4>2. CASE i % 2 # 1
        <5>1. log[l][i].role = "assistant" /\ log[l][i].turn = log[l][i - 1].turn
          BY <3>2, <4>2 DEF LogInv, Alternating
        <5>2. i - 1 \in DOMAIN log[l]
          BY <5>1, <3>2, QuestionBefore
        <5>3. log'[l][i - 1] = log[l][i - 1]
          BY <5>2, <1>2, LogFacts
        <5>. QED  BY <3>2, <4>2, <5>1, <5>3
      <4>. QED  BY <4>1, <4>2
    <3>3. CASE l = k /\ i = n + 1 /\ log'[l][i] = m
      <4>1. i % 2 = 1
        BY <3>3, <2>1, <1>1, Even
      <4>. QED  BY <3>3, <4>1, <1>5
    <3>. QED  BY <3>1, <3>2, <3>3, <1>3
  <2>3. \A l \in Conv : \A i \in DOMAIN log'[l] :
            log'[l][i].turn < nextTurn' /\ i <= 2 * log'[l][i].turn
    <3>1. \A l \in Conv : \A i \in DOMAIN log[l] :
              /\ log[l][i].turn \in Nat /\ log[l][i].turn < nextTurn
              /\ i <= 2 * log[l][i].turn
      BY LogFacts, MessageFacts DEF LogInv, Turn
    <3>2. m.turn < nextTurn' /\ n + 1 <= 2 * m.turn
      BY <1>1, <1>4, <1>5 DEF LogInv
    <3>. QED  BY <3>1, <3>2, <1>1, <1>3, <1>5
  <2>4. \A l1, l2 \in Conv : \A i \in DOMAIN log'[l1], j \in DOMAIN log'[l2] :
            log'[l1][i].turn = log'[l2][j].turn /\ log'[l1][i].role = log'[l2][j].role
                => l1 = l2 /\ i = j
    <3>1. \A l \in Conv : \A i \in DOMAIN log[l] : log[l][i].turn # m.turn
      BY <1>1, <1>5, LogFacts, MessageFacts DEF LogInv, Turn
    <3>. QED  BY <3>1, <1>3, SMTT(40) DEF LogInv
  <2>. QED  BY <1>1, <1>2, <2>2, <2>3, <2>4 DEF LogInv
<1>6. CASE m.role = "assistant" /\ Pending(log[k]) /\ m.turn = Latest(log[k]).turn
           /\ nextTurn' = nextTurn
  <2>1. n % 2 = 1 /\ n # 0 /\ log[k][n].role = "user" /\ m.turn = log[k][n].turn
    <3>1. n % 2 = 1
      BY <1>1, <1>6, Parity, Zenon
    <3>2. log[k] # <<>>
      BY <1>6 DEF Pending
    <3>. QED  BY <1>1, <1>6, <3>1, <3>2, LogFacts DEF Pending, Latest
  <2>2. Alternating'
    <3>1. SUFFICES ASSUME NEW l \in Conv, NEW i \in DOMAIN log'[l]
                   PROVE  IF i % 2 = 1 THEN log'[l][i].role = "user"
                          ELSE /\ log'[l][i].role = "assistant"
                               /\ log'[l][i].turn = log'[l][i - 1].turn
      BY DEF Alternating
    <3>2. CASE i \in DOMAIN log[l] /\ log'[l][i] = log[l][i]
      <4>1. CASE i % 2 = 1
        BY <3>2, <4>1 DEF LogInv, Alternating
      <4>2. CASE i % 2 # 1
        <5>1. log[l][i].role = "assistant" /\ log[l][i].turn = log[l][i - 1].turn
          BY <3>2, <4>2 DEF LogInv, Alternating
        <5>2. i - 1 \in DOMAIN log[l]
          BY <5>1, <3>2, QuestionBefore
        <5>3. log'[l][i - 1] = log[l][i - 1]
          BY <5>2, <1>2, LogFacts
        <5>. QED  BY <3>2, <4>2, <5>1, <5>3
      <4>. QED  BY <4>1, <4>2
    <3>3. CASE l = k /\ i = n + 1 /\ log'[l][i] = m
      <4>1. i % 2 # 1
        BY <3>3, <2>1, <1>1, Even
      <4>2. log'[l][i - 1] = log[k][n]
        BY <3>3, <2>1, <1>1, <1>2
      <4>. QED  BY <3>3, <4>1, <4>2, <2>1, <1>6
    <3>. QED  BY <3>1, <3>2, <3>3, <1>3
  <2>3. \A l \in Conv : \A i \in DOMAIN log'[l] :
            log'[l][i].turn < nextTurn' /\ i <= 2 * log'[l][i].turn
    <3>1. m.turn < nextTurn' /\ n + 1 <= 2 * m.turn
      BY <1>1, <1>4, <1>6, <2>1, OddBelow
    <3>. QED  BY <3>1, <1>3, <1>6 DEF LogInv
  <2>4. \A l1, l2 \in Conv : \A i \in DOMAIN log'[l1], j \in DOMAIN log'[l2] :
            log'[l1][i].turn = log'[l2][j].turn /\ log'[l1][i].role = log'[l2][j].role
                => l1 = l2 /\ i = j
    <3>1. \A l \in Conv : \A i \in DOMAIN log[l] :
              ~(log[l][i].turn = m.turn /\ log[l][i].role = m.role)
      <4>1. SUFFICES ASSUME NEW l \in Conv, NEW i \in DOMAIN log[l],
                            log[l][i].turn = m.turn, log[l][i].role = "assistant"
                     PROVE  FALSE
        BY <1>6
      <4>2. /\ i - 1 \in DOMAIN log[l]
            /\ log[l][i - 1].role = "user" /\ log[l][i - 1].turn = m.turn
        BY <4>1, QuestionBefore
      <4>3. l = k /\ i - 1 = n
        <5>1. n \in DOMAIN log[k] /\ log[k][n].role = "user" /\ log[k][n].turn = m.turn
          BY <2>1, <1>4
        <5>2. \A a, b \in Conv : \A x \in DOMAIN log[a], y \in DOMAIN log[b] :
                  log[a][x].turn = log[b][y].turn /\ log[a][x].role = log[b][y].role
                      => a = b /\ x = y
          BY DEF LogInv
        <5>3. log[l][i - 1].turn = log[k][n].turn /\ log[l][i - 1].role = log[k][n].role
          BY <5>1, <4>2
        <5>. QED  BY <5>1, <5>2, <5>3, <4>1, <4>2, <1>1
      <4>4. i \in 1 .. Len(log[k])
        BY <4>3, <1>1, LogFacts
      <4>. QED  BY <4>3, <4>4, <1>1
    <3>2. \A a, b \in Conv : \A x \in DOMAIN log[a], y \in DOMAIN log[b] :
              log[a][x].turn = log[b][y].turn /\ log[a][x].role = log[b][y].role => a = b /\ x = y
      BY DEF LogInv
    <3>3. SUFFICES ASSUME NEW l1 \in Conv, NEW l2 \in Conv,
                          NEW i \in DOMAIN log'[l1], NEW j \in DOMAIN log'[l2],
                          log'[l1][i].turn = log'[l2][j].turn,
                          log'[l1][i].role = log'[l2][j].role
                   PROVE  l1 = l2 /\ i = j
      OBVIOUS
    <3>4. \/ i \in DOMAIN log[l1] /\ log'[l1][i] = log[l1][i]
          \/ l1 = k /\ i = n + 1 /\ log'[l1][i] = m
      BY <1>3, <3>3
    <3>5. \/ j \in DOMAIN log[l2] /\ log'[l2][j] = log[l2][j]
          \/ l2 = k /\ j = n + 1 /\ log'[l2][j] = m
      BY <1>3, <3>3
    <3>. QED  BY <3>1, <3>2, <3>3, <3>4, <3>5
  <2>. QED  BY <1>1, <1>2, <2>2, <2>3, <2>4 DEF LogInv
<1>. QED  BY <1>5, <1>6 DEF Fits

-----------------------------------------------------------------------------
(* What is said, whatever the conversation *)

Said == UNION {{log[k][i] : i \in DOMAIN log[k]} : k \in Conv}

(* A turn has one question and at most one answer, and what the handlers    *)
(* look up can be read from what is said.                                   *)
Reading ==
    /\ Said \subseteq Message
    /\ \A m \in Said : m.turn < nextTurn
    /\ \A m, n \in Said : m.turn = n.turn /\ m.role = n.role => m = n
    /\ \A m \in Said : m.role = "assistant" => \E q \in Said : q.role = "user" /\ q.turn = m.turn
    /\ \A t : Exists(t) <=> \E m \in Said : m.role = "user" /\ m.turn = t
    /\ \A t : Answered(t) <=> \E m \in Said : m.role = "assistant" /\ m.turn = t
    /\ \A t, s : s \in StatusOf(t)
                    <=> \E m \in Said : m.role = "assistant" /\ m.turn = t /\ m.status = s
    /\ \A r : Known(r) <=> \E m \in Said : m.role = "user" /\ m.request = r

LEMMA SaidIn == \A m : m \in Said <=> \E k \in Conv : \E i \in DOMAIN log[k] : log[k][i] = m
  BY DEF Said

LEMMA Read == LogInv => Reading
<1>. SUFFICES ASSUME LogInv PROVE Reading
  OBVIOUS
<1>1. \A k \in Conv : \A i \in DOMAIN log[k] : log[k][i] \in Message
  BY LogFacts
<1>2. \A k \in Conv \ open : \A i \in DOMAIN log[k] : FALSE
  BY EmptySeq DEF LogInv
<1>3. open \subseteq Conv
  BY DEF LogInv
<1>4. Said \subseteq Message
  BY <1>1, SaidIn
<1>5. \A m \in Said : m.turn < nextTurn
  BY SaidIn DEF LogInv
<1>6. \A m, n \in Said : m.turn = n.turn /\ m.role = n.role => m = n
  <2>1. SUFFICES ASSUME NEW m \in Said, NEW n \in Said, m.turn = n.turn, m.role = n.role
                 PROVE  m = n
    OBVIOUS
  <2>2. PICK k, i : k \in Conv /\ i \in DOMAIN log[k] /\ log[k][i] = m
    BY <2>1, SaidIn
  <2>3. PICK l, j : l \in Conv /\ j \in DOMAIN log[l] /\ log[l][j] = n
    BY <2>1, SaidIn
  <2>4. k = l /\ i = j
    BY <2>1, <2>2, <2>3 DEF LogInv
  <2>. QED  BY <2>2, <2>3, <2>4
<1>7. \A m \in Said : m.role = "assistant" => \E q \in Said : q.role = "user" /\ q.turn = m.turn
  <2>1. SUFFICES ASSUME NEW m \in Said, m.role = "assistant"
                 PROVE  \E q \in Said : q.role = "user" /\ q.turn = m.turn
    OBVIOUS
  <2>2. PICK k, i : k \in Conv /\ i \in DOMAIN log[k] /\ log[k][i] = m
    BY <2>1, SaidIn
  <2>3. /\ i - 1 \in DOMAIN log[k] /\ log[k][i - 1].role = "user"
        /\ log[k][i - 1].turn = m.turn
    BY <2>1, <2>2, QuestionBefore
  <2>4. log[k][i - 1] \in Said
    BY <2>2, <2>3, SaidIn
  <2>. QED  BY <2>3, <2>4
<1>8. \A t : Exists(t) <=> \E m \in Said : m.role = "user" /\ m.turn = t
  BY <1>2, <1>3, SaidIn DEF Exists, Asks
<1>9. \A t : Answered(t) <=> \E m \in Said : m.role = "assistant" /\ m.turn = t
  BY <1>2, <1>3, SaidIn DEF Answered, Answers
<1>10. \A t, s : s \in StatusOf(t)
                    <=> \E m \in Said : m.role = "assistant" /\ m.turn = t /\ m.status = s
  <2>1. SUFFICES ASSUME NEW t, NEW s
                 PROVE  s \in StatusOf(t)
                    <=> \E m \in Said : m.role = "assistant" /\ m.turn = t /\ m.status = s
    OBVIOUS
  <2>2. \A m \in Said : m.role = "assistant" => m.status \in Final
    BY <1>4, MessageFacts
  <2>3. s \in StatusOf(t) => \E m \in Said : m.role = "assistant" /\ m.turn = t /\ m.status = s
    BY <1>3, SaidIn DEF StatusOf, Answers
  <2>4. ASSUME NEW m \in Said, m.role = "assistant", m.turn = t, m.status = s
        PROVE  s \in StatusOf(t)
    <3>1. PICK k, i : k \in Conv /\ i \in DOMAIN log[k] /\ log[k][i] = m
      BY <2>4, SaidIn
    <3>2. k \in open /\ i \in Answers(log[k], t)
      BY <3>1, <2>4, <1>2 DEF Answers
    <3>. QED  BY <2>2, <2>4, <3>1, <3>2 DEF StatusOf
  <2>. QED  BY <2>3, <2>4
<1>11. \A r : Known(r) <=> \E m \in Said : m.role = "user" /\ m.request = r
  BY <1>2, <1>3, SaidIn DEF Known, AsksFor
<1>. QED  BY <1>4, <1>5, <1>6, <1>7, <1>8, <1>9, <1>10, <1>11, Zenon DEF Reading

LEMMA JoinSays ==
    ASSUME LogInv, NEW k, NEW m, Joins(k, m)
    PROVE  Said' = Said \cup {m}
<1>1. k \in Conv
  BY DEF Joins
<1>2. /\ \A l \in Conv \ {k} : log'[l] = log[l]
      /\ DOMAIN log[k] = 1 .. Len(log[k]) /\ Len(log[k]) \in Nat
      /\ DOMAIN log'[k] = 1 .. Len(log[k]) + 1
      /\ \A i \in 1 .. Len(log[k]) : log'[k][i] = log[k][i]
      /\ log'[k][Len(log[k]) + 1] = m
  BY <1>1, Joined, LogFacts
<1>3. \A l \in Conv : \A i \in DOMAIN log'[l] :
          (i \in DOMAIN log[l] /\ log'[l][i] = log[l][i]) \/ log'[l][i] = m
  BY <1>2
<1>4. \A l \in Conv : \A i \in DOMAIN log[l] : i \in DOMAIN log'[l] /\ log'[l][i] = log[l][i]
  BY <1>2
<1>5. Len(log[k]) + 1 \in DOMAIN log'[k]
  BY <1>2
<1>6. \A n : n \in Said' <=> \E l \in Conv : \E i \in DOMAIN log'[l] : log'[l][i] = n
  BY DEF Said
<1>7. \A n \in Said' : n \in Said \cup {m}
  BY <1>3, <1>6, SaidIn
<1>8. \A n \in Said : n \in Said'
  BY <1>4, <1>6, SaidIn
<1>9. m \in Said'
  BY <1>1, <1>2, <1>5, <1>6
<1>. QED  BY <1>7, <1>8, <1>9

-----------------------------------------------------------------------------
(* What the handlers do to the messages *)

LEMMA Waiting ==
    ASSUME LogInv, NEW t \in Turn, NEW k \in Conv, Holds(k, t), ~Answered(t)
    PROVE  Pending(log[k]) /\ Latest(log[k]).turn = t
<1>1. PICK i \in DOMAIN log[k] : log[k][i].role = "user" /\ log[k][i].turn = t
  BY DEF Holds, Asks
<1>2. i \in Nat /\ i \in 1 .. Len(log[k]) /\ Len(log[k]) \in Nat
  BY <1>1, LogFacts
<1>3. i % 2 = 1
  BY <1>1 DEF LogInv, Alternating
<1>4. i = Len(log[k])
  <2>1. SUFFICES ASSUME i # Len(log[k]) PROVE FALSE
    OBVIOUS
  <2>2. i + 1 \in DOMAIN log[k]
    BY <1>2, <2>1, LogFacts
  <2>3. (i + 1) % 2 # 1 /\ (i + 1) - 1 = i
    BY <1>2, <1>3, Even
  <2>4. log[k][i + 1].role = "assistant" /\ log[k][i + 1].turn = t
    BY <1>1, <2>2, <2>3 DEF LogInv, Alternating
  <2>5. i + 1 \in Answers(log[k], t)
    BY <2>2, <2>4 DEF Answers
  <2>. QED  BY <2>5 DEF Answered, Holds
<1>5. log[k] # <<>>
  BY <1>2, <1>4, LogFacts
<1>. QED  BY <1>1, <1>4, <1>5 DEF Pending, Latest

(* Only one conversation has the turn, so one answer is added to it *)
LEMMA StoreJoins ==
    ASSUME LogInv, NEW t \in Turn, NEW s \in Final, NEW r \in BOOLEAN,
           Exists(t), ~Answered(t), Store(t, s, r), nextTurn' = nextTurn
    PROVE  \E k \in open : Joins(k, Answer(t, s, r)) /\ Fits(k, Answer(t, s, r))
<1>1. PICK k \in open : Holds(k, t)
  BY DEF Exists, Holds
<1>2. k \in Conv
  BY <1>1 DEF LogInv
<1>3. \A l \in Conv : Holds(l, t) => l = k
  BY <1>1, <1>2 DEF LogInv, Holds, Asks
<1>4. log' = [log EXCEPT ![k] = Append(@, Answer(t, s, r))]
  BY <1>1, <1>2, <1>3 DEF Store, Add, LogInv
<1>5. Joins(k, Answer(t, s, r))
  BY <1>2, <1>4, AnswerFacts DEF Joins
<1>6. Fits(k, Answer(t, s, r))
  BY <1>1, <1>2, Waiting, AnswerFacts DEF Fits
<1>. QED  BY <1>1, <1>5, <1>6

(* An answer is stored, and nothing else of the store changes. *)
Answering(t, s, r) ==
    /\ t \in Turn /\ s \in Final /\ r \in BOOLEAN
    /\ Exists(t) /\ ~Answered(t)
    /\ Store(t, s, r)
    /\ UNCHANGED <<open, origin, nextTurn, inherited>>

Asking(k, r) ==
    /\ k \in Conv /\ r \in Request
    /\ ~Known(r)
    /\ k \in open \/ (k \in Request /\ k \notin open)
    /\ ~Pending(log[k])
    /\ nextTurn <= MaxTurns /\ nextTurn' = nextTurn + 1
    /\ Joins(k, Question(nextTurn, r))
    /\ open' = open \cup {k}
    /\ UNCHANGED <<origin, inherited>>

LEMMA AnsweringKeeps ==
    ASSUME LogInv, NEW t, NEW s, NEW r, Answering(t, s, r)
    PROVE  /\ LogInv'
           /\ Said' = Said \cup {Answer(t, s, r)}
           /\ \E k \in open : Joins(k, Answer(t, s, r))
<1>1. PICK k \in open : Joins(k, Answer(t, s, r)) /\ Fits(k, Answer(t, s, r))
  BY StoreJoins DEF Answering
<1>2. open' = open /\ open \subseteq Conv /\ nextTurn' <= MaxTurns + 1
  BY MaxTurnsAssumption DEF Answering, LogInv
<1>3. LogInv'
  BY <1>1, <1>2, JoinKeepsLog
<1>. QED  BY <1>1, <1>3, JoinSays

LEMMA AskingKeeps ==
    ASSUME LogInv, NEW k, NEW r, Asking(k, r)
    PROVE  /\ LogInv'
           /\ Said' = Said \cup {Question(nextTurn, r)}
           /\ nextTurn \in Turn
<1>1. nextTurn \in Turn /\ nextTurn' <= MaxTurns + 1
  BY MaxTurnsAssumption DEF Asking, LogInv, Turn
<1>2. Fits(k, Question(nextTurn, r))
  BY <1>1, QuestionFacts DEF Asking, Fits
<1>3. open \subseteq open' /\ open' \subseteq Conv /\ k \in open'
  BY DEF Asking, LogInv
<1>4. Joins(k, Question(nextTurn, r))
  BY DEF Asking
<1>5. LogInv'
  BY <1>1, <1>2, <1>3, <1>4, JoinKeepsLog
<1>. QED  BY <1>1, <1>4, <1>5, JoinSays

(* A conversation goes with its branches. *)
Deleting(root) ==
    /\ root \in open \cap Request
    /\ open' = open \ ({root} \cup BranchesOf(root))
    /\ log' = [k \in Conv |-> IF k \in {root} \cup BranchesOf(root) THEN <<>> ELSE log[k]]
    /\ UNCHANGED <<origin, nextTurn, inherited>>

LEMMA DeletingKeeps ==
    ASSUME LogInv, NEW root, Deleting(root)
    PROVE  /\ LogInv'
           /\ Said' \subseteq Said
           /\ \A m \in Said', n \in Said : m.turn = n.turn => n \in Said'
<1>. DEFINE gone == {root} \cup BranchesOf(root)
<1>1. \A k \in Conv : log'[k] = IF k \in gone THEN <<>> ELSE log[k]
  BY DEF Deleting
<1>2. DOMAIN log' = Conv /\ open \subseteq Conv /\ open' = open \ gone /\ nextTurn' = nextTurn
  BY DEF Deleting, LogInv
<1>. HIDE DEF gone
<1>3. \A k \in Conv : \A i \in DOMAIN log'[k] :
          k \notin gone /\ log'[k] = log[k] /\ i \in DOMAIN log[k]
  BY <1>1, EmptySeq
<1>4. \A k \in Conv : log[k] \in Seq(Message)
  BY LogFacts
<1>5. log' \in [Conv -> Seq(Message)]
  <2>1. log' = [k \in Conv |-> IF k \in gone THEN <<>> ELSE log[k]]
    BY DEF Deleting, gone
  <2>. QED  BY <1>4, <2>1, EmptySeq
<1>6. \A k \in Conv \ open' : log'[k] = <<>>
  BY <1>1, <1>2 DEF LogInv
<1>7. Alternating'
  BY <1>3 DEF LogInv, Alternating
<1>8. LogInv'
  BY <1>2, <1>3, <1>5, <1>6, <1>7 DEF LogInv
<1>9. \A m : m \in Said' <=> \E k \in Conv : \E i \in DOMAIN log'[k] : log'[k][i] = m
  BY DEF Said
<1>10. Said' \subseteq Said
  BY <1>3, <1>9, SaidIn
<1>11. ASSUME NEW m \in Said', NEW n \in Said, m.turn = n.turn
       PROVE  n \in Said'
  <2>1. PICK k, i : k \in Conv /\ i \in DOMAIN log'[k] /\ log'[k][i] = m
    BY <1>11, <1>9
  <2>2. k \notin gone /\ log'[k] = log[k] /\ i \in DOMAIN log[k] /\ log[k][i] = m
    BY <1>3, <2>1
  <2>3. PICK l, j : l \in Conv /\ j \in DOMAIN log[l] /\ log[l][j] = n
    BY <1>11, SaidIn
  <2>4. l = k
    <3>1. PICK x \in DOMAIN log[k] : log[k][x].role = "user" /\ log[k][x].turn = m.turn
      BY <2>1, <2>2, QuestionBefore, LogFacts, MessageFacts
    <3>2. PICK y \in DOMAIN log[l] : log[l][y].role = "user" /\ log[l][y].turn = n.turn
      BY <2>3, QuestionBefore, LogFacts, MessageFacts, SMTT(30)
    <3>. QED  BY <1>11, <2>1, <2>3, <3>1, <3>2 DEF LogInv
  <2>. QED  BY <1>9, <2>1, <2>2, <2>3, <2>4
<1>. QED  BY <1>8, <1>10, <1>11

-----------------------------------------------------------------------------
(* What a step does, seen from the messages, the callers and the receipts *)

Quiet ==
    /\ UNCHANGED <<log, nextTurn>>
    /\ \/ UNCHANGED <<open, origin, inherited>>
       \/ \E k \in Conv, b \in Branch : OpenComparison(k, b) \/ CopyBranch(k, b)

(* Receipts that nobody could confirm *)
Leaves(left) == receipts' = receipts \cup left /\ orphaned' = orphaned \cup left

Listening(t, left) ==
    /\ Quiet
    /\ t \in Turn
    /\ told' = told \/ (Answered(t) /\ Tell(t, StatusOf(t)))
    /\ left \subseteq 1 .. (nextTurn - 1)
    /\ Leaves(left)

Settling(t, s, r, left) ==
    /\ Answering(t, s, r)
    /\ told' = told \/ Tell(t, {s})
    /\ left \subseteq {t}
    /\ \/ r = FALSE /\ Leaves(left)
       \/ r = TRUE /\ s = "completed" /\ receipts' = receipts \cup {t} /\ orphaned' = orphaned

Effect ==
    /\ \A t \in expired' : t \in expired \/ (t \in Turn /\ Exists(t))
    /\ \/ \E t, left : Listening(t, left)
       \/ \E t, s, r, left : Settling(t, s, r, left)
       \/ \E k, r : Asking(k, r) /\ UNCHANGED <<told, receipts, orphaned>>
       \/ \E root : Deleting(root) /\ UNCHANGED <<told, receipts, orphaned>>

LEMMA Unanswered ==
    ASSUME LogInv, NEW k \in open, Pending(log[k])
    PROVE  /\ Latest(log[k]).turn \in Turn
           /\ Exists(Latest(log[k]).turn)
           /\ ~Answered(Latest(log[k]).turn)
<1>. DEFINE n == Len(log[k])
            t == log[k][n].turn
<1>1. k \in Conv
  BY DEF LogInv
<1>2. n \in Nat /\ n \in DOMAIN log[k] /\ log[k][n].role = "user" /\ Latest(log[k]).turn = t
  BY <1>1, LogFacts DEF Pending, Latest
<1>3. t \in Turn /\ Exists(t)
  BY <1>1, <1>2, LogFacts, MessageFacts DEF Exists, Asks
<1>4. ASSUME Answered(t) PROVE FALSE
  <2>1. PICK l \in open : Answers(log[l], t) # {}
    BY <1>4 DEF Answered
  <2>2. PICK i \in DOMAIN log[l] : log[l][i].role = "assistant" /\ log[l][i].turn = t
    BY <2>1 DEF Answers
  <2>3. l \in Conv
    BY <2>1 DEF LogInv
  <2>4. i - 1 \in DOMAIN log[l] /\ log[l][i - 1].role = "user" /\ log[l][i - 1].turn = t
    BY <2>2, <2>3, QuestionBefore
  <2>5. l = k /\ i - 1 = n
    BY <1>1, <1>2, <2>3, <2>4 DEF LogInv
  <2>6. i \in 1 .. n
    BY <1>1, <2>2, <2>5, LogFacts
  <2>. QED  BY <1>2, <2>5, <2>6
<1>. QED  BY <1>2, <1>3, <1>4

LEMMA TurnsFacts ==
    ASSUME LogInv
    PROVE  /\ Turn \subseteq Nat
           /\ \A t : Exists(t) => t \in Turn /\ t \in 1 .. (nextTurn - 1)
           /\ \A t : Answered(t) => Exists(t)
           /\ 1 \in Turn
<1>1. Reading
  BY Read
<1>2. \A m \in Said : m.turn \in Turn /\ m.turn < nextTurn
  BY <1>1, MessageFacts DEF Reading
<1>3. Turn \subseteq Nat /\ 1 \in Turn /\ nextTurn \in Nat
  BY MaxTurnsAssumption DEF Turn, LogInv
<1>4. \A t : Exists(t) => t \in Turn /\ t \in 1 .. (nextTurn - 1)
  <2>1. \A t \in Turn : t < nextTurn => t \in 1 .. (nextTurn - 1)
    BY <1>3, MaxTurnsAssumption DEF Turn
  <2>2. \A t : Exists(t) => t \in Turn /\ t < nextTurn
    BY <1>1, <1>2 DEF Reading
  <2>. QED  BY <2>1, <2>2
<1>5. \A t : Answered(t) => Exists(t)
  BY <1>1 DEF Reading
<1>. QED  BY <1>3, <1>4, <1>5

LEMMA RespondEffect ==
    ASSUME LogInv, NEW t \in Turn, Exists(t), Respond(t),
           UNCHANGED <<open, origin, nextTurn, inherited, receipts, orphaned>>
    PROVE  Listening(t, {}) \/ Settling(t, "interrupted", FALSE, {})
<1>1. CASE Answered(t) /\ Tell(t, StatusOf(t)) /\ UNCHANGED log
  BY <1>1 DEF Listening, Quiet, Leaves
<1>2. CASE ~Answered(t) /\ Recover(t) /\ Tell(t, {"interrupted"})
  BY <1>2 DEF Settling, Answering, Leaves, Recover, Final
<1>3. CASE UNCHANGED <<log, told>>
  BY <1>3 DEF Listening, Quiet, Leaves
<1>. QED  BY <1>1, <1>2, <1>3 DEF Respond

LEMMA TerminalizeEffect ==
    ASSUME LogInv, NEW t \in Turn, t < nextTurn, Terminalize(t), NEW left \in SUBSET {t}, Leaves(left),
           UNCHANGED <<open, origin, nextTurn, inherited>>
    PROVE  Listening(t, left) \/ Settling(t, "error", FALSE, left)
<1>1. left \subseteq {t} /\ left \subseteq 1 .. (nextTurn - 1)
  BY TurnsFacts, MaxTurnsAssumption DEF LogInv, Turn
<1>2. CASE Answered(t) /\ Tell(t, StatusOf(t)) /\ UNCHANGED log
  BY <1>1, <1>2 DEF Listening, Quiet
<1>3. CASE Exists(t) /\ ~Answered(t) /\ Store(t, "error", FALSE) /\ Tell(t, {"error"})
  BY <1>1, <1>3 DEF Settling, Answering, Final
<1>4. CASE UNCHANGED <<log, told>>
  BY <1>1, <1>4 DEF Listening, Quiet
<1>. QED  BY <1>2, <1>3, <1>4 DEF Terminalize

LEMMA ReceiptFacts ==
    ASSUME NEW t, NEW s, NEW r \in MayHaveReceipt(t, s)
    PROVE  r = FALSE \/ (r = TRUE /\ s = "completed")
  BY DEF MayHaveReceipt

LEMMA PersistEffect ==
    ASSUME LogInv, NEW t \in Turn, Exists(t), ~Answered(t),
           NEW s \in {"completed", "error"}, NEW r \in MayHaveReceipt(t, s),
           Store(t, s, r), Tell(t, {s}),
           receipts' = IF r THEN receipts \cup {t} ELSE receipts,
           UNCHANGED <<open, origin, nextTurn, inherited, orphaned>>
    PROVE  Settling(t, s, r, {})
<1>1. Answering(t, s, r)
  BY ReceiptFacts DEF Answering, Final
<1>2. CASE r = FALSE
  BY <1>1, <1>2 DEF Settling, Leaves
<1>3. CASE r = TRUE /\ s = "completed"
  BY <1>1, <1>3 DEF Settling
<1>. QED  BY <1>2, <1>3, ReceiptFacts

LEMMA PostEffect ==
    ASSUME BaseInv, NEW c \in Call,
           \/ Begin(c) \/ PreparationFails(c) \/ Admit(c) \/ AdmitKnown(c) \/ AdmitRefused(c)
           \/ Persist(c) \/ GenerationFails(c) \/ CommitFails(c)
    PROVE  Effect
<1>. DEFINE t == call[c].turn
<1>0. LogInv /\ 1 \in Turn
  BY TurnsFacts DEF BaseInv
<1>1. call[c].pc = "generating" => t \in Turn /\ t < nextTurn
  BY DEF BaseInv, CallInv
<1>. HIDE DEF t
<1>2. CASE Begin(c)
  <2>1. expired' = expired /\ told' = told /\ UNCHANGED <<open, origin, nextTurn, inherited>>
           /\ UNCHANGED <<receipts, orphaned>>
    BY <1>2 DEF Begin
  <2>2. PICK k \in open \cup {None} :
            UNCHANGED log \/ (k # None /\ Pending(log[k]) /\ Recover(Latest(log[k]).turn))
    BY <1>2 DEF Begin
  <2>3. CASE UNCHANGED log
    <3>1. Listening(1, {})
      BY <1>0, <2>1, <2>3 DEF Listening, Quiet, Leaves
    <3>. QED  BY <2>1, <3>1 DEF Effect
  <2>4. CASE k # None /\ Pending(log[k]) /\ Recover(Latest(log[k]).turn)
    <3>. DEFINE u == Latest(log[k]).turn
    <3>1. u \in Turn /\ Exists(u) /\ ~Answered(u)
      BY <1>0, <2>4, Unanswered
    <3>. HIDE DEF u
    <3>2. Recover(u)
      BY <2>4 DEF u
    <3>3. Settling(u, "interrupted", FALSE, {})
      BY <2>1, <3>1, <3>2 DEF Settling, Answering, Recover, Leaves, Final
    <3>. QED  BY <2>1, <3>3 DEF Effect
  <2>. QED  BY <2>2, <2>3, <2>4
<1>3. CASE PreparationFails(c) \/ AdmitRefused(c)
  <2>1. Listening(1, {}) /\ expired' = expired
    BY <1>0, <1>3 DEF PreparationFails, AdmitRefused, Listening, Quiet, Leaves, store
  <2>. QED  BY <2>1 DEF Effect
<1>4. CASE Admit(c)
  <2>1. call[c].request \in Request /\ Target(c) \in Conv
           /\ (Target(c) \in open \/ (Target(c) \in Request /\ Target(c) \notin open))
    BY <1>0, <1>4 DEF Admit, Target, BaseInv, CallInv, LogInv, Conv
  <2>2. ~Pending(log[Target(c)])
    BY <1>0, <1>4, <2>1 DEF Admit, Pending, LogInv
  <2>3. nextTurn \in Turn
    BY <1>0, <1>4, MaxTurnsAssumption DEF Admit, LogInv, Turn
  <2>4. Joins(Target(c), Question(nextTurn, call[c].request))
    BY <1>4, <2>1, <2>3, QuestionFacts DEF Admit, Joins, Add
  <2>5. Asking(Target(c), call[c].request)
    BY <1>4, <2>1, <2>2, <2>4 DEF Admit, Asking
  <2>. QED  BY <1>4, <2>5 DEF Admit, Effect
<1>5. CASE AdmitKnown(c)
  <2>1. PICK k \in open, u \in Turn : AsksAs(log[k], u, call[c].request) /\ Respond(u)
    BY <1>5 DEF AdmitKnown
  <2>2. Exists(u)
    BY <2>1, QuestionFacts DEF Exists, Asks, AsksAs, Question
  <2>3. Listening(u, {}) \/ Settling(u, "interrupted", FALSE, {})
    BY <1>0, <1>5, <2>1, <2>2, RespondEffect DEF AdmitKnown
  <2>. QED  BY <1>5, <2>3 DEF AdmitKnown, Effect
<1>6. CASE Persist(c)
  <2>1. t \in Turn /\ Exists(t) /\ expired' = expired
           /\ UNCHANGED <<open, origin, nextTurn, inherited, orphaned>>
    BY <1>1, <1>6 DEF Persist, t
  <2>2. CASE Answered(t) /\ Tell(t, StatusOf(t)) /\ UNCHANGED <<log, receipts>>
    <3>1. Listening(t, {})
      BY <2>1, <2>2 DEF Listening, Quiet, Leaves
    <3>. QED  BY <2>1, <3>1 DEF Effect
  <2>3. ASSUME ~Answered(t), NEW s \in {"completed", "error"}, NEW r \in MayHaveReceipt(t, s),
               Store(t, s, r), Tell(t, {s}), receipts' = IF r THEN receipts \cup {t} ELSE receipts
        PROVE  Effect
    <3>1. Settling(t, s, r, {})
      BY <1>0, <2>1, <2>3, PersistEffect
    <3>. QED  BY <2>1, <3>1 DEF Effect
  <2>. QED  BY <1>6, <2>2, <2>3 DEF Persist, t
<1>7. CASE GenerationFails(c)
  <2>1. t \in Turn /\ t < nextTurn /\ expired' = expired /\ Terminalize(t)
           /\ UNCHANGED <<open, origin, nextTurn, inherited>> /\ Leaves({})
    BY <1>1, <1>7 DEF GenerationFails, Leaves, t
  <2>2. Listening(t, {}) \/ Settling(t, "error", FALSE, {})
    BY <1>0, <2>1, TerminalizeEffect
  <2>. QED  BY <2>1, <2>2 DEF Effect
<1>8. CASE CommitFails(c)
  <2>1. t \in Turn /\ t < nextTurn /\ Exists(t) /\ ~Answered(t) /\ expired' = expired
           /\ UNCHANGED <<open, origin, nextTurn, inherited>>
    BY <1>1, <1>8 DEF CommitFails, t
  <2>2. ASSUME NEW s \in {"completed", "error"}, NEW r \in MayHaveReceipt(t, s),
               Store(t, s, r), Tell(t, {s}),
               receipts' = IF r THEN receipts \cup {t} ELSE receipts, UNCHANGED orphaned
        PROVE  Effect
    <3>1. Settling(t, s, r, {})
      BY <1>0, <2>1, <2>2, PersistEffect
    <3>. QED  BY <2>1, <3>1 DEF Effect
  <2>3. ASSUME NEW r, Terminalize(t), NEW left \in SUBSET {u \in {t} : r},
               receipts' = receipts \cup left, orphaned' = orphaned \cup left
        PROVE  Effect
    <3>1. left \in SUBSET {t} /\ Leaves(left)
      BY <2>3 DEF Leaves
    <3>2. Listening(t, left) \/ Settling(t, "error", FALSE, left)
      BY <1>0, <2>1, <2>3, <3>1, TerminalizeEffect
    <3>. QED  BY <2>1, <3>2 DEF Effect
  <2>. QED  BY <1>8, <2>2, <2>3 DEF CommitFails, t
<1>. QED  BY <1>2, <1>3, <1>4, <1>5, <1>6, <1>7, <1>8

LEMMA OtherEffect ==
    ASSUME BaseInv,
           \/ \E t \in Turn : Poll(t) \/ Expire(t)
           \/ Crash
           \/ \E k \in Conv : Delete(k) \/ \E b \in Branch : OpenComparison(k, b) \/ CopyBranch(k, b)
           \/ UNCHANGED vars
    PROVE  Effect
<1>0. LogInv /\ 1 \in Turn
  BY TurnsFacts DEF BaseInv
<1>1. ASSUME NEW t \in Turn, Poll(t) PROVE Effect
  <2>1. Listening(t, {}) \/ Settling(t, "interrupted", FALSE, {})
    BY <1>0, <1>1, RespondEffect DEF Poll
  <2>. QED  BY <1>1, <2>1 DEF Poll, Effect
<1>2. ASSUME NEW t \in Turn, Expire(t) PROVE Effect
  <2>1. Listening(1, {})
    BY <1>0, <1>2 DEF Expire, Listening, Quiet, Leaves, store
  <2>. QED  BY <1>2, <2>1 DEF Expire, Effect
<1>3. CASE Crash
  <2>1. PICK left : Leaves(left) /\ left \subseteq {u \in Turn : Exists(u)}
    <3>1. CASE UNCHANGED <<receipts, orphaned>>
      <4>1. Leaves({})
        BY <3>1 DEF Leaves
      <4>. QED  BY <4>1
    <3>2. ASSUME NEW c \in Call, TRUE \in MayHaveReceipt(call[c].turn, "completed"),
                 receipts' = receipts \cup {call[c].turn}, orphaned' = orphaned \cup {call[c].turn}
          PROVE  \E left : Leaves(left) /\ left \subseteq {u \in Turn : Exists(u)}
      <4>1. Exists(call[c].turn)
        BY <3>2 DEF MayHaveReceipt, Holds, Exists
      <4>2. Leaves({call[c].turn})
        BY <3>2 DEF Leaves
      <4>. QED  BY <1>0, <4>1, <4>2, TurnsFacts
    <3>. QED  BY <1>3, <3>1, <3>2 DEF Crash
  <2>2. left \subseteq 1 .. (nextTurn - 1)
    BY <1>0, <2>1, TurnsFacts
  <2>3. Listening(1, left) /\ expired' = expired
    BY <1>0, <1>3, <2>1, <2>2 DEF Crash, Listening, Quiet, store
  <2>. QED  BY <2>3 DEF Effect
<1>4. ASSUME NEW k \in Conv, Delete(k) PROVE Effect
  <2>1. Deleting(k) /\ UNCHANGED <<told, receipts, orphaned>> /\ expired' = expired
    BY <1>4 DEF Delete, Deleting
  <2>. QED  BY <2>1 DEF Effect
<1>5. ASSUME NEW k \in Conv, NEW b \in Branch, OpenComparison(k, b) \/ CopyBranch(k, b)
      PROVE  Effect
  <2>1. UNCHANGED <<log, nextTurn, told, receipts, orphaned, expired>>
    BY <1>5 DEF OpenComparison, CopyBranch, NewBranch
  <2>2. Quiet
    BY <1>5, <2>1 DEF Quiet
  <2>3. Listening(1, {})
    BY <1>0, <2>1, <2>2 DEF Listening, Leaves
  <2>. QED  BY <2>1, <2>3 DEF Effect
<1>6. CASE UNCHANGED vars
  <2>1. Listening(1, {}) /\ expired' = expired
    BY <1>0, <1>6 DEF vars, store, Listening, Quiet, Leaves
  <2>. QED  BY <2>1 DEF Effect
<1>. QED  BY <1>1, <1>2, <1>3, <1>4, <1>5, <1>6

LEMMA StepEffect == BaseInv /\ [Next]_vars => Effect
  BY PostEffect, OtherEffect DEF Next

-----------------------------------------------------------------------------
(* Branches *)

LEMMA HasMax ==
    ASSUME NEW n \in Nat, NEW S \in SUBSET (1 .. n), S # {}
    PROVE  \E x \in S : \A y \in S : y <= x
<1>. DEFINE T == {n - x : x \in S}
<1>1. T \subseteq Nat /\ T # {}
  <2>1. \A x \in S : n - x \in Nat
    OBVIOUS
  <2>2. PICK x : x \in S
    OBVIOUS
  <2>. QED  BY <2>1, <2>2
<1>2. PICK d \in T : \A e \in T : ~(<<e, d>> \in OpToRel(<, Nat))
  BY <1>1, WFMin, NatLessThanWellFounded
<1>3. PICK x \in S : d = n - x
  BY <1>2
<1>4. ASSUME NEW y \in S PROVE y <= x
  <2>1. n - y \in T /\ n - y \in Nat /\ d \in Nat
    BY <1>1, <1>2, <1>4
  <2>2. ~(<<n - y, d>> \in OpToRel(<, Nat))
    BY <1>2, <2>1
  <2>3. ~(n - y < d)
    BY <2>1, <2>2 DEF OpToRel
  <2>. QED  BY <1>3, <1>4, <2>3
<1>. QED  BY <1>4, <1>3

LEMMA LastCompletedBound ==
    ASSUME NEW L, NEW n \in Nat, DOMAIN L = 1 .. n
    PROVE  LastCompleted(L) \in 0 .. n
<1>. DEFINE S == {i \in 1 .. n : Completed(L[i])}
<1>1. CASE \E i \in DOMAIN L : Completed(L[i])
  <2>1. \E x \in S : \A y \in S : y <= x
    BY <1>1, HasMax
  <2>2. \E i \in DOMAIN L : Completed(L[i]) /\ \A j \in DOMAIN L : Completed(L[j]) => j <= i
    BY <2>1
  <2>3. LastCompleted(L) \in DOMAIN L
    BY <1>1, <2>2 DEF LastCompleted
  <2>. QED  BY <2>3
<1>2. CASE ~(\E i \in DOMAIN L : Completed(L[i]))
  BY <1>2 DEF LastCompleted
<1>. QED  BY <1>1, <1>2

LEMMA LogLength ==
    ASSUME LogInv, NEW k \in Conv
    PROVE  Len(log[k]) \in Nat /\ Len(log[k]) <= 2 * MaxTurns
<1>1. Len(log[k]) \in Nat /\ MaxTurns \in Nat
  BY LogFacts, MaxTurnsAssumption
<1>2. CASE Len(log[k]) # 0
  <2>1. Len(log[k]) \in DOMAIN log[k] /\ log[k][Len(log[k])].turn \in Turn
    BY <1>1, <1>2, LogFacts, MessageFacts
  <2>2. Len(log[k]) <= 2 * log[k][Len(log[k])].turn
    BY <2>1 DEF LogInv
  <2>. QED  BY <1>1, <2>1, <2>2 DEF Turn
<1>. QED  BY <1>1, <1>2

(* A comparison names an existing root and a part of what it says. *)
LEMMA BranchMade ==
    ASSUME BaseInv, NEW k \in Conv, NEW b \in Branch, OpenComparison(k, b) \/ CopyBranch(k, b)
    PROVE  \E cutoff \in Nat : /\ k \in open \cap Request
                               /\ cutoff <= Len(log[k])
                               /\ NewBranch(b, k, cutoff)
<1>1. k \in open \cap Request
  BY DEF OpenComparison, CopyBranch
<1>2. Len(log[k]) \in Nat /\ DOMAIN log[k] = 1 .. Len(log[k])
  BY LogFacts DEF BaseInv
<1>3. CASE OpenComparison(k, b)
  <2>1. LastCompleted(log[k]) \in 0 .. Len(log[k])
    BY <1>2, LastCompletedBound
  <2>. QED  BY <1>1, <1>2, <1>3, <2>1 DEF OpenComparison
<1>4. CASE CopyBranch(k, b)
  <2>1. PICK i \in DOMAIN log[k] : NewBranch(b, k, i - 1)
    BY <1>4 DEF CopyBranch
  <2>2. i - 1 \in Nat /\ i - 1 <= Len(log[k])
    BY <1>2
  <2>. QED  BY <1>1, <2>1, <2>2
<1>. QED  BY <1>3, <1>4

LEMMA QuietKeeps ==
    ASSUME BaseInv, Quiet
    PROVE  LogInv' /\ OriginInv' /\ Said' = Said
<1>1. Said' = Said
  BY DEF Quiet, Said
<1>2. CASE UNCHANGED <<open, origin, inherited>>
  <2>1. LogInv'
    BY <1>2 DEF BaseInv, Quiet, LogInv, Alternating
  <2>2. OriginInv'
    BY <1>2 DEF BaseInv, Quiet, OriginInv
  <2>. QED  BY <1>1, <2>1, <2>2
<1>3. ASSUME NEW k \in Conv, NEW b \in Branch, OpenComparison(k, b) \/ CopyBranch(k, b)
      PROVE  LogInv' /\ OriginInv'
  <2>1. PICK cutoff \in Nat : k \in open \cap Request /\ cutoff <= Len(log[k]) /\ NewBranch(b, k, cutoff)
    BY <1>3, BranchMade
  <2>2. open' = open \cup {b} /\ UNCHANGED <<log, nextTurn>> /\ b \in Conv /\ open \subseteq Conv
    BY <2>1 DEF NewBranch, Quiet, Conv, BaseInv, LogInv
  <2>3. LogInv'
    BY <2>2 DEF BaseInv, LogInv, Alternating
  <2>. DEFINE new == [root |-> k, cutoff |-> cutoff]
  <2>4. new \in Origin /\ new # None /\ new.root = k /\ new.cutoff = cutoff
    <3>1. new \in Origin /\ new.root = k /\ new.cutoff = cutoff
      BY <2>1 DEF Origin
    <3>2. origin[b] = None
      BY <2>1 DEF NewBranch
    <3>. QED  BY <3>1, DistinctAssumption DEF Origin
  <2>. HIDE DEF new
  <2>5. k \in open /\ k # b /\ Len(log[k]) <= 2 * MaxTurns /\ cutoff <= Len(log[k])
    BY <2>1, LogLength, DistinctAssumption DEF BaseInv
  <2>6. /\ origin' = [origin EXCEPT ![b] = new]
        /\ origin \in [Branch -> Origin \cup {None}]
    BY <2>1 DEF NewBranch, new, BaseInv, OriginInv
  <2>7. origin'[b] = new /\ \A a \in Branch \ {b} : origin'[a] = origin[a]
    BY <2>6
  <2>8. origin' \in [Branch -> Origin \cup {None}]
    BY <2>4, <2>6
  <2>9. ASSUME NEW a \in Branch
        PROVE  /\ a \in open' => /\ origin'[a] # None
                                 /\ origin'[a].root \in open'
                                 /\ origin'[a].cutoff <= Len(log'[origin'[a].root])
               /\ origin'[a] # None => origin'[a].cutoff <= 2 * MaxTurns
    <3>1. CASE a = b
      <4>1. k \in open' /\ log' = log /\ origin'[a] = new
        BY <2>2, <2>5, <2>7, <3>1
      <4>2. cutoff <= 2 * MaxTurns
        BY <2>1, <2>5, LogFacts, MaxTurnsAssumption DEF BaseInv
      <4>. QED  BY <2>4, <2>5, <4>1, <4>2
    <3>2. CASE a # b
      <4>1. origin'[a] = origin[a] /\ (a \in open' => a \in open) /\ log' = log
        BY <2>2, <2>7, <3>2
      <4>2. /\ a \in open => origin[a] # None /\ origin[a].root \in open
                                 /\ origin[a].cutoff <= Len(log[origin[a].root])
            /\ origin[a] # None => origin[a].cutoff <= 2 * MaxTurns
        BY DEF BaseInv, OriginInv
      <4>. QED  BY <2>2, <4>1, <4>2
    <3>. QED  BY <3>1, <3>2
  <2>10. OriginInv'
    BY <2>8, <2>9 DEF OriginInv
  <2>. QED  BY <2>3, <2>10
<1>. QED  BY <1>1, <1>2, <1>3 DEF Quiet

Prefix(L, cutoff) == {L[i] : i \in History(L, cutoff)}

LEMMA BranchRead ==
    BranchHistoryFixed <=>
        \A b \in Branch \cap open :
            origin[b].root \in open /\ Prefix(log[origin[b].root], origin[b].cutoff) = inherited[b]
  BY DEF BranchHistoryFixed, Prefix

(* What comes after the cut-off does not count. *)
LEMMA HistoryStable ==
    ASSUME NEW L, NEW M, NEW n \in Nat, NEW cutoff \in Nat, cutoff <= n,
           DOMAIN L = 1 .. n, DOMAIN M = 1 .. n + 1,
           \A i \in 1 .. n : M[i] = L[i]
    PROVE  Prefix(M, cutoff) = Prefix(L, cutoff)
<1>1. \A i \in 1 .. n + 1 : i <= cutoff => i \in 1 .. n
  OBVIOUS
<1>2. ASSUME NEW i \in 1 .. n, NEW j \in 1 .. n
      PROVE  (\A x \in i .. (j - 1) : M[x].role = "user")
                <=> (\A x \in i .. (j - 1) : L[x].role = "user")
  <2>1. \A x \in i .. (j - 1) : x \in 1 .. n
    OBVIOUS
  <2>. QED  BY <2>1
<1>3. \A j \in 1 .. n : Completed(M[j]) <=> Completed(L[j])
  BY DEF Completed
<1>. DEFINE Run(S, i) == \E j \in 1 .. n : /\ i <= j /\ j <= cutoff
                                           /\ Completed(S[j])
                                           /\ \A x \in i .. (j - 1) : S[x].role = "user"
<1>4. History(M, cutoff) = {i \in 1 .. n : i <= cutoff /\ Run(M, i)}
  BY <1>1 DEF History
<1>5. History(L, cutoff) = {i \in 1 .. n : i <= cutoff /\ Run(L, i)}
  BY DEF History
<1>6. \A i \in 1 .. n : Run(M, i) <=> Run(L, i)
  BY <1>2, <1>3
<1>. HIDE DEF Run
<1>7. History(M, cutoff) = History(L, cutoff) /\ History(L, cutoff) \subseteq 1 .. n
  BY <1>4, <1>5, <1>6
<1>. QED  BY <1>7 DEF Prefix

LEMMA JoinKeepsBranches ==
    ASSUME LogInv, OriginInv, BranchHistoryFixed,
           NEW k, NEW m, Joins(k, m),
           open \subseteq open', open' \subseteq open \cup Request,
           UNCHANGED <<origin, inherited>>
    PROVE  OriginInv' /\ BranchHistoryFixed'
<1>1. k \in Conv /\ \A l \in Conv : Len(log[l]) \in Nat /\ DOMAIN log[l] = 1 .. Len(log[l])
  BY LogFacts DEF Joins
<1>2. /\ \A l \in Conv \ {k} : log'[l] = log[l]
      /\ Len(log'[k]) = Len(log[k]) + 1
      /\ DOMAIN log'[k] = 1 .. Len(log[k]) + 1
      /\ \A i \in 1 .. Len(log[k]) : log'[k][i] = log[k][i]
  BY <1>1, Joined
<1>3. ASSUME NEW b \in Branch \cap open'
      PROVE  /\ b \in open
             /\ origin[b] \in Origin
             /\ origin[b] # None
             /\ origin[b].root \in open /\ origin[b].root \in Conv
             /\ origin[b].cutoff \in Nat
             /\ origin[b].cutoff <= Len(log[origin[b].root])
  <2>1. b \in Branch \cap open
    BY <1>3, DistinctAssumption
  <2>2. origin[b] \in Origin \cup {None} /\ origin[b] # None
    BY <2>1 DEF OriginInv
  <2>3. origin[b].cutoff \in Nat
    BY <2>2 DEF Origin
  <2>. QED  BY <2>1, <2>2, <2>3 DEF OriginInv, LogInv
<1>4. ASSUME NEW l \in Conv, NEW cutoff \in Nat, cutoff <= Len(log[l])
      PROVE  /\ cutoff <= Len(log'[l])
             /\ Prefix(log'[l], cutoff) = Prefix(log[l], cutoff)
  <2>1. CASE l # k
    BY <1>2, <1>4, <2>1
  <2>2. CASE l = k
    <3>. DEFINE n == Len(log[k])
    <3>1. /\ n \in Nat /\ DOMAIN log[k] = 1 .. n /\ DOMAIN log'[k] = 1 .. n + 1 /\ cutoff <= n
          /\ \A i \in 1 .. n : log'[k][i] = log[k][i]
      BY <1>1, <1>2, <1>4, <2>2
    <3>. HIDE DEF n
    <3>2. Prefix(log'[k], cutoff) = Prefix(log[k], cutoff)
      BY <3>1, HistoryStable
    <3>3. cutoff <= Len(log'[l])
      BY <1>1, <1>2, <1>4, <2>2
    <3>. QED  BY <2>2, <3>2, <3>3
  <2>. QED  BY <2>1, <2>2
<1>5. OriginInv'
  <2>1. ASSUME NEW b \in Branch \cap open'
        PROVE  /\ origin'[b] # None /\ origin'[b].root \in open'
               /\ origin'[b].cutoff <= Len(log'[origin'[b].root])
    BY <1>3, <1>4, <2>1
  <2>. QED  BY <2>1 DEF OriginInv
<1>6. BranchHistoryFixed'
  <2>1. ASSUME NEW b \in Branch \cap open'
        PROVE  /\ origin'[b].root \in open'
               /\ Prefix(log'[origin'[b].root], origin'[b].cutoff) = inherited'[b]
    <3>1. Prefix(log[origin[b].root], origin[b].cutoff) = inherited[b]
      BY <1>3, <2>1, BranchRead
    <3>. QED  BY <1>3, <1>4, <2>1, <3>1
  <2>. QED  BY <2>1 DEF BranchHistoryFixed, Prefix
<1>. QED  BY <1>5, <1>6

LEMMA DeletingKeepsBranches ==
    ASSUME LogInv, OriginInv, BranchHistoryFixed, NEW root, Deleting(root)
    PROVE  OriginInv' /\ BranchHistoryFixed'
<1>1. ASSUME NEW b \in Branch \cap open'
      PROVE  /\ b \in Branch \cap open
             /\ origin[b].root \in open'
             /\ log'[origin[b].root] = log[origin[b].root]
  <2>1. b \in Branch \cap open /\ b \notin BranchesOf(root)
    BY <1>1 DEF Deleting
  <2>2. origin[b].root \in open /\ origin[b].root \in Request /\ open \subseteq Conv
    <3>1. origin[b] \in Origin
      BY <2>1 DEF OriginInv
    <3>. QED  BY <2>1, <3>1 DEF OriginInv, Origin, LogInv
  <2>3. origin[b].root # root
    BY <2>1 DEF BranchesOf
  <2>4. origin[b].root \notin {root} \cup BranchesOf(root)
    BY <2>2, <2>3, DistinctAssumption DEF BranchesOf
  <2>. QED  BY <2>1, <2>2, <2>4 DEF Deleting
<1>2. UNCHANGED <<origin, inherited>>
  BY DEF Deleting
<1>3. OriginInv'
  BY <1>1, <1>2 DEF OriginInv
<1>4. BranchHistoryFixed'
  BY <1>1, <1>2 DEF BranchHistoryFixed
<1>. QED  BY <1>3, <1>4

LEMMA QuietKeepsBranches ==
    ASSUME BaseInv, BranchHistoryFixed, Quiet,
           DOMAIN inherited = Branch
    PROVE  BranchHistoryFixed' /\ DOMAIN inherited' = Branch
<1>1. CASE UNCHANGED <<open, origin, inherited>>
  BY <1>1 DEF Quiet, BranchHistoryFixed
<1>2. ASSUME NEW k \in Conv, NEW b \in Branch, OpenComparison(k, b) \/ CopyBranch(k, b)
      PROVE  BranchHistoryFixed' /\ DOMAIN inherited' = Branch
  <2>1. PICK cutoff \in Nat : k \in open \cap Request /\ cutoff <= Len(log[k]) /\ NewBranch(b, k, cutoff)
    BY <1>2, BranchMade
  <2>. DEFINE prefix == {log[k][i] : i \in History(log[k], cutoff)}
  <2>2. /\ open' = open \cup {b} /\ log' = log
        /\ origin' = [origin EXCEPT ![b] = [root |-> k, cutoff |-> cutoff]]
        /\ inherited' = [inherited EXCEPT ![b] = prefix]
    BY <2>1 DEF NewBranch
  <2>3. DOMAIN inherited' = Branch
    BY <2>2
  <2>4. origin'[b] = [root |-> k, cutoff |-> cutoff] /\ inherited'[b] = prefix
           /\ \A a \in Branch \ {b} : origin'[a] = origin[a] /\ inherited'[a] = inherited[a]
    BY <2>2 DEF BaseInv, OriginInv
  <2>5. ASSUME NEW a \in Branch \cap open'
        PROVE  /\ origin'[a].root \in open'
               /\ {log'[origin'[a].root][i] : i \in History(log'[origin'[a].root], origin'[a].cutoff)}
                    = inherited'[a]
    <3>1. CASE a = b
      BY <2>1, <2>2, <2>4, <3>1
    <3>2. CASE a # b
      <4>1. /\ a \in Branch \cap open
            /\ origin'[a] = origin[a] /\ inherited'[a] = inherited[a]
        BY <2>2, <2>4, <2>5, <3>2
      <4>. QED  BY <2>2, <4>1 DEF BranchHistoryFixed
    <3>. QED  BY <3>1, <3>2
  <2>. QED  BY <2>2, <2>3, <2>5 DEF BranchHistoryFixed
<1>. QED  BY <1>1, <1>2 DEF Quiet

-----------------------------------------------------------------------------
(* Conversations, branches and POSTs under way are kept by every step. *)

BranchInv == BranchHistoryFixed /\ DOMAIN inherited = Branch

LEMMA EffectKeepsLogs ==
    ASSUME BaseInv, BranchInv, Effect
    PROVE  LogInv' /\ OriginInv' /\ BranchInv'
<1>. USE DEF BranchInv
<1>0. LogInv /\ OriginInv
  BY DEF BaseInv
<1>1. ASSUME NEW t, NEW left, Listening(t, left) PROVE LogInv' /\ OriginInv' /\ BranchInv'
  BY <1>1, QuietKeeps, QuietKeepsBranches DEF Listening
<1>2. ASSUME NEW t, NEW s, NEW r, NEW left, Settling(t, s, r, left)
      PROVE  LogInv' /\ OriginInv' /\ BranchInv'
  <2>1. Answering(t, s, r) /\ UNCHANGED <<open, origin, inherited>>
    BY <1>2 DEF Settling, Answering
  <2>2. PICK k \in open : Joins(k, Answer(t, s, r))
    BY <1>0, <2>1, AnsweringKeeps
  <2>3. OriginInv' /\ BranchHistoryFixed'
    BY <1>0, <2>1, <2>2, JoinKeepsBranches
  <2>. QED  BY <1>0, <2>1, <2>3, AnsweringKeeps
<1>3. ASSUME NEW k, NEW r, Asking(k, r) PROVE LogInv' /\ OriginInv' /\ BranchInv'
  <2>1. /\ Joins(k, Question(nextTurn, r))
        /\ open \subseteq open' /\ open' \subseteq open \cup Request
        /\ UNCHANGED <<origin, inherited>>
    BY <1>3 DEF Asking
  <2>2. OriginInv' /\ BranchHistoryFixed'
    BY <1>0, <2>1, JoinKeepsBranches
  <2>. QED  BY <1>0, <1>3, <2>1, <2>2, AskingKeeps
<1>4. ASSUME NEW root, Deleting(root) PROVE LogInv' /\ OriginInv' /\ BranchInv'
  <2>1. inherited' = inherited
    BY <1>4 DEF Deleting
  <2>. QED  BY <1>0, <1>4, <2>1, DeletingKeeps, DeletingKeepsBranches
<1>. QED  BY <1>1, <1>2, <1>3, <1>4 DEF Effect

LEMMA TurnsGrow ==
    ASSUME BaseInv, Effect
    PROVE  nextTurn \in Nat /\ nextTurn' \in Nat /\ nextTurn <= nextTurn'
<1>1. nextTurn \in Nat
  BY MaxTurnsAssumption DEF BaseInv, LogInv
<1>2. nextTurn' = nextTurn \/ nextTurn' = nextTurn + 1
  BY DEF Effect, Listening, Quiet, Settling, Answering, Asking, Deleting
<1>. QED  BY <1>1, <1>2

LEMMA CallsKept == BaseInv /\ Effect /\ [Next]_vars => CallInv'
<1>. SUFFICES ASSUME BaseInv, Effect, [Next]_vars PROVE CallInv'
  OBVIOUS
<1>. DEFINE CallState == [pc : {"idle", "preparing", "generating"},
                          request : Request \cup {None}, conv : Conv \cup {None},
                          turn : Turn \cup {None}]
            Sound(x) == /\ x \in CallState
                        /\ x.pc # "idle" => x.request \in Request
                        /\ x.pc = "generating" => x.turn \in Turn /\ x.turn < nextTurn'
<1>1. nextTurn \in Nat /\ nextTurn' \in Nat /\ nextTurn <= nextTurn' /\ Turn \subseteq Nat
  BY TurnsGrow, TurnsFacts DEF BaseInv
<1>2. call \in [Call -> CallState] /\ \A c \in Call : Sound(call[c])
  <2>1. call \in [Call -> CallState]
    BY DEF BaseInv, CallInv
  <2>2. ASSUME NEW c \in Call PROVE Sound(call[c])
    <3>1. /\ call[c].pc # "idle" => call[c].request \in Request
          /\ call[c].pc = "generating" => call[c].turn \in Turn /\ call[c].turn < nextTurn
      BY DEF BaseInv, CallInv
    <3>2. call[c].turn \in Turn /\ call[c].turn < nextTurn => call[c].turn < nextTurn'
      BY <1>1
    <3>3. call[c] \in CallState
      BY <2>1
    <3>. QED  BY <3>1, <3>2, <3>3
  <2>. QED  BY <2>1, <2>2
<1>3. Sound(Idle)
  BY DEF Idle
<1>4. ASSUME NEW c \in Call, NEW x, Sound(x), call' = [call EXCEPT ![c] = x]
      PROVE  call' \in [Call -> CallState] /\ \A d \in Call : Sound(call'[d])
  <2>1. \A d \in Call : call'[d] = IF d = c THEN x ELSE call[d]
    BY <1>2, <1>4
  <2>. HIDE DEF Sound
  <2>2. \A d \in Call : Sound(call'[d])
    BY <1>2, <1>4, <2>1
  <2>3. call' \in [Call -> CallState]
    BY <1>2, <1>4 DEF Sound
  <2>. QED  BY <2>2, <2>3
<1>5. call' \in [Call -> CallState] /\ \A c \in Call : Sound(call'[c])
  <2>1. ASSUME NEW c \in Call, Leave(c)
        PROVE  call' \in [Call -> CallState] /\ \A d \in Call : Sound(call'[d])
    <3>. HIDE DEF Sound, CallState
    <3>. QED  BY <1>3, <1>4, <2>1 DEF Leave
  <2>2. ASSUME NEW c \in Call, Begin(c)
        PROVE  call' \in [Call -> CallState] /\ \A d \in Call : Sound(call'[d])
    <3>1. PICK r \in Request, k \in open \cup {None} :
              call' = [call EXCEPT ![c] = [pc |-> "preparing", request |-> r, conv |-> k, turn |-> None]]
      BY <2>2 DEF Begin
    <3>2. k \in Conv \cup {None}
      BY <3>1 DEF BaseInv, LogInv
    <3>. DEFINE x == [pc |-> "preparing", request |-> r, conv |-> k, turn |-> None]
    <3>3. Sound(x)
      BY <3>1, <3>2
    <3>. HIDE DEF Sound, CallState
    <3>. QED  BY <1>4, <3>1, <3>3
  <2>3. ASSUME NEW c \in Call, Admit(c)
        PROVE  call' \in [Call -> CallState] /\ \A d \in Call : Sound(call'[d])
    <3>. DEFINE x == [call[c] EXCEPT !.pc = "generating", !.turn = nextTurn]
    <3>1. nextTurn \in Turn /\ nextTurn < nextTurn' /\ call[c].request \in Request
             /\ call[c] \in CallState
      BY <1>1, <1>2, <2>3, MaxTurnsAssumption DEF Admit, Turn, BaseInv, LogInv, CallInv
    <3>2. x \in CallState /\ x.pc = "generating" /\ x.turn = nextTurn /\ x.request = call[c].request
      BY <3>1
    <3>3. Sound(x)
      BY <3>1, <3>2
    <3>4. call' = [call EXCEPT ![c] = x]
      BY <1>2, <2>3 DEF Admit
    <3>. HIDE DEF Sound, CallState, x
    <3>. QED  BY <1>4, <3>3, <3>4
  <2>4. CASE call' = [c \in Call |-> Idle]
    BY <1>3, <2>4
  <2>5. CASE call' = call
    BY <1>2, <2>5
  <2>. HIDE DEF Sound, CallState
  <2>6. ASSUME NEW c \in Call,
               \/ PreparationFails(c) \/ AdmitKnown(c) \/ AdmitRefused(c)
               \/ Persist(c) \/ GenerationFails(c) \/ CommitFails(c)
        PROVE  Leave(c)
    BY <2>6 DEF PreparationFails, AdmitKnown, AdmitRefused, Persist, GenerationFails, CommitFails
  <2>7. ASSUME \/ \E t \in Turn : Poll(t) \/ Expire(t)
               \/ \E k \in Conv : Delete(k) \/ \E b \in Branch : OpenComparison(k, b) \/ CopyBranch(k, b)
               \/ UNCHANGED vars
        PROVE  call' = call
    BY <2>7 DEF Poll, Expire, Delete, OpenComparison, CopyBranch, NewBranch, vars
  <2>8. Crash => call' = [c \in Call |-> Idle]
    BY DEF Crash
  <2>. QED  BY <2>1, <2>2, <2>3, <2>4, <2>5, <2>6, <2>7, <2>8 DEF Next
<1>. QED  BY <1>5 DEF CallInv

LEMMA BaseKept == BaseInv /\ BranchInv /\ [Next]_vars => BaseInv' /\ BranchInv' /\ Effect
  BY StepEffect, EffectKeepsLogs, CallsKept DEF BaseInv

-----------------------------------------------------------------------------
(* What callers were told, and what receipts are for *)

LEMMA ToldKept ==
    ASSUME BaseInv, LogInv', Effect, ToldInv
    PROVE  ToldInv'
<1>0. LogInv /\ Reading /\ Reading'
  <2>1. LogInv => Reading
    BY Read
  <2>2. LogInv' => Reading'
    BY Read, PTL
  <2>. QED  BY <2>1, <2>2 DEF BaseInv
<1>. DEFINE Agreed(a) == Exists(a.turn)' => StatusOf(a.turn)' = {a.status}
            Tells == [turn : Turn, status : Final]
<1>1. /\ told \subseteq Tells
      /\ \A a \in told : a.turn < nextTurn
      /\ \A a, b \in told : a.turn = b.turn => a.status = b.status
      /\ \A a \in told : Exists(a.turn) => StatusOf(a.turn) = {a.status}
  BY DEF ToldInv, AgreedAnswer
<1>2. ASSUME told' = told, \A a \in told : Agreed(a) PROVE ToldInv'
  <2>1. \A a \in told : a.turn < nextTurn'
    <3>1. \A a \in told : a.turn \in Nat
      BY <1>0, <1>1, TurnsFacts
    <3>. QED  BY <1>1, <3>1, TurnsGrow
  <2>2. AgreedAnswer'
    BY <1>1, <1>2 DEF AgreedAnswer
  <2>. QED  BY <1>1, <1>2, <2>1, <2>2 DEF ToldInv
<1>3. ASSUME NEW t, NEW left, Listening(t, left) PROVE ToldInv'
  <2>1. Said' = Said /\ nextTurn' = nextTurn
    BY <1>3, QuietKeeps DEF Listening, Quiet
  <2>2. \A u : (Exists(u)' <=> Exists(u)) /\ StatusOf(u)' = StatusOf(u)
    <3>1. \A u : Exists(u)' <=> Exists(u)
      BY <1>0, <2>1 DEF Reading
    <3>2. \A u, s : s \in StatusOf(u)' <=> s \in StatusOf(u)
      BY <1>0, <2>1 DEF Reading
    <3>. QED  BY <3>1, <3>2
  <2>3. \A a \in told : Agreed(a)
    BY <1>1, <2>2
  <2>4. CASE told' = told
    BY <1>2, <2>3, <2>4
  <2>5. CASE Answered(t) /\ Tell(t, StatusOf(t))
    <3>1. \A s, u \in StatusOf(t) : s = u
      BY <1>0 DEF Reading
    <3>2. Exists(t) /\ t \in Turn /\ t < nextTurn
      BY <1>0, <2>5, TurnsFacts DEF LogInv
    <3>3. \A a \in told' : a \in told \/ (a.turn = t /\ a.status \in StatusOf(t) /\ a \in Tells)
      BY <2>5, <3>2 DEF Tell, StatusOf
    <3>4. \A a \in told' : Agreed(a)
      <4>1. SUFFICES ASSUME NEW a \in told', a.turn = t, a.status \in StatusOf(t)
                     PROVE  StatusOf(t) = {a.status}
        BY <2>2, <2>3, <3>3
      <4>. QED  BY <3>1, <4>1
    <3>5. \A a, b \in told' : a.turn = b.turn => a.status = b.status
      <4>1. \A a \in told' : a.turn = t => a.status \in StatusOf(t)
        BY <1>1, <3>2, <3>3
      <4>. QED  BY <1>1, <3>1, <3>3, <4>1
    <3>6. told' \subseteq Tells /\ \A a \in told' : a.turn < nextTurn'
      BY <1>1, <2>1, <3>2, <3>3
    <3>7. AgreedAnswer'
      BY <3>4, <3>5 DEF AgreedAnswer
    <3>. QED  BY <3>6, <3>7 DEF ToldInv
  <2>. QED  BY <1>3, <2>4, <2>5 DEF Listening
<1>4. ASSUME NEW t, NEW s, NEW r, NEW left, Settling(t, s, r, left) PROVE ToldInv'
  <2>1. /\ t \in Turn /\ s \in Final /\ r \in BOOLEAN
        /\ Exists(t) /\ ~Answered(t) /\ nextTurn' = nextTurn
    BY <1>4 DEF Settling, Answering
  <2>2. Said' = Said \cup {Answer(t, s, r)}
    BY <1>0, <1>4, AnsweringKeeps DEF Settling
  <2>3. /\ Answer(t, s, r).role = "assistant" /\ Answer(t, s, r).turn = t
        /\ Answer(t, s, r).status = s
    BY <2>1, AnswerFacts
  <2>4. \A u : Exists(u)' <=> Exists(u)
    BY <1>0, <2>2, <2>3 DEF Reading
  <2>5. \A u : u # t => StatusOf(u)' = StatusOf(u)
    <3>1. ASSUME NEW u, u # t, NEW v PROVE v \in StatusOf(u)' <=> v \in StatusOf(u)
      BY <1>0, <2>2, <2>3, <3>1 DEF Reading
    <3>. QED  BY <3>1
  <2>6. StatusOf(t)' = {s}
    <3>1. ASSUME NEW v PROVE v \in StatusOf(t)' <=> v = s
      BY <1>0, <2>1, <2>2, <2>3 DEF Reading
    <3>. QED  BY <3>1
  <2>7. \A a \in told : a.turn # t
    <3>1. StatusOf(t) = {}
      <4>1. ASSUME NEW v \in StatusOf(t) PROVE FALSE
        BY <1>0, <2>1, <4>1 DEF Reading
      <4>. QED  BY <4>1
    <3>. QED  BY <1>1, <2>1, <3>1
  <2>8. \A a \in told : Agreed(a)
    BY <1>1, <2>4, <2>5, <2>7
  <2>9. CASE told' = told
    BY <1>2, <2>8, <2>9
  <2>10. CASE Tell(t, {s})
    <3>1. \A a \in told' : a \in told \/ (a.turn = t /\ a.status = s /\ a \in Tells)
      BY <2>1, <2>10 DEF Tell
    <3>2. \A a \in told' : Agreed(a)
      BY <2>6, <2>8, <3>1
    <3>3. \A a, b \in told' : a.turn = b.turn => a.status = b.status
      BY <1>1, <2>7, <3>1
    <3>4. t < nextTurn
      BY <1>0, <2>1, TurnsFacts DEF LogInv
    <3>5. told' \subseteq Tells /\ \A a \in told' : a.turn < nextTurn'
      BY <1>1, <2>1, <3>1, <3>4
    <3>6. AgreedAnswer'
      BY <3>2, <3>3 DEF AgreedAnswer
    <3>. QED  BY <3>5, <3>6 DEF ToldInv
  <2>. QED  BY <1>4, <2>9, <2>10 DEF Settling
<1>5. ASSUME NEW k, NEW r, Asking(k, r), told' = told PROVE ToldInv'
  <2>1. Said' = Said \cup {Question(nextTurn, r)} /\ nextTurn \in Turn /\ r \in Request
    BY <1>0, <1>5, AskingKeeps DEF Asking
  <2>2. Question(nextTurn, r).role = "user" /\ Question(nextTurn, r).turn = nextTurn
    BY <2>1, QuestionFacts
  <2>3. \A a \in told : a.turn # nextTurn
    BY <1>0, <1>1, TurnsFacts DEF LogInv
  <2>4. ASSUME NEW u, u # nextTurn PROVE (Exists(u)' <=> Exists(u)) /\ StatusOf(u)' = StatusOf(u)
    <3>1. Exists(u)' <=> Exists(u)
      BY <1>0, <2>1, <2>2, <2>4 DEF Reading
    <3>2. ASSUME NEW v PROVE v \in StatusOf(u)' <=> v \in StatusOf(u)
      BY <1>0, <2>1, <2>2, <2>4 DEF Reading
    <3>. QED  BY <3>1, <3>2
  <2>. QED  BY <1>1, <1>2, <1>5, <2>3, <2>4
<1>6. ASSUME NEW root, Deleting(root), told' = told PROVE ToldInv'
  <2>1. /\ Said' \subseteq Said
        /\ \A m \in Said', n \in Said : m.turn = n.turn => n \in Said'
    BY <1>0, <1>6, DeletingKeeps
  <2>2. ASSUME NEW u, Exists(u)' PROVE Exists(u) /\ StatusOf(u)' = StatusOf(u)
    <3>1. Exists(u)
      BY <1>0, <2>1, <2>2 DEF Reading
    <3>2. PICK m \in Said' : m.turn = u
      BY <1>0, <2>2 DEF Reading
    <3>3. ASSUME NEW v PROVE v \in StatusOf(u)' <=> v \in StatusOf(u)
      BY <1>0, <2>1, <3>2 DEF Reading
    <3>. QED  BY <3>1, <3>3
  <2>. QED  BY <1>1, <1>2, <1>6, <2>2
<1>. QED  BY <1>3, <1>4, <1>5, <1>6 DEF Effect

(* The properties of receipts and requests, read from what is said *)
ReceiptsSaid ==
    \A m \in Said : m.role = "assistant" =>
        /\ m.receipt => m.turn \in receipts
        /\ m.turn \in receipts \ orphaned => m.status = "completed" /\ m.receipt

RequestsSaid ==
    \A m, n \in Said : m.role = "user" /\ n.role = "user" /\ m.request = n.request => m = n

LEMMA SaidMeans ==
    LogInv => /\ (ReceiptsBacked /\ ReceiptsTrue) <=> ReceiptsSaid
              /\ OneTurnPerRequest <=> RequestsSaid
<1>. SUFFICES ASSUME LogInv PROVE /\ (ReceiptsBacked /\ ReceiptsTrue) <=> ReceiptsSaid
                                  /\ OneTurnPerRequest <=> RequestsSaid
  OBVIOUS
<1>1. open \subseteq Conv /\ \A k \in Conv : \A i \in DOMAIN log[k] : k \in open
  BY EmptySeq DEF LogInv
<1>2. \A m : m \in Said <=> \E k \in open : \E i \in DOMAIN log[k] : log[k][i] = m
  BY <1>1, SaidIn
<1>3. (ReceiptsBacked /\ ReceiptsTrue) <=> ReceiptsSaid
  BY <1>2 DEF ReceiptsBacked, ReceiptsTrue, ReceiptsSaid
<1>4. \A k, l \in open : \A i \in DOMAIN log[k], j \in DOMAIN log[l] :
          log[k][i] = log[l][j] => k = l /\ i = j
  BY <1>1 DEF LogInv
<1>5. ASSUME RequestsSaid PROVE OneTurnPerRequest
  <2>1. SUFFICES ASSUME NEW k \in open, NEW l \in open,
                        NEW i \in DOMAIN log[k], NEW j \in DOMAIN log[l],
                        log[k][i].role = "user", log[l][j].role = "user",
                        log[k][i].request = log[l][j].request
                 PROVE  k = l /\ i = j
    BY DEF OneTurnPerRequest
  <2>2. log[k][i] \in Said /\ log[l][j] \in Said
    BY <1>2, <2>1
  <2>3. log[k][i] = log[l][j]
    BY <1>5, <2>1, <2>2 DEF RequestsSaid
  <2>. QED  BY <1>4, <2>1, <2>3
<1>6. ASSUME OneTurnPerRequest PROVE RequestsSaid
  <2>1. SUFFICES ASSUME NEW m \in Said, NEW n \in Said, m.role = "user", n.role = "user",
                        m.request = n.request
                 PROVE  m = n
    BY DEF RequestsSaid
  <2>2. PICK k, i : k \in open /\ i \in DOMAIN log[k] /\ log[k][i] = m
    BY <1>2, <2>1
  <2>3. PICK l, j : l \in open /\ j \in DOMAIN log[l] /\ log[l][j] = n
    BY <1>2, <2>1
  <2>4. k = l /\ i = j
    BY <1>6, <2>1, <2>2, <2>3 DEF OneTurnPerRequest
  <2>. QED  BY <2>2, <2>3, <2>4
<1>. QED  BY <1>3, <1>5, <1>6

LEMMA RequestsKept ==
    ASSUME BaseInv, Effect, RequestsSaid
    PROVE  RequestsSaid'
<1>0. LogInv /\ Reading
  BY Read DEF BaseInv
<1>1. ASSUME Said' \subseteq Said PROVE RequestsSaid'
  BY <1>1 DEF RequestsSaid
<1>2. ASSUME NEW t, NEW left, Listening(t, left) PROVE Said' = Said
  BY <1>2, QuietKeeps DEF Listening
<1>3. ASSUME NEW t, NEW s, NEW r, NEW left, Settling(t, s, r, left) PROVE RequestsSaid'
  <2>1. Said' = Said \cup {Answer(t, s, r)}
    BY <1>0, <1>3, AnsweringKeeps DEF Settling
  <2>2. Answer(t, s, r).role = "assistant"
    BY <1>3, AnswerFacts DEF Settling, Answering
  <2>. QED  BY <2>1, <2>2 DEF RequestsSaid
<1>4. ASSUME NEW k, NEW r, Asking(k, r) PROVE RequestsSaid'
  <2>1. Said' = Said \cup {Question(nextTurn, r)} /\ nextTurn \in Turn /\ r \in Request
    BY <1>0, <1>4, AskingKeeps DEF Asking
  <2>2. Question(nextTurn, r).role = "user" /\ Question(nextTurn, r).request = r
    BY <2>1, QuestionFacts
  <2>3. \A m \in Said : m.role = "user" => m.request # r
    BY <1>0, <1>4 DEF Asking, Reading
  <2>. QED  BY <2>1, <2>2, <2>3 DEF RequestsSaid
<1>5. ASSUME NEW root, Deleting(root) PROVE Said' \subseteq Said
  BY <1>0, <1>5, DeletingKeeps
<1>. QED  BY <1>1, <1>2, <1>3, <1>4, <1>5 DEF Effect

FileInv ==
    /\ receipts \subseteq 1 .. (nextTurn - 1)
    /\ expired \subseteq 1 .. (nextTurn - 1)
    /\ orphaned \subseteq receipts
    /\ \A t \in receipts \ orphaned : Exists(t) => Answered(t)
    /\ ReceiptsSaid

LEMMA FilesKept ==
    ASSUME BaseInv, LogInv', Effect, FileInv
    PROVE  FileInv'
<1>0. LogInv /\ Reading /\ Reading'
  <2>1. LogInv => Reading
    BY Read
  <2>2. LogInv' => Reading'
    BY Read, PTL
  <2>. QED  BY <2>1, <2>2 DEF BaseInv
<1>1. 1 .. (nextTurn - 1) \subseteq 1 .. (nextTurn' - 1)
  BY TurnsGrow
<1>2. expired' \subseteq 1 .. (nextTurn' - 1)
  <2>1. \A t \in expired' : t \in expired \/ Exists(t)
    BY DEF Effect
  <2>. QED  BY <1>0, <1>1, <2>1, TurnsFacts DEF FileInv
<1>3. ASSUME NEW t, NEW left, Listening(t, left) PROVE FileInv'
  <2>1. Said' = Said /\ left \subseteq 1 .. (nextTurn - 1) /\ Leaves(left)
    BY <1>3, QuietKeeps DEF Listening
  <2>2. receipts' \ orphaned' \subseteq receipts \ orphaned
    BY <2>1 DEF Leaves
  <2>3. receipts' \subseteq 1 .. (nextTurn' - 1) /\ orphaned' \subseteq receipts'
    BY <1>1, <2>1 DEF Leaves, FileInv
  <2>4. \A u : (Exists(u)' <=> Exists(u)) /\ (Answered(u)' <=> Answered(u))
    BY <1>0, <2>1 DEF Reading
  <2>5. ReceiptsSaid'
    BY <2>1, <2>2 DEF ReceiptsSaid, FileInv, Leaves
  <2>. QED  BY <1>2, <2>2, <2>3, <2>4, <2>5 DEF FileInv
<1>4. ASSUME NEW t, NEW s, NEW r, NEW left, Settling(t, s, r, left) PROVE FileInv'
  <2>1. /\ t \in Turn /\ s \in Final /\ r \in BOOLEAN /\ Exists(t) /\ ~Answered(t)
        /\ left \subseteq {t} /\ t \in 1 .. (nextTurn - 1)
    BY <1>0, <1>4, TurnsFacts DEF Settling, Answering
  <2>. DEFINE m == Answer(t, s, r)
  <2>2. Said' = Said \cup {m}
    BY <1>0, <1>4, AnsweringKeeps DEF Settling
  <2>3. m.role = "assistant" /\ m.turn = t /\ m.status = s /\ m.receipt = r
    BY <2>1, AnswerFacts
  <2>. HIDE DEF m
  <2>4. \/ r = FALSE /\ Leaves(left)
        \/ r = TRUE /\ s = "completed" /\ receipts' = receipts \cup {t} /\ orphaned' = orphaned
    BY <1>4 DEF Settling
  <2>5. t \notin receipts \ orphaned
    BY <2>1 DEF FileInv
  <2>6. receipts' \subseteq 1 .. (nextTurn' - 1) /\ orphaned' \subseteq receipts'
    BY <1>1, <2>1, <2>4 DEF Leaves, FileInv
  <2>7. \A u : (Exists(u)' <=> Exists(u)) /\ (Answered(u)' <=> Answered(u) \/ u = t)
    BY <1>0, <2>2, <2>3 DEF Reading
  <2>8. \A u \in receipts' \ orphaned' : u \in receipts \ orphaned \/ u = t
    BY <2>1, <2>4 DEF Leaves
  <2>9. ReceiptsSaid'
    <3>1. receipts \subseteq receipts'
      BY <2>4 DEF Leaves
    <3>2. \A n \in Said : n.role = "assistant" => n.turn # t
      BY <1>0, <2>1 DEF Reading
    <3>3. ASSUME NEW n \in Said, n.role = "assistant"
          PROVE  /\ n.receipt => n.turn \in receipts'
                 /\ n.turn \in receipts' \ orphaned' => n.status = "completed" /\ n.receipt
      BY <2>8, <3>1, <3>2, <3>3 DEF ReceiptsSaid, FileInv
    <3>4. /\ m.receipt => m.turn \in receipts'
          /\ m.turn \in receipts' \ orphaned' => m.status = "completed" /\ m.receipt
      <4>1. CASE r = FALSE /\ Leaves(left)
        <5>1. t \notin receipts' \ orphaned'
          BY <2>5, <4>1, <2>1 DEF Leaves
        <5>. QED  BY <2>3, <4>1, <5>1
      <4>2. CASE r = TRUE /\ s = "completed" /\ receipts' = receipts \cup {t}
        BY <2>3, <4>2
      <4>. QED  BY <2>4, <4>1, <4>2
    <3>. QED  BY <2>2, <3>3, <3>4 DEF ReceiptsSaid
  <2>. QED  BY <1>2, <2>6, <2>7, <2>8, <2>9 DEF FileInv
<1>5. ASSUME NEW k, NEW r, Asking(k, r), UNCHANGED <<receipts, orphaned>> PROVE FileInv'
  <2>1. Said' = Said \cup {Question(nextTurn, r)} /\ nextTurn \in Turn /\ r \in Request
    BY <1>0, <1>5, AskingKeeps DEF Asking
  <2>2. Question(nextTurn, r).role = "user" /\ Question(nextTurn, r).turn = nextTurn
    BY <2>1, QuestionFacts
  <2>3. \A u \in receipts : u # nextTurn
    BY DEF FileInv, BaseInv, LogInv
  <2>4. \A u : u # nextTurn => (Exists(u)' <=> Exists(u)) /\ (Answered(u)' <=> Answered(u))
    BY <1>0, <2>1, <2>2 DEF Reading
  <2>5. ReceiptsSaid'
    BY <1>5, <2>1, <2>2 DEF ReceiptsSaid, FileInv
  <2>. QED  BY <1>1, <1>2, <1>5, <2>3, <2>4, <2>5 DEF FileInv
<1>6. ASSUME NEW root, Deleting(root), UNCHANGED <<receipts, orphaned>> PROVE FileInv'
  <2>1. /\ Said' \subseteq Said
        /\ \A m \in Said', n \in Said : m.turn = n.turn => n \in Said'
    BY <1>0, <1>6, DeletingKeeps
  <2>2. \A u : Exists(u)' => Exists(u)
    BY <1>0, <2>1 DEF Reading
  <2>3. \A u : Exists(u)' /\ Answered(u) => Answered(u)'
    BY <1>0, <2>1 DEF Reading
  <2>4. ReceiptsSaid'
    BY <1>6, <2>1 DEF ReceiptsSaid, FileInv
  <2>. QED  BY <1>1, <1>2, <1>6, <2>2, <2>3, <2>4 DEF FileInv
<1>. QED  BY <1>3, <1>4, <1>5, <1>6 DEF Effect

-----------------------------------------------------------------------------
(* The invariant *)

IInv == BaseInv /\ BranchInv /\ ToldInv /\ FileInv /\ RequestsSaid

LEMMA InitHolds == Init => IInv
<1>. SUFFICES ASSUME Init PROVE IInv
  OBVIOUS
<1>1. /\ open = {} /\ \A k \in Conv : log[k] = <<>> /\ DOMAIN log[k] = {}
      /\ log \in [Conv -> Seq(Message)]
  BY EmptySeq DEF Init
<1>2. LogInv
  BY <1>1, MaxTurnsAssumption DEF Init, LogInv, Alternating
<1>3. OriginInv
  BY DEF Init, OriginInv
<1>4. CallInv
  BY DEF Init, CallInv, Idle
<1>5. BranchInv
  BY DEF Init, BranchInv, BranchHistoryFixed
<1>6. ToldInv
  BY DEF Init, ToldInv, AgreedAnswer
<1>7. Said = {}
  BY <1>1 DEF Said
<1>8. FileInv /\ RequestsSaid
  BY <1>7 DEF Init, FileInv, ReceiptsSaid, RequestsSaid
<1>. QED  BY <1>2, <1>3, <1>4, <1>5, <1>6, <1>8 DEF IInv, BaseInv

LEMMA StepHolds == IInv /\ [Next]_vars => IInv'
<1>. SUFFICES ASSUME IInv, [Next]_vars PROVE IInv'
  OBVIOUS
<1>1. BaseInv' /\ BranchInv' /\ Effect
  BY BaseKept DEF IInv
<1>2. ToldInv' /\ FileInv' /\ RequestsSaid'
  BY <1>1, ToldKept, FilesKept, RequestsKept DEF IInv, BaseInv
<1>. QED  BY <1>1, <1>2 DEF IInv

LEMMA InvariantHolds == Spec => []IInv
  BY InitHolds, StepHolds, PTL DEF Spec

-----------------------------------------------------------------------------
(* Every variable of a chat has its type: whatever is answered, deleted and *)
(* branched, a handler under way knows an admitted turn.                    *)
THEOREM ChatTyped == Spec => []TypeOK
<1>1. IInv => TypeOK
  <2>. SUFFICES ASSUME IInv PROVE TypeOK
    OBVIOUS
  <2>1. /\ open \subseteq Conv /\ nextTurn \in 1 .. MaxTurns + 1
        /\ \A k \in Conv : \A i \in DOMAIN log[k] : log[k][i] \in Message
    BY LogFacts DEF IInv, BaseInv, LogInv
  <2>2. origin \in [Branch -> [root : Request, cutoff : 0 .. 2 * MaxTurns] \cup {None}]
    <3>1. ASSUME NEW b \in Branch
          PROVE  origin[b] \in [root : Request, cutoff : 0 .. 2 * MaxTurns] \cup {None}
      <4>1. CASE origin[b] = None
        BY <4>1
      <4>2. CASE origin[b] # None
        <5>1. origin[b] \in Origin /\ origin[b].cutoff <= 2 * MaxTurns
          BY <4>2 DEF IInv, BaseInv, OriginInv
        <5>2. origin[b].cutoff \in 0 .. 2 * MaxTurns
          BY <5>1, MaxTurnsAssumption DEF Origin
        <5>. QED  BY <5>1, <5>2 DEF Origin
      <4>. QED  BY <4>1, <4>2
    <3>2. origin \in [Branch -> Origin \cup {None}]
      BY DEF IInv, BaseInv, OriginInv
    <3>. QED  BY <3>1, <3>2
  <2>3. /\ receipts \subseteq Turn /\ expired \subseteq Turn /\ orphaned \subseteq receipts
        /\ \A t \in expired \cup receipts : t < nextTurn
    <3>1. 1 .. (nextTurn - 1) \subseteq Turn /\ \A t \in 1 .. (nextTurn - 1) : t < nextTurn
      BY <2>1, MaxTurnsAssumption DEF Turn
    <3>. QED  BY <3>1 DEF IInv, FileInv
  <2>4. call \in [Call -> [pc : {"idle", "preparing", "generating"},
                          request : Request \cup {None}, conv : Conv \cup {None},
                          turn : Turn \cup {None}]]
    BY DEF IInv, BaseInv, CallInv
  <2>5. told \subseteq [turn : Turn, status : Final]
    BY DEF IInv, ToldInv
  <2>. QED  BY <2>1, <2>2, <2>3, <2>4, <2>5 DEF TypeOK
<1>. QED  BY <1>1, InvariantHolds, PTL

(* A conversation is a dialogue: questions and answers alternate, each      *)
(* answer to the question before it, however leases, failures, deletions    *)
(* and other calls come between.                                            *)
THEOREM ConversationsAlternate == Spec => []Alternating
<1>1. IInv => Alternating
  BY DEF IInv, BaseInv, LogInv
<1>. QED  BY <1>1, InvariantHolds, PTL

(* No request is asked twice, however often and over whatever transport it  *)
(* is sent.                                                                 *)
THEOREM RequestsAskedOnce == Spec => []OneTurnPerRequest
<1>1. IInv => OneTurnPerRequest
  BY SaidMeans DEF IInv, BaseInv
<1>. QED  BY <1>1, InvariantHolds, PTL

(* All who are told how a turn ended are told the same, and that is stored. *)
THEOREM AnswersAgreed == Spec => []AgreedAnswer
<1>1. IInv => AgreedAnswer
  BY DEF IInv, ToldInv
<1>. QED  BY <1>1, InvariantHolds, PTL

(* An answer that names a receipt has the file.                             *)
THEOREM ReceiptsHaveFiles == Spec => []ReceiptsBacked
<1>1. IInv => ReceiptsBacked
  BY SaidMeans DEF IInv, BaseInv, FileInv
<1>. QED  BY <1>1, InvariantHolds, PTL

(* A receipt stands for a completed answer, unless a crash or a commit that *)
(* nobody could read back left it.                                          *)
THEOREM ReceiptsAreEvidence == Spec => []ReceiptsTrue
<1>1. IInv => ReceiptsTrue
  BY SaidMeans DEF IInv, BaseInv, FileInv
<1>. QED  BY <1>1, InvariantHolds, PTL

(* What a branch takes from its root stays as it was when it was made.      *)
THEOREM BranchesKeepTheirPrefix == Spec => []BranchHistoryFixed
<1>1. IInv => BranchHistoryFixed
  BY DEF IInv, BranchInv
<1>. QED  BY <1>1, InvariantHolds, PTL
==============================================================================

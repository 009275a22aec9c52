-------------------------- MODULE OrchestratorProofs --------------------------
(***************************************************************************)
(* Proofs about Orchestrator, for any registry, roles, memory, iteration   *)
(* limit and number of blocks: the type invariant, that every call sends a *)
(* turn the API accepts, that the offer and the gate agree, and that a     *)
(* SUCCESS read the results of all its tools.                              *)
(***************************************************************************)
EXTENDS Orchestrator, SequenceTheorems, TLAPS

Ids == Nat \X Nat
Answers == {"unknown_tool", "forbidden_for_role", "invalid_input", "ok",
            "tool_execution_failed"}
Result == [id : Ids, error : BOOLEAN]

-----------------------------------------------------------------------------
(* The invariant.                                                          *)

Listed == invoked \in Seq([id : Ids, tool : Tools \cup {Unknown}, verdict : Answers])

\* A round is still allowed when the model is called.
RoundsLeft ==
    /\ pc = "call" => iteration < MaxIterations
    /\ pc = "dispatch" => iteration >= 1 /\ stop = "tool_use"

\* The list ends with a message of the user when the model is called, and with
\* the tool uses being served during a round; the memory is what it starts with.
Sendable ==
    pc = "call" =>
        /\ WellFormed(messages, Len(history))
        /\ Len(messages) > Len(history) /\ (Len(messages) - Len(history)) % 2 = 1
        /\ messages[Len(messages)].kind # "uses"

Serving ==
    pc = "dispatch" =>
        /\ WellFormed(messages, Len(history))
        /\ Len(messages) > Len(history) /\ (Len(messages) - Len(history)) % 2 = 0
        /\ messages[Len(messages)].kind = "uses"
        /\ uses # <<>>

\* The blocks of that message, in order, are those answered and those to come.
Aligned(ids, done, rest) ==
    /\ Len(done) + Len(rest) = Len(ids)
    /\ \A i \in 1..Len(done) : done[i].id = ids[i]
    /\ \A i \in 1..Len(rest) : rest[i].id = ids[Len(done) + i]

InStep == pc = "dispatch" => Aligned(messages[Len(messages)].ids, results, uses)

\* Every tool was answered as the dispatcher answers.
Dispatched ==
    \A i \in DOMAIN invoked : invoked[i].verdict \in Verdicts(invoked[i].tool)

\* The result of every tool is in the list, or about to be.
Recorded ==
    pc \in {"call", "dispatch"} =>
        \A i \in DOMAIN invoked :
            \/ invoked[i].id \in ResultIds(messages)
            \/ pc = "dispatch" /\ \E j \in DOMAIN results : results[j].id = invoked[i].id

IInv ==
    /\ TypeOK /\ Listed
    /\ RoundsLeft
    /\ Sendable
    /\ Serving
    /\ InStep
    /\ Dispatched
    /\ Recorded
    /\ SuccessSawAllResults

-----------------------------------------------------------------------------
(* Lists of messages.                                                      *)

\* What WellFormed asks of each message.
Fits(msgs, n, i) ==
    /\ i <= n => msgs[i] \in Stored
    /\ i > n => /\ msgs[i].role = IF (i - n) % 2 = 1 THEN "user" ELSE "assistant"
                /\ i = n + 1 <=> msgs[i].kind \notin {"uses", "results"}
    /\ msgs[i].kind = "results" => i > 1 /\ msgs[i - 1].kind = "uses" /\ msgs[i - 1].ids = msgs[i].ids
    /\ msgs[i].kind = "uses" /\ i < Len(msgs) => msgs[i + 1].kind = "results"

LEMMA WellFormedFits ==
    \A msgs, n : WellFormed(msgs, n) <=> \A i \in DOMAIN msgs : Fits(msgs, n, i)
  BY DEF WellFormed, Fits

\* The message that comes next.
Follows(msgs, n, m) ==
    /\ n <= Len(msgs)
    /\ m.role = IF (Len(msgs) - n) % 2 = 0 THEN "user" ELSE "assistant"
    /\ Len(msgs) = n <=> m.kind \notin {"uses", "results"}
    /\ m.kind = "results" => /\ Len(msgs) > 0
                             /\ msgs[Len(msgs)].kind = "uses"
                             /\ msgs[Len(msgs)].ids = m.ids
    /\ Len(msgs) > 0 /\ msgs[Len(msgs)].kind = "uses" => m.kind = "results"

\* A well-formed list may be extended by it.
LEMMA AppendWellFormed ==
    ASSUME NEW msgs \in Seq(Message), NEW n \in Nat, WellFormed(msgs, n), NEW m \in Message,
           Follows(msgs, n, m)
    PROVE  WellFormed(Append(msgs, m), n)
<1> DEFINE app == Append(msgs, m)
<1>1. /\ app \in Seq(Message) /\ Len(app) = Len(msgs) + 1 /\ DOMAIN app = 1..Len(msgs) + 1
      /\ \A i \in 1..Len(msgs) : app[i] = msgs[i]
      /\ app[Len(msgs) + 1] = m
      /\ Len(msgs) \in Nat /\ DOMAIN msgs = 1..Len(msgs)
  BY AppendProperties, LenProperties
<1> HIDE DEF app
<1>a. /\ n <= Len(msgs)
      /\ Len(msgs) = n <=> m.kind \notin {"uses", "results"}
  BY DEF Follows
<1>b. /\ m.kind = "results" => /\ Len(msgs) > 0
                               /\ msgs[Len(msgs)].kind = "uses"
                               /\ msgs[Len(msgs)].ids = m.ids
      /\ Len(msgs) > 0 /\ msgs[Len(msgs)].kind = "uses" => m.kind = "results"
  BY DEF Follows
<1>2. ASSUME NEW i \in 1..Len(msgs) PROVE Fits(app, n, i)
  <2>1. Fits(msgs, n, i)
    BY <1>1, WellFormedFits
  <2>2. app[i] = msgs[i] /\ (i > 1 => app[i - 1] = msgs[i - 1])
    BY <1>1
  <2>3. CASE i < Len(msgs)
    <3>1. app[i + 1] = msgs[i + 1]
      BY <1>1, <2>3
    <3>2. QED
      BY <1>1, <2>1, <2>2, <2>3, <3>1 DEF Fits
  <2>4. CASE i = Len(msgs)
    <3>1. app[i].kind = "uses" => app[i + 1].kind = "results"
      BY <1>1, <1>b, <2>2, <2>4
    <3>2. QED
      BY <1>1, <2>1, <2>2, <2>4, <3>1 DEF Fits
  <2>5. i < Len(msgs) \/ i = Len(msgs)
    BY LenProperties
  <2>6. QED
    BY <2>3, <2>4, <2>5
<1>3. Fits(app, n, Len(msgs) + 1)
  <2> DEFINE i == Len(msgs) + 1
  <2>1. app[i] = m /\ (Len(msgs) > 0 => app[i - 1] = msgs[Len(msgs)])
    BY <1>1
  <2>l. PICK x \in Nat : x = Len(msgs) /\ n <= x /\ i = x + 1 /\ Len(app) = x + 1
    BY <1>1, <1>a
  <2>2. (i - n) % 2 = 1 <=> (Len(msgs) - n) % 2 = 0
    <3>1. ((x + 1) - n) % 2 = 1 <=> (x - n) % 2 = 0
      BY <2>l
    <3>2. QED
      BY <2>l, <3>1
  <2>3. i > n /\ (i = n + 1 <=> Len(msgs) = n)
    <3>1. x + 1 > n /\ (x + 1 = n + 1 <=> x = n)
      BY <2>l
    <3>2. QED
      BY <2>l, <3>1
  <2>4. app[i].role = IF (i - n) % 2 = 1 THEN "user" ELSE "assistant"
    BY <2>1, <2>2 DEF Follows
  <2>5. i = n + 1 <=> app[i].kind \notin {"uses", "results"}
    BY <1>a, <2>1, <2>3
  <2>6. app[i].kind = "results" => i > 1 /\ app[i - 1].kind = "uses" /\ app[i - 1].ids = app[i].ids
    BY <1>1, <1>b, <2>1
  <2>7. ~(i <= n) /\ ~(i < Len(app))
    <3>1. ~(x + 1 <= n) /\ ~(x + 1 < x + 1)
      BY <2>l
    <3>2. QED
      BY <2>l, <3>1
  <2>8. QED
    BY <2>3, <2>4, <2>5, <2>6, <2>7 DEF Fits
<1>4. WellFormed(app, n)
  <2>1. \A i \in DOMAIN app : i \in 1..Len(msgs) \/ i = Len(msgs) + 1
    BY <1>1
  <2>2. QED
    BY <1>2, <1>3, <2>1, WellFormedFits
<1>5. QED
  BY <1>4 DEF app

\* Results stay in a list that grows, and those of a new message are in it.
LEMMA ResultsStay ==
    ASSUME NEW msgs \in Seq(Message), NEW m \in Message
    PROVE  /\ ResultIds(msgs) \subseteq ResultIds(Append(msgs, m))
           /\ m.kind = "results" => ToSet(m.ids) \subseteq ResultIds(Append(msgs, m))
<1> DEFINE app == Append(msgs, m)
<1>1. /\ DOMAIN app = 1..Len(msgs) + 1 /\ \A i \in 1..Len(msgs) : app[i] = msgs[i]
      /\ app[Len(msgs) + 1] = m
      /\ Len(msgs) \in Nat /\ DOMAIN msgs = 1..Len(msgs)
  BY AppendProperties, LenProperties
<1> HIDE DEF app
<1>2. ASSUME NEW id \in ResultIds(msgs) PROVE id \in ResultIds(app)
  <2>1. PICK i \in DOMAIN msgs : msgs[i].kind = "results" /\ id \in ToSet(msgs[i].ids)
    BY DEF ResultIds
  <2>2. i \in DOMAIN app /\ app[i] = msgs[i]
    BY <1>1
  <2>3. QED
    BY <2>1, <2>2 DEF ResultIds
<1>3. ASSUME m.kind = "results", NEW id \in ToSet(m.ids) PROVE id \in ResultIds(app)
  <2>1. Len(msgs) + 1 \in DOMAIN app /\ app[Len(msgs) + 1] = m
    BY <1>1
  <2>2. QED
    BY <1>3, <2>1 DEF ResultIds
<1>4. QED
  BY <1>2, <1>3 DEF app

LEMMA TextIsMessage ==
    /\ Stored \subseteq Message
    /\ \A m \in Stored : m.kind \in {"text", "empty"}
    /\ Text("user", "text") \in Message
    /\ Text("user", "text").role = "user" /\ Text("user", "text").kind = "text"
<1>1. <<>> \in Seq(Nat \X Nat)
  OBVIOUS
<1>2. QED
  BY <1>1 DEF Text, Message, Stored

\* A memory is a list of stored texts, which any turn may follow.
LEMMA MemoryWellFormed ==
    ASSUME NEW rows \in Memory
    PROVE  /\ rows \in Seq(Stored) /\ rows \in Seq(Message) /\ Len(rows) <= 2 * Turns
           /\ WellFormed(rows, Len(rows))
           /\ \A i \in DOMAIN rows : rows[i].kind \in {"text", "empty"}
<1>1. PICK n \in 0..2 * Turns : rows \in [1..n -> Stored]
  BY DEF Memory
<1>2. n \in Nat /\ n <= 2 * Turns
  BY LoopAssumption
<1>3. rows \in Seq(Stored) /\ Len(rows) = n /\ DOMAIN rows = 1..n
  BY <1>1, <1>2
<1>4. \A i \in DOMAIN rows : rows[i] \in Stored /\ rows[i].kind \in {"text", "empty"}
  BY <1>1, TextIsMessage
<1>5. rows \in Seq(Message)
  BY <1>1, <1>2, TextIsMessage
<1>6. WellFormed(rows, Len(rows))
  BY <1>2, <1>3, <1>4 DEF WellFormed
<1>7. QED
  BY <1>2, <1>3, <1>4, <1>5, <1>6

-----------------------------------------------------------------------------
(* Rounds of tools.                                                        *)

LEMMA FunctionIsSeq ==
    ASSUME NEW S, NEW n \in Nat, NEW f \in [1..n -> S]
    PROVE  f \in Seq(S) /\ Len(f) = n
  OBVIOUS

\* The ids of a list of blocks or of answers.
LEMMA IdsOf ==
    ASSUME NEW S, \A x \in S : x.id \in Ids, NEW list \in Seq(S)
    PROVE  LET ids == [i \in DOMAIN list |-> list[i].id]
           IN  /\ ids \in Seq(Ids) /\ Len(ids) = Len(list)
               /\ \A i \in 1..Len(list) : ids[i] = list[i].id
<1> DEFINE ids == [i \in DOMAIN list |-> list[i].id]
<1>1. Len(list) \in Nat /\ DOMAIN list = 1..Len(list) /\ \A i \in 1..Len(list) : list[i] \in S
  BY LenProperties, ElementOfSeq
<1>2. ids \in [1..Len(list) -> Ids] /\ \A i \in 1..Len(list) : ids[i] = list[i].id
  BY <1>1
<1> HIDE DEF ids
<1>3. ids \in Seq(Ids) /\ Len(ids) = Len(list)
  BY <1>1, <1>2, FunctionIsSeq
<1>4. QED
  BY <1>2, <1>3 DEF ids

LEMMA AlignedStart ==
    ASSUME NEW ids \in Seq(Ids), NEW rest \in Seq(Block), Len(ids) = Len(rest),
           \A i \in 1..Len(rest) : ids[i] = rest[i].id
    PROVE  Aligned(ids, <<>>, rest)
<1>1. Len(rest) \in Nat /\ Len(<<>>) = 0
  BY LenProperties
<1>2. \A i \in 1..Len(rest) : 0 + i = i
  BY <1>1
<1>3. QED
  BY <1>1, <1>2 DEF Aligned

LEMMA AlignedStep ==
    ASSUME NEW ids \in Seq(Ids), NEW done \in Seq(Result), NEW rest \in Seq(Block), rest # <<>>,
           Aligned(ids, done, rest), NEW answer \in Result, answer.id = Head(rest).id
    PROVE  Aligned(ids, Append(done, answer), Tail(rest))
<1> DEFINE more == Append(done, answer)
           left == Tail(rest)
<1>1. Len(done) \in Nat /\ Len(rest) \in Nat /\ Len(rest) >= 1
  BY LenProperties, EmptySeq
<1>2. /\ Len(more) = Len(done) + 1 /\ more[Len(done) + 1] = answer
      /\ \A i \in 1..Len(done) : more[i] = done[i]
  BY AppendProperties
<1>3. /\ Len(left) = Len(rest) - 1 /\ Head(rest) = rest[1]
      /\ \A i \in 1..Len(left) : left[i] = rest[i + 1]
  BY HeadTailProperties
<1> HIDE DEF more, left
<1>4. Len(more) + Len(left) = Len(ids)
  <2>1. Len(done) + Len(rest) = Len(ids)
    BY DEF Aligned
  <2>2. Len(more) = Len(done) + 1 /\ Len(left) = Len(rest) - 1
    BY <1>2, <1>3
  <2>3. \A a, b \in Nat : (a + 1) + (b - 1) = a + b
    OBVIOUS
  <2>4. QED
    BY <1>1, <2>1, <2>2, <2>3
<1>5. rest[1].id = ids[Len(done) + 1]
  BY <1>1 DEF Aligned
<1>6. ASSUME NEW i \in 1..Len(more) PROVE more[i].id = ids[i]
  <2>1. i \in 1..Len(done) \/ i = Len(done) + 1
    BY <1>1, <1>2, <1>6
  <2>2. QED
    BY <1>2, <1>3, <1>5, <2>1 DEF Aligned
<1>7. ASSUME NEW i \in 1..Len(left) PROVE left[i].id = ids[Len(more) + i]
  <2>1. i + 1 \in 1..Len(rest) /\ Len(done) + (i + 1) = Len(more) + i
    BY <1>1, <1>2, <1>3, <1>7
  <2>2. rest[i + 1].id = ids[Len(done) + (i + 1)]
    BY <2>1 DEF Aligned
  <2>3. QED
    BY <1>3, <1>7, <2>1, <2>2
<1>8. Aligned(ids, more, left)
  BY <1>4, <1>6, <1>7 DEF Aligned
<1>9. QED
  BY <1>8 DEF more, left

LEMMA AlignedEnd ==
    ASSUME NEW ids \in Seq(Ids), NEW done \in Seq(Result), Aligned(ids, done, <<>>)
    PROVE  [i \in DOMAIN done |-> done[i].id] = ids
<1> DEFINE all == [i \in DOMAIN done |-> done[i].id]
<1>1. \A x \in Result : x.id \in Ids
  BY DEF Result
<1>2. all \in Seq(Ids) /\ Len(all) = Len(done) /\ \A i \in 1..Len(done) : all[i] = done[i].id
  BY <1>1, IdsOf
<1>3. Len(done) \in Nat /\ Len(<<>>) = 0
  BY LenProperties
<1> HIDE DEF all
<1>4. Len(ids) = Len(all) /\ \A i \in 1..Len(all) : all[i] = ids[i]
  BY <1>2, <1>3 DEF Aligned
<1>5. all = ids
  BY <1>2, <1>4, SeqEqual
<1>6. QED
  BY <1>5 DEF all

-----------------------------------------------------------------------------
(* Steps.                                                                  *)

LEMMA Limits == MaxIterations \in Nat /\ MaxIterations >= 1
  BY LoopAssumption

LEMMA InvInit == Init => IInv
<1>1. SUFFICES ASSUME Init PROVE IInv
  OBVIOUS
<1>2. /\ <<>> \in Seq(Message) /\ <<>> \in Seq(Block)
      /\ <<>> \in Seq([id : Ids, error : BOOLEAN]) /\ Len(<<>>) = 0 /\ DOMAIN <<>> = {}
      /\ <<>> \in Seq([id : Ids, tool : Tools \cup {Unknown}, verdict : Answers])
  OBVIOUS
<1>3. TypeOK /\ Listed
  <2>1. pc = "idle" /\ role \in Roles /\ stop = "" /\ status = "NONE"
    BY <1>1 DEF Init
  <2>2. iteration \in 0..MaxIterations
    <3>1. iteration = 0
      BY <1>1 DEF Init
    <3>2. QED
      BY <3>1, Limits
  <2>3. messages = <<>> /\ sent = <<>> /\ uses = <<>> /\ results = <<>>
    BY <1>1 DEF Init
  <2>h. history \in Seq(Stored) /\ Len(history) <= 2 * Turns
    <3>1. history = <<>>
      BY <1>1 DEF Init
    <3>2. QED
      BY <3>1, LoopAssumption
  <2>4. invoked = <<>>
    BY <1>1 DEF Init
  <2>5. \A i \in DOMAIN invoked : invoked[i].tool \in Tools \cup {Unknown}
    BY <2>4
  <2>6. QED
    BY <1>2, <2>1, <2>2, <2>3, <2>h, <2>4, <2>5 DEF TypeOK, Listed, Ids
<1>4. RoundsLeft /\ Sendable /\ Serving /\ InStep /\ Recorded
  BY <1>1 DEF Init, RoundsLeft, Sendable, Serving, InStep, Recorded
<1>5. Dispatched /\ SuccessSawAllResults
  <2>1. invoked = <<>>
    BY <1>1 DEF Init
  <2>2. QED
    BY <2>1 DEF Dispatched, SuccessSawAllResults
<1>6. QED
  BY <1>3, <1>4, <1>5 DEF IInv

\* A turn starts from a memory and the question.
LEMMA StartTurnInv ==
    ASSUME IInv, NEW who \in Roles, NEW rows \in Memory, StartTurn(who, rows)
    PROVE  IInv'
<1>1. /\ role' = who /\ history' = rows /\ iteration' = 0
      /\ stop' = "" /\ status' = "NONE" /\ pc' = "call"
      /\ UNCHANGED <<sent, uses, results>>
  BY DEF StartTurn
<1>m. messages' = Append(rows, Text("user", "text"))
  BY DEF StartTurn
<1>i. invoked' = <<>>
  BY DEF StartTurn
<1>t. TypeOK
  BY DEF IInv
<1>3. /\ rows \in Seq(Stored) /\ rows \in Seq(Message) /\ Len(rows) <= 2 * Turns
      /\ WellFormed(rows, Len(rows))
      /\ \A i \in DOMAIN rows : rows[i].kind \in {"text", "empty"}
  BY MemoryWellFormed
<1>4. PICK m \in Message : m = Text("user", "text") /\ m.role = "user" /\ m.kind = "text"
  BY TextIsMessage
<1>6. Len(rows) \in Nat /\ (Len(rows) > 0 => Len(rows) \in DOMAIN rows)
  BY <1>3, LenProperties
<1>7. Len(rows) > 0 => rows[Len(rows)].kind # "uses"
  BY <1>3, <1>6
<1>8. WellFormed(Append(rows, m), Len(rows))
  <2>1. (Len(rows) - Len(rows)) % 2 = 0 /\ Len(rows) <= Len(rows)
    BY <1>6
  <2>2. Follows(rows, Len(rows), m)
    BY <1>4, <1>7, <2>1 DEF Follows
  <2>3. QED
    BY <1>3, <1>6, <2>2, AppendWellFormed
<1>9. /\ messages' \in Seq(Message) /\ Len(messages') = Len(rows) + 1
      /\ messages'[Len(messages')] = m
  BY <1>m, <1>3, <1>4, AppendProperties
<1>10. TypeOK'
  <2>1. iteration' \in 0..MaxIterations
    <3>1. iteration' = 0
      BY <1>1
    <3>2. QED
      BY <3>1, Limits
  <2>2. \A i \in DOMAIN invoked' : invoked'[i].tool \in Tools \cup {Unknown}
    BY <1>i
  <2>3. QED
    BY <1>1, <1>3, <1>9, <1>t, <2>1, <2>2 DEF TypeOK
<1>11. Listed' /\ Dispatched' /\ Recorded'
  BY <1>i DEF Listed, Dispatched, Recorded
<1>12. RoundsLeft' /\ Serving' /\ InStep' /\ SuccessSawAllResults'
  <2>1. pc' = "call" /\ iteration' = 0
    BY <1>1
  <2>2. RoundsLeft'
    BY <2>1, Limits DEF RoundsLeft
  <2>3. QED
    BY <2>1, <2>2 DEF Serving, InStep, SuccessSawAllResults
<1>13. Sendable'
  <2>1. Len(messages') > Len(history') /\ (Len(messages') - Len(history')) % 2 = 1
    <3>1. Len(messages') = Len(rows) + 1 /\ history' = rows /\ Len(rows) \in Nat
      BY <1>1, <1>6, <1>9
    <3>2. \A x \in Nat : x + 1 > x /\ ((x + 1) - x) % 2 = 1
      OBVIOUS
    <3>3. QED
      BY <3>1, <3>2
  <2>2. WellFormed(messages, Len(history))'
    <3>1. PICK msgs \in Seq(Message) : msgs = messages' /\ WellFormed(msgs, Len(rows))
      BY <1>m, <1>4, <1>8, <1>9
    <3>2. QED
      BY <1>1, <3>1 DEF WellFormed
  <2>3. messages'[Len(messages')].kind # "uses"
    BY <1>4, <1>9
  <2>4. QED
    BY <2>1, <2>2, <2>3 DEF Sendable
<1>14. QED
  BY <1>10, <1>11, <1>12, <1>13 DEF IInv

\* The model ends its turn.
LEMMA ModelStopsInv ==
    ASSUME IInv, NEW reason \in {"end_turn", "max_tokens"}, ModelStops(reason)
    PROVE  IInv'
<1>1. /\ pc = "call" /\ iteration' = iteration + 1 /\ sent' = messages /\ stop' = reason
      /\ status' = StatusOfStop(reason) /\ pc' = "idle"
      /\ UNCHANGED <<role, history, messages, uses, results, invoked>>
  BY DEF ModelStops, Return
<1>t. TypeOK /\ RoundsLeft /\ Listed
  BY DEF IInv
<1>3. iteration' \in 0..MaxIterations
  <2>1. iteration \in 0..MaxIterations /\ iteration < MaxIterations
    BY <1>1, <1>t DEF TypeOK, RoundsLeft
  <2>2. QED
    BY <1>1, <2>1, Limits
<1>4. status' \in {"NONE", "SUCCESS", "PARTIAL", "ERROR"}
  BY <1>1 DEF StatusOfStop
<1>5. TypeOK'
  BY <1>1, <1>3, <1>4, <1>t DEF TypeOK
<1>6. RoundsLeft' /\ Sendable' /\ Serving' /\ InStep' /\ Recorded'
  BY <1>1 DEF RoundsLeft, Sendable, Serving, InStep, Recorded
<1>7. Listed' /\ Dispatched'
  BY <1>1, <1>t DEF Listed, Dispatched, IInv, Verdicts, Allowed
<1>8. SuccessSawAllResults'
  BY <1>1 DEF IInv, Recorded, SuccessSawAllResults
<1>9. QED
  BY <1>5, <1>6, <1>7, <1>8 DEF IInv

\* The model asks for tools.
LEMMA ModelCallsToolsInv ==
    ASSUME IInv, NEW n \in 1..MaxBlocks, NEW names \in [1..n -> Tools \cup {Unknown}],
           ModelCallsTools(names)
    PROVE  IInv'
<1>1. /\ pc = "call" /\ iteration' = iteration + 1 /\ stop' = "tool_use" /\ pc' = "dispatch"
      /\ sent' = messages
      /\ UNCHANGED <<role, history, invoked, status>>
  BY DEF ModelCallsTools
<1>r. results' = <<>>
  BY DEF ModelCallsTools
<1>u. /\ uses' = [i \in 1..n |-> [id |-> <<iteration, i>>, tool |-> names[i]]]
      /\ messages' = Append(messages, ToolUses(uses'))
  BY DEF ModelCallsTools
<1>t. TypeOK /\ RoundsLeft /\ Sendable /\ Listed /\ Dispatched /\ Recorded
  BY DEF IInv
<1>n. n \in Nat /\ n >= 1
  BY LoopAssumption
<1>2. /\ iteration \in Nat /\ iteration' \in 0..MaxIterations /\ iteration' >= 1
  <2>1. iteration \in 0..MaxIterations /\ iteration < MaxIterations
    BY <1>1, <1>t DEF TypeOK, RoundsLeft
  <2>2. iteration' = iteration + 1
    BY <1>1
  <2>3. QED
    BY <2>1, <2>2, Limits
<1>3. uses' \in [1..n -> Block]
  <2>1. \A i \in 1..n : [id |-> <<iteration, i>>, tool |-> names[i]] \in Block
    BY <1>2, <1>n DEF Block
  <2>2. QED
    BY <1>u, <2>1
<1>4. PICK rest \in Seq(Block) : rest = uses' /\ Len(rest) = n
  BY <1>3, <1>n, FunctionIsSeq
<1>5. PICK ids \in Seq(Ids) : /\ ids = [i \in DOMAIN rest |-> rest[i].id] /\ Len(ids) = Len(rest)
                              /\ \A i \in 1..Len(rest) : ids[i] = rest[i].id
  <2>1. \A x \in Block : x.id \in Ids
    BY DEF Block, Ids
  <2>2. QED
    BY <2>1, IdsOf
<1>6. PICK m \in Message : m = ToolUses(rest) /\ m.role = "assistant" /\ m.kind = "uses" /\ m.ids = ids
  <2>1. ToolUses(rest) = [role |-> "assistant", kind |-> "uses", ids |-> ids]
    BY <1>5 DEF ToolUses
  <2>2. ids \in Seq(Nat \X Nat)
    BY DEF Ids
  <2>3. [role |-> "assistant", kind |-> "uses", ids |-> ids] \in Message
    BY <2>2 DEF Message
  <2>4. QED
    BY <2>1, <2>3
<1>7. messages \in Seq(Message)
  BY <1>t DEF TypeOK
<1>8. /\ messages' = Append(messages, m)
      /\ messages' \in Seq(Message) /\ Len(messages') = Len(messages) + 1
      /\ messages'[Len(messages')] = m
  <2>1. messages' = Append(messages, m)
    BY <1>u, <1>4, <1>6
  <2>2. QED
    BY <1>7, <2>1, AppendProperties
<1>9. PICK k \in Nat :
          /\ k = Len(history) /\ WellFormed(messages, k) /\ Len(messages) > k
          /\ (Len(messages) - k) % 2 = 1 /\ messages[Len(messages)].kind # "uses"
          /\ Len(messages) \in Nat
  BY <1>1, <1>7, <1>t, LenProperties DEF Sendable, TypeOK
<1>10. TypeOK'
  <2>1. results' \in Seq([id : Nat \X Nat, error : BOOLEAN])
    BY <1>r
  <2>2. uses' \in Seq(Block) /\ messages' \in Seq(Message)
    BY <1>4, <1>8
  <2>3. \A i \in DOMAIN invoked' : invoked'[i].tool \in Tools \cup {Unknown}
    BY <1>1, <1>t DEF TypeOK
  <2>4. /\ role' \in Roles /\ sent' \in Seq(Message)
        /\ history' \in Seq(Stored) /\ Len(history') <= 2 * Turns
        /\ status' \in {"NONE", "SUCCESS", "PARTIAL", "ERROR"}
    BY <1>1, <1>t DEF TypeOK
  <2>5. QED
    BY <1>1, <1>2, <2>1, <2>2, <2>3, <2>4 DEF TypeOK
<1>11. Listed' /\ Dispatched' /\ RoundsLeft'
  <2>1. Listed' /\ Dispatched'
    BY <1>1, <1>t DEF Listed, Dispatched, Verdicts, Allowed
  <2>2. RoundsLeft'
    BY <1>1, <1>2 DEF RoundsLeft
  <2>3. QED
    BY <2>1, <2>2
<1>12. Sendable' /\ SuccessSawAllResults'
  BY <1>1 DEF Sendable, SuccessSawAllResults
<1>13. Serving'
  <2>1. WellFormed(Append(messages, m), k)
    <3>1. (Len(messages) - k) % 2 # 0 /\ k <= Len(messages) /\ Len(messages) # k
      BY <1>9
    <3>2. Follows(messages, k, m)
      BY <1>6, <1>9, <3>1 DEF Follows
    <3>3. QED
      BY <1>7, <1>9, <3>2, AppendWellFormed
  <2>2. WellFormed(messages, Len(history))'
    <3>1. PICK msgs \in Seq(Message) : msgs = messages' /\ WellFormed(msgs, k)
      BY <1>8, <2>1
    <3>2. history' = history
      BY <1>1
    <3>3. QED
      BY <1>9, <3>1, <3>2 DEF WellFormed
  <2>3. Len(messages') > Len(history') /\ (Len(messages') - Len(history')) % 2 = 0
    <3>1. Len(messages') = Len(messages) + 1 /\ history' = history
      BY <1>1, <1>8
    <3>2. \A x, y \in Nat : x > y /\ (x - y) % 2 = 1 => x + 1 > y /\ ((x + 1) - y) % 2 = 0
      OBVIOUS
    <3>3. QED
      BY <1>9, <3>1, <3>2
  <2>4. messages'[Len(messages')].kind = "uses"
    BY <1>6, <1>8
  <2>5. uses' # <<>>
    BY <1>4, <1>n
  <2>6. QED
    BY <2>2, <2>3, <2>4, <2>5 DEF Serving
<1>14. InStep'
  <2>1. Aligned(ids, <<>>, rest)
    BY <1>5, AlignedStart
  <2>2. messages'[Len(messages')].ids = ids
    BY <1>6, <1>8
  <2>3. Aligned(messages'[Len(messages')].ids, results', uses')
    BY <1>4, <1>r, <2>1, <2>2
  <2>4. QED
    BY <2>3 DEF InStep, Aligned
<1>15. Recorded'
  <2>1. \A i \in DOMAIN invoked : invoked[i].id \in ResultIds(messages)
    BY <1>1, <1>t DEF Recorded
  <2>2. ResultIds(messages) \subseteq ResultIds(Append(messages, m))
    BY <1>7, ResultsStay
  <2>3. \A i \in DOMAIN invoked' : invoked'[i].id \in ResultIds(messages')
    BY <1>1, <1>8, <2>1, <2>2
  <2>4. QED
    BY <2>3 DEF Recorded, ResultIds
<1>16. QED
  BY <1>10, <1>11, <1>12, <1>13, <1>14, <1>15 DEF IInv

\* What the dispatcher answers is recorded.
LEMMA InvokedGrows ==
    ASSUME IInv, role' = role, NEW verdict \in Answers, verdict \in Verdicts(Head(uses).tool),
           Head(uses) \in Block,
           invoked' = Append(invoked, [id |-> Head(uses).id, tool |-> Head(uses).tool,
                                       verdict |-> verdict])
    PROVE  /\ Listed' /\ Dispatched'
           /\ \A i \in DOMAIN invoked' : invoked'[i].tool \in Tools \cup {Unknown}
           /\ \A i \in DOMAIN invoked' : \/ invoked'[i].id = Head(uses).id
                                         \/ \E j \in DOMAIN invoked : invoked'[i].id = invoked[j].id
<1> DEFINE entry == [id |-> Head(uses).id, tool |-> Head(uses).tool, verdict |-> verdict]
           Entry == [id : Ids, tool : Tools \cup {Unknown}, verdict : Answers]
<1>1. /\ entry \in Entry /\ entry.id = Head(uses).id /\ entry.tool = Head(uses).tool
      /\ entry.verdict = verdict
  BY DEF Block, Ids
<1>2. invoked \in Seq(Entry)
  BY DEF IInv, Listed
<1>3. invoked' = Append(invoked, entry)
  OBVIOUS
<1> HIDE DEF entry
<1>4. /\ invoked' \in Seq(Entry) /\ Len(invoked') = Len(invoked) + 1
      /\ \A i \in 1..Len(invoked) : invoked'[i] = invoked[i]
      /\ invoked'[Len(invoked) + 1] = entry
  BY <1>1, <1>2, <1>3, AppendProperties
<1>5. \A i \in DOMAIN invoked' : invoked'[i] = entry
                                 \/ (i \in DOMAIN invoked /\ invoked'[i] = invoked[i])
  <2>1. \A i \in DOMAIN invoked' : i \in 1..Len(invoked) \/ i = Len(invoked) + 1
    BY <1>2, <1>4, LenProperties
  <2>2. \A i \in 1..Len(invoked) : i \in DOMAIN invoked
    BY <1>2, LenProperties
  <2>3. QED
    BY <1>4, <2>1, <2>2
<1>6. Listed'
  BY <1>4 DEF Listed
<1>7. \A i \in DOMAIN invoked' : invoked'[i].tool \in Tools \cup {Unknown}
  <2>1. \A i \in DOMAIN invoked : invoked[i].tool \in Tools \cup {Unknown}
    BY DEF IInv, TypeOK
  <2>2. entry.tool \in Tools \cup {Unknown}
    BY <1>1
  <2>3. QED
    BY <1>5, <2>1, <2>2
<1>8. \A i \in DOMAIN invoked' : invoked'[i].verdict \in Verdicts(invoked'[i].tool)
  BY <1>1, <1>5 DEF IInv, Dispatched
<1>9. Dispatched'
  BY <1>8 DEF Dispatched, Verdicts, Allowed
<1>10. QED
  BY <1>1, <1>5, <1>6, <1>7, <1>9

\* A block is dispatched, and it is not the last one of its round.
DispatchMore(answer) ==
    /\ uses' # <<>>
    /\ results' = Append(results, answer) /\ uses' = Tail(uses)
    /\ UNCHANGED <<pc, messages, status, role, history, iteration, sent, stop>>

\* It is the last one: the round is closed.
DispatchLast(answer) ==
    /\ uses' = <<>>
    /\ results' = Append(results, answer) /\ uses' = Tail(uses)
    /\ messages' = Append(messages, ToolResults(results'))
    /\ AfterRound
    /\ UNCHANGED <<role, history, iteration, sent, stop>>

\* The block being dispatched.
LEMMA BlockAtHand ==
    ASSUME IInv, pc = "dispatch"
    PROVE  /\ Head(uses) \in Block /\ Tail(uses) \in Seq(Block)
           /\ uses \in Seq(Block) /\ uses # <<>>
           /\ results \in Seq(Result) /\ messages \in Seq(Message)
           /\ messages[Len(messages)] \in Message
           /\ messages[Len(messages)].ids \in Seq(Ids)
           /\ Aligned(messages[Len(messages)].ids, results, uses)
<1>1. uses \in Seq(Block) /\ results \in Seq(Result) /\ messages \in Seq(Message)
  BY DEF IInv, TypeOK, Result, Ids
<1>2. uses # <<>> /\ Len(messages) > 0
  <2>1. uses # <<>> /\ Len(messages) > Len(history)
    BY DEF IInv, Serving
  <2>2. Len(history) \in Nat /\ Len(messages) \in Nat
    <3>1. history \in Seq(Stored)
      BY DEF IInv, TypeOK
    <3>2. QED
      BY <1>1, <3>1, LenProperties
  <2>3. QED
    BY <2>1, <2>2
<1>3. Head(uses) \in Block /\ Tail(uses) \in Seq(Block)
  BY <1>1, <1>2, HeadTailProperties
<1>4. messages[Len(messages)] \in Message
  <2>1. Len(messages) \in Nat
    BY <1>1, LenProperties
  <2>2. Len(messages) \in 1..Len(messages)
    BY <1>2, <2>1
  <2>3. QED
    BY <1>1, <2>2, ElementOfSeq
<1>5. messages[Len(messages)].ids \in Seq(Ids)
  BY <1>4 DEF Message, Ids
<1>6. Aligned(messages[Len(messages)].ids, results, uses)
  BY DEF IInv, InStep
<1>7. QED
  BY <1>1, <1>2, <1>3, <1>4, <1>5, <1>6

\* What the step that dispatches a block leaves of the results.
LEMMA AnswerRecorded ==
    ASSUME IInv, pc = "dispatch", NEW answer \in Result, answer.id = Head(uses).id,
           results' = Append(results, answer),
           \A i \in DOMAIN invoked' : \/ invoked'[i].id = Head(uses).id
                                      \/ \E j \in DOMAIN invoked : invoked'[i].id = invoked[j].id
    PROVE  /\ results' \in Seq(Result)
           /\ \A i \in DOMAIN invoked' :
                  \/ invoked'[i].id \in ResultIds(messages)
                  \/ \E j \in DOMAIN results' : results'[j].id = invoked'[i].id
<1>1. results \in Seq(Result)
  BY BlockAtHand
<1>2. /\ results' \in Seq(Result) /\ Len(results') = Len(results) + 1
      /\ \A i \in 1..Len(results) : results'[i] = results[i]
      /\ results'[Len(results) + 1] = answer
  BY <1>1, AppendProperties
<1>3. \A i \in DOMAIN results : i \in DOMAIN results' /\ results'[i] = results[i]
  BY <1>1, <1>2, LenProperties
<1>4. Len(results) + 1 \in DOMAIN results'
  BY <1>1, <1>2, LenProperties
<1>5. ASSUME NEW i \in DOMAIN invoked'
      PROVE  \/ invoked'[i].id \in ResultIds(messages)
             \/ \E j \in DOMAIN results' : results'[j].id = invoked'[i].id
  <2>1. CASE invoked'[i].id = Head(uses).id
    BY <1>2, <1>4, <2>1
  <2>2. CASE \E j \in DOMAIN invoked : invoked'[i].id = invoked[j].id
    <3>1. PICK j \in DOMAIN invoked : invoked'[i].id = invoked[j].id
      BY <2>2
    <3>2. \/ invoked[j].id \in ResultIds(messages)
          \/ \E k \in DOMAIN results : results[k].id = invoked[j].id
      BY DEF IInv, Recorded
    <3>3. QED
      BY <1>3, <3>1, <3>2
  <2>3. QED
    BY <2>1, <2>2
<1>6. QED
  BY <1>2, <1>5

LEMMA DispatchMoreInv ==
    ASSUME IInv, pc = "dispatch", NEW answer \in Result, answer.id = Head(uses).id,
           DispatchMore(answer), Listed', Dispatched',
           \A i \in DOMAIN invoked' : invoked'[i].tool \in Tools \cup {Unknown},
           \A i \in DOMAIN invoked' : \/ invoked'[i].id = Head(uses).id
                                      \/ \E j \in DOMAIN invoked : invoked'[i].id = invoked[j].id
    PROVE  IInv'
<1>1. /\ uses' # <<>> /\ results' = Append(results, answer) /\ uses' = Tail(uses)
      /\ UNCHANGED <<pc, messages, status, role, history, iteration, sent, stop>>
  BY DEF DispatchMore
<1>t. TypeOK /\ RoundsLeft /\ Serving
  BY DEF IInv
<1>2. /\ Tail(uses) \in Seq(Block) /\ uses \in Seq(Block) /\ uses # <<>>
      /\ results \in Seq(Result) /\ messages[Len(messages)].ids \in Seq(Ids)
      /\ Aligned(messages[Len(messages)].ids, results, uses)
  BY BlockAtHand
<1>3. /\ results' \in Seq(Result)
      /\ \A i \in DOMAIN invoked' :
             \/ invoked'[i].id \in ResultIds(messages)
             \/ \E j \in DOMAIN results' : results'[j].id = invoked'[i].id
  BY <1>1, AnswerRecorded
<1>4. TypeOK'
  <2>1. results' \in Seq([id : Nat \X Nat, error : BOOLEAN])
    BY <1>3 DEF Result, Ids
  <2>2. uses' \in Seq(Block)
    BY <1>1, <1>2
  <2>3. QED
    BY <1>1, <1>t, <2>1, <2>2 DEF TypeOK
<1>5. RoundsLeft' /\ Serving'
  BY <1>1, <1>t DEF RoundsLeft, Serving, WellFormed
<1>6. Sendable' /\ SuccessSawAllResults'
  BY <1>1 DEF Sendable, SuccessSawAllResults
<1>7. InStep'
  <2>1. Aligned(messages[Len(messages)].ids, Append(results, answer), Tail(uses))
    BY <1>2, AlignedStep
  <2>2. QED
    BY <1>1, <2>1 DEF InStep, Aligned
<1>8. Recorded'
  BY <1>1, <1>3 DEF Recorded, ResultIds
<1>9. QED
  BY <1>4, <1>5, <1>6, <1>7, <1>8 DEF IInv

LEMMA DispatchLastInv ==
    ASSUME IInv, pc = "dispatch", NEW answer \in Result, answer.id = Head(uses).id,
           DispatchLast(answer), Listed', Dispatched',
           \A i \in DOMAIN invoked' : invoked'[i].tool \in Tools \cup {Unknown},
           \A i \in DOMAIN invoked' : \/ invoked'[i].id = Head(uses).id
                                      \/ \E j \in DOMAIN invoked : invoked'[i].id = invoked[j].id
    PROVE  IInv'
<1>1. /\ UNCHANGED <<role, history, iteration, sent, stop>> /\ AfterRound
  BY DEF DispatchLast
<1>a. uses' = <<>> /\ results' = Append(results, answer) /\ uses' = Tail(uses)
  BY DEF DispatchLast
<1>m. messages' = Append(messages, ToolResults(results'))
  BY DEF DispatchLast
<1>t. TypeOK /\ RoundsLeft /\ Serving
  BY DEF IInv
<1>2. PICK ids \in Seq(Ids) : /\ ids = messages[Len(messages)].ids
                              /\ Aligned(ids, results, uses)
  BY BlockAtHand
<1>3. /\ results' \in Seq(Result)
      /\ \A i \in DOMAIN invoked' :
             \/ invoked'[i].id \in ResultIds(messages)
             \/ \E j \in DOMAIN results' : results'[j].id = invoked'[i].id
  BY <1>a, AnswerRecorded
<1>4. [i \in DOMAIN results' |-> results'[i].id] = ids
  <2>1. PICK done \in Seq(Result) : done = results'
    BY <1>3
  <2>2. Aligned(ids, Append(results, answer), Tail(uses))
    BY <1>2, AlignedStep, BlockAtHand
  <2>3. Aligned(ids, done, <<>>)
    BY <1>a, <2>1, <2>2
  <2>4. [i \in DOMAIN done |-> done[i].id] = ids
    BY <2>3, AlignedEnd
  <2>5. QED
    BY <2>1, <2>4
<1>5. PICK m \in Message : m = ToolResults(results') /\ m.role = "user" /\ m.kind = "results"
                           /\ m.ids = ids
  <2>1. ToolResults(results') = [role |-> "user", kind |-> "results", ids |-> ids]
    BY <1>4 DEF ToolResults
  <2>2. ids \in Seq(Nat \X Nat)
    BY DEF Ids
  <2>3. [role |-> "user", kind |-> "results", ids |-> ids] \in Message
    BY <2>2 DEF Message
  <2>4. QED
    BY <2>1, <2>3
<1>6. messages \in Seq(Message) /\ messages' = Append(messages, m)
  BY <1>m, <1>5, BlockAtHand
<1>7. /\ messages' \in Seq(Message) /\ Len(messages') = Len(messages) + 1
      /\ messages'[Len(messages')] = m
  BY <1>6, AppendProperties
<1>8. PICK k \in Nat :
          /\ k = Len(history) /\ WellFormed(messages, k) /\ Len(messages) > k
          /\ (Len(messages) - k) % 2 = 0 /\ messages[Len(messages)].kind = "uses"
          /\ Len(messages) \in Nat
  BY <1>6, <1>t, LenProperties DEF Serving, TypeOK
<1>9. WellFormed(messages, Len(history))'
  <2>1. k <= Len(messages) /\ Len(messages) # k /\ Len(messages) > 0
    BY <1>8
  <2>f. Follows(messages, k, m)
    BY <1>2, <1>5, <1>8, <2>1 DEF Follows
  <2>2. WellFormed(Append(messages, m), k)
    BY <1>6, <1>8, <2>f, AppendWellFormed
  <2>3. PICK msgs \in Seq(Message) : msgs = messages' /\ WellFormed(msgs, k)
    BY <1>6, <1>7, <2>2
  <2>4. history' = history
    BY <1>1
  <2>5. QED
    BY <1>8, <2>3, <2>4 DEF WellFormed
<1>10. \A i \in DOMAIN invoked' : invoked'[i].id \in ResultIds(messages')
  <2>1. ResultIds(messages) \subseteq ResultIds(messages') /\ ToSet(ids) \subseteq ResultIds(messages')
    BY <1>5, <1>6, ResultsStay
  <2>2. \A j \in DOMAIN results' : results'[j].id \in ToSet(ids)
    BY <1>4 DEF ToSet
  <2>3. QED
    BY <1>3, <2>1, <2>2
<1>11. /\ pc' \in {"call", "idle"}
       /\ pc' = "call" => iteration < MaxIterations
       /\ status' \in {"NONE", "SUCCESS", "PARTIAL", "ERROR"}
       /\ pc' = "idle" => status' = "PARTIAL"
  <2>1. status \in {"NONE", "SUCCESS", "PARTIAL", "ERROR"} /\ stop = "tool_use"
    BY <1>t DEF TypeOK, RoundsLeft
  <2>2. CASE iteration < MaxIterations
    <3>1. pc' = "call" /\ UNCHANGED status
      BY <1>1, <2>2 DEF AfterRound
    <3>2. QED
      BY <2>1, <2>2, <3>1
  <2>3. CASE ~(iteration < MaxIterations)
    <3>1. status' = StatusOfStop(stop) /\ pc' = "idle"
      BY <1>1, <2>3 DEF AfterRound, Return
    <3>2. status' = "PARTIAL"
      BY <2>1, <3>1 DEF StatusOfStop
    <3>3. QED
      BY <3>1, <3>2
  <2>4. QED
    BY <2>2, <2>3
<1>12. TypeOK'
  <2>1. results' \in Seq([id : Nat \X Nat, error : BOOLEAN])
    BY <1>3 DEF Result, Ids
  <2>2. uses' \in Seq(Block)
    BY <1>a
  <2>3. QED
    BY <1>1, <1>7, <1>11, <1>t, <2>1, <2>2 DEF TypeOK
<1>13. RoundsLeft' /\ Serving' /\ InStep'
  BY <1>1, <1>11 DEF RoundsLeft, Serving, InStep
<1>14. SuccessSawAllResults'
  BY <1>11 DEF SuccessSawAllResults
<1>15. Recorded'
  BY <1>10 DEF Recorded, ResultIds
<1>16. Sendable'
  <2>1. Len(messages') > Len(history') /\ (Len(messages') - Len(history')) % 2 = 1
    <3>1. \A x, y \in Nat : x > y /\ (x - y) % 2 = 0 => x + 1 > y /\ ((x + 1) - y) % 2 = 1
      OBVIOUS
    <3>2. QED
      BY <1>1, <1>7, <1>8, <3>1
  <2>2. messages'[Len(messages')].kind # "uses"
    BY <1>5, <1>7
  <2>3. QED
    BY <1>9, <2>1, <2>2 DEF Sendable
<1>17. QED
  BY <1>11, <1>12, <1>13, <1>14, <1>15, <1>16 DEF IInv

\* A block is dispatched.
LEMMA DispatchBlockInv ==
    ASSUME IInv, NEW verdict \in Answers, DispatchBlock(verdict)
    PROVE  IInv'
<1>1. pc = "dispatch" /\ role' = role /\ verdict \in Verdicts(Head(uses).tool)
  BY DEF DispatchBlock
<1>2. invoked' = Append(invoked, [id |-> Head(uses).id, tool |-> Head(uses).tool,
                                  verdict |-> verdict])
  BY DEF DispatchBlock
<1>3. Head(uses) \in Block
  BY <1>1, BlockAtHand
<1>4. PICK answer \in Result : answer = [id |-> Head(uses).id, error |-> verdict # "ok"]
                               /\ answer.id = Head(uses).id
  <2>1. (verdict # "ok") \in BOOLEAN
    OBVIOUS
  <2>2. [id |-> Head(uses).id, error |-> verdict # "ok"] \in Result
    BY <1>3, <2>1 DEF Result, Block, Ids
  <2>3. QED
    BY <2>2
<1>5. DispatchMore(answer) \/ DispatchLast(answer)
  <2>1. results' = Append(results, answer)
    BY <1>4 DEF DispatchBlock, Answer
  <2>2. CASE uses' = <<>>
    BY <2>1, <2>2 DEF DispatchBlock, DispatchLast
  <2>3. CASE uses' # <<>>
    BY <2>1, <2>3 DEF DispatchBlock, DispatchMore
  <2>4. QED
    BY <2>2, <2>3
<1>6. /\ Listed' /\ Dispatched'
      /\ \A i \in DOMAIN invoked' : invoked'[i].tool \in Tools \cup {Unknown}
      /\ \A i \in DOMAIN invoked' : \/ invoked'[i].id = Head(uses).id
                                    \/ \E j \in DOMAIN invoked : invoked'[i].id = invoked[j].id
  BY <1>1, <1>2, <1>3, InvokedGrows
<1>7. QED
  BY <1>1, <1>4, <1>5, <1>6, DispatchMoreInv, DispatchLastInv

\* A turn fails.
LEMMA TurnRaisesInv ==
    ASSUME IInv, TurnRaises
    PROVE  IInv'
<1>1. /\ status' = "ERROR" /\ pc' = "idle"
      /\ UNCHANGED <<role, history, iteration, messages, sent, uses, results, invoked, stop>>
  BY DEF TurnRaises
<1>2. TypeOK' /\ Listed'
  BY <1>1 DEF IInv, TypeOK, Listed
<1>3. RoundsLeft' /\ Sendable' /\ Serving' /\ InStep' /\ Recorded' /\ SuccessSawAllResults'
  BY <1>1 DEF RoundsLeft, Sendable, Serving, InStep, Recorded, SuccessSawAllResults
<1>4. Dispatched'
  BY <1>1 DEF IInv, Dispatched, Verdicts, Allowed
<1>5. QED
  BY <1>2, <1>3, <1>4 DEF IInv

-----------------------------------------------------------------------------
(* Theorems.                                                               *)

LEMMA InvNext == IInv /\ [Next]_vars => IInv'
<1> SUFFICES ASSUME IInv, [Next]_vars PROVE IInv'
  OBVIOUS
<1>1. CASE \E who \in Roles, rows \in Memory : StartTurn(who, rows)
  BY <1>1, StartTurnInv
<1>2. CASE \E reason \in {"end_turn", "max_tokens"} : ModelStops(reason)
  BY <1>2, ModelStopsInv
<1>3. CASE \E n \in 1..MaxBlocks : \E names \in [1..n -> Tools \cup {Unknown}] : ModelCallsTools(names)
  BY <1>3, ModelCallsToolsInv
<1>4. CASE \E verdict \in {"unknown_tool", "forbidden_for_role", "invalid_input", "ok",
                           "tool_execution_failed"} : DispatchBlock(verdict)
  BY <1>4, DispatchBlockInv DEF Answers
<1>5. CASE TurnRaises
  BY <1>5, TurnRaisesInv
<1>6. CASE UNCHANGED vars
  <2>1. TypeOK' /\ Listed' /\ RoundsLeft'
    BY <1>6 DEF vars, IInv, TypeOK, Listed, RoundsLeft
  <2>2. Sendable' /\ Serving' /\ InStep'
    BY <1>6 DEF vars, IInv, Sendable, Serving, InStep, WellFormed, Aligned
  <2>3. Dispatched' /\ Recorded' /\ SuccessSawAllResults'
    BY <1>6 DEF vars, IInv, Dispatched, Recorded, SuccessSawAllResults, Verdicts, Allowed, ResultIds
  <2>4. QED
    BY <2>1, <2>2, <2>3 DEF IInv
<1>7. QED
  BY <1>1, <1>2, <1>3, <1>4, <1>5, <1>6 DEF Next, Step

LEMMA InvHolds == Spec => []IInv
  BY InvInit, InvNext, PTL DEF Spec

\* TypeOK of Orchestrator.
THEOREM TypeCorrect == Spec => []TypeOK
<1>1. IInv => TypeOK
  BY DEF IInv
<1>2. QED
  BY <1>1, InvHolds, PTL

\* Every call to the API sends, after any memory the conversation left, the question
\* and rounds in which each tool use is answered, id by id, in order.
THEOREM CallsStayWellFormed == Spec => []CallsAreWellFormed
<1>1. ASSUME IInv PROVE CallsAreWellFormed
  <2>1. SUFFICES ASSUME pc = "call"
                 PROVE  WellFormed(messages, Len(history)) /\ Last(messages).role = "user"
    BY DEF CallsAreWellFormed
  <2>2. /\ WellFormed(messages, Len(history)) /\ Len(messages) > Len(history)
        /\ (Len(messages) - Len(history)) % 2 = 1
    BY <1>1, <2>1 DEF IInv, Sendable
  <2>3. messages \in Seq(Message) /\ history \in Seq(Stored)
    BY <1>1 DEF IInv, TypeOK
  <2>4. Len(history) \in Nat /\ Len(messages) \in Nat /\ Len(messages) \in DOMAIN messages
    BY <2>2, <2>3, LenProperties
  <2>5. messages[Len(messages)].role = "user"
    BY <2>2, <2>4 DEF WellFormed
  <2>6. QED
    BY <2>2, <2>5 DEF Last
<1>2. QED
  BY <1>1, InvHolds, PTL

\* No offered tool is refused for the role, and no tool that was not offered runs.
THEOREM OfferMeetsGate == Spec => []OfferAgreesWithGate
<1>1. IInv => OfferAgreesWithGate
  BY RegistryAssumption DEF IInv, TypeOK, Dispatched, Verdicts, Allowed, Offered, Ran,
     OfferAgreesWithGate
<1>2. QED
  BY <1>1, InvHolds, PTL

\* A turn audited as SUCCESS ended with an answer to a call that carried the
\* result of every tool that ran in it.
THEOREM SuccessReadEverything == Spec => []SuccessSawAllResults
<1>1. IInv => SuccessSawAllResults
  BY DEF IInv
<1>2. QED
  BY <1>1, InvHolds, PTL

=============================================================================

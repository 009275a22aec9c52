---------------------------- MODULE Orchestrator ----------------------------
(***************************************************************************)
(* run_conversation (api/app/llm/orchestrator.py) and the tool dispatcher  *)
(* it calls (tool_dispatcher.py), turn after turn.  Each turn is given a   *)
(* memory: any rows the requests of a conversation may have left, which    *)
(* chat.py stores in separate steps (ChatTurn), so that two questions may  *)
(* follow each other, a window may start with a reply, and a reply may be  *)
(* empty.                                                                  *)
(*                                                                         *)
(* The model is the environment: it may ask for any tools, offered to the  *)
(* role or not, any number of rounds.  Tool results are abstracted to the  *)
(* id they answer and whether they are an error.                           *)
(***************************************************************************)
EXTENDS Integers, Sequences, FiniteSets, SequencesExt

CONSTANTS Tools,          (* TOOL_REGISTRY                                  *)
          Unknown,        (* a name that is not in the registry             *)
          Required,       (* required_roles of a tool; {} when it has none  *)
          Roles,          (* roles as they come in the token, any case      *)
          Lower,          (* str.lower() on them                            *)
          MaxIterations,  (* MAX_ITERATIONS                                 *)
          Turns,          (* memory_turns_per_request                       *)
          MaxBlocks       (* bound: tool_use blocks in one response         *)

ASSUME RegistryAssumption ==
    /\ Unknown \notin Tools
    /\ Required \in [Tools -> SUBSET Roles]
    /\ Lower \in [Roles -> Roles]
    /\ \A t \in Tools : \A name \in Required[t] : Lower[name] = name
ASSUME LoopAssumption ==
    /\ MaxIterations \in Nat \ {0}
    /\ Turns \in Nat
    /\ MaxBlocks \in Nat \ {0}

VARIABLES pc,         (* "idle", "call", "dispatch"                         *)
          role,       (* auth.role                                          *)
          history,    (* the memory the turn was given                      *)
          iteration,  (* result.iterations                                  *)
          messages,   (* the list sent to the API                           *)
          sent,       (* as it was at the last call                         *)
          uses,       (* tool_use blocks of the response being served       *)
          results,    (* tool_results                                       *)
          invoked,    (* result.tools_invoked, with the dispatcher's answer *)
          stop,       (* result.stop_reason                                 *)
          status      (* the audited status of the last turn                *)

vars == <<pc, role, history, iteration, messages, sent, uses, results, invoked, stop,
          status>>

\* A message without tool blocks; its text is "text" or "empty".
Text(r, text) == [role |-> r, kind |-> text, ids |-> <<>>]
ToolUses(blocks) == [role |-> "assistant", kind |-> "uses", ids |-> [i \in DOMAIN blocks |-> blocks[i].id]]
ToolResults(answers) == [role |-> "user", kind |-> "results", ids |-> [i \in DOMAIN answers |-> answers[i].id]]

Init ==
    /\ pc = "idle"
    /\ role \in Roles
    /\ history = <<>>
    /\ iteration = 0
    /\ messages = <<>>
    /\ sent = <<>>
    /\ uses = <<>>
    /\ results = <<>>
    /\ invoked = <<>>
    /\ stop = ""
    /\ status = "NONE"

\* What a request stores: its question, which is not empty, and a text of the model.
Stored == {Text("user", "text"), Text("assistant", "text"), Text("assistant", "empty")}

From(r, rows) == Cardinality({i \in DOMAIN rows : rows[i].role = r})

\* A reply is stored after its question, though not always next to it.
RepliesFollow(rows) ==
    \A n \in 0..Len(rows) :
        From("assistant", SubSeq(rows, 1, n)) <= From("user", SubSeq(rows, 1, n))

\* What load_recent_messages may give: a whole conversation, or a full window on
\* the end of one.
Memory ==
    {rows \in UNION {[1..n -> Stored] : n \in 0..2 * Turns} :
        Len(rows) = 2 * Turns \/ RepliesFollow(rows)}

\* A turn starts with a fresh ConversationResult, for whoever asks.
StartTurn(who, rows) ==
    /\ pc = "idle"
    /\ role' = who
    /\ history' = rows
    /\ messages' = Append(rows, Text("user", "text"))
    /\ iteration' = 0
    /\ invoked' = <<>>
    /\ stop' = ""
    /\ status' = "NONE"
    /\ pc' = "call"
    /\ UNCHANGED <<sent, uses, results>>

\* Wrong on purpose: a turn cut short by the iteration limit counts as complete.
StatusOfStopLenient(reason) == IF reason \notin {"", "end_turn", "tool_use"} THEN "PARTIAL" ELSE "SUCCESS"

\* The audited status, from chat.py.
StatusOfStop(reason) == IF reason \notin {"", "end_turn"} THEN "PARTIAL" ELSE "SUCCESS"

\* run_conversation returns; what is stored of the turn, in which steps, is ChatTurn's.
Return(reason) ==
    /\ status' = StatusOfStop(reason)
    /\ pc' = "idle"

\* client.messages.create answers with text and a stop_reason that is final.
ModelStops(reason) ==
    /\ pc = "call"
    /\ iteration' = iteration + 1
    /\ sent' = messages
    /\ stop' = reason
    /\ Return(reason)
    /\ UNCHANGED <<role, history, messages, uses, results, invoked>>

\* It answers with tool_use blocks, whose ids are fresh.
ModelCallsTools(names) ==
    /\ pc = "call"
    /\ iteration' = iteration + 1
    /\ sent' = messages
    /\ stop' = "tool_use"
    /\ uses' = [i \in DOMAIN names |-> [id |-> <<iteration, i>>, tool |-> names[i]]]
    /\ messages' = Append(messages, ToolUses(uses'))
    /\ results' = <<>>
    /\ pc' = "dispatch"
    /\ UNCHANGED <<role, history, invoked, status>>

-----------------------------------------------------------------------------
(* dispatch_tool                                                           *)

\* anthropic_tools(role): the tools the model is offered.
Offered == {t \in Tools : Required[t] = {} \/ Lower[role] \in Required[t]}

\* Wrong on purpose: the gate compares roles as they were written.
AllowedAsWritten(tool) == Required[tool] = {} \/ role \in Required[tool]

\* The role gate.
Allowed(tool) == Required[tool] = {} \/ Lower[role] \in Required[tool]

\* What dispatch_tool may answer; only "ok" and "raised" ran the tool.
Verdicts(tool) ==
    IF tool \notin Tools THEN {"unknown_tool"}
    ELSE IF ~Allowed(tool) THEN {"forbidden_for_role"}
    ELSE {"invalid_input", "ok", "tool_execution_failed"}

Ran(verdict) == verdict \in {"ok", "tool_execution_failed"}

\* Wrong on purpose: one iteration too many.
AfterRoundOneMore == IF iteration <= MaxIterations
                     THEN pc' = "call" /\ UNCHANGED status
                     ELSE Return(stop)

\* After the last block of a round: the next iteration, or the for/else.
AfterRound == IF iteration < MaxIterations
              THEN pc' = "call" /\ UNCHANGED status
              ELSE Return(stop)

\* Wrong on purpose: a tool that failed gets no tool_result.
AnswerOkOnly(block, verdict) ==
    IF verdict = "ok" THEN Append(results, [id |-> block.id, error |-> FALSE]) ELSE results

Answer(block, verdict) == Append(results, [id |-> block.id, error |-> verdict # "ok"])

\* The next block of the response is dispatched and its result recorded; the
\* last one closes the round.
DispatchBlock(verdict) ==
    /\ pc = "dispatch"
    /\ verdict \in Verdicts(Head(uses).tool)
    /\ invoked' = Append(invoked, [id |-> Head(uses).id, tool |-> Head(uses).tool, verdict |-> verdict])
    /\ results' = Answer(Head(uses), verdict)
    /\ uses' = Tail(uses)
    /\ IF uses' = <<>>
       THEN messages' = Append(messages, ToolResults(results')) /\ AfterRound
       ELSE UNCHANGED <<pc, messages, status>>
    /\ UNCHANGED <<role, history, iteration, sent, stop>>

\* Wrong on purpose: a failed round is tried again and does not count.
TurnRaisesRetry ==
    /\ pc = "dispatch"
    /\ iteration' = iteration - 1
    /\ messages' = sent
    /\ uses' = <<>>
    /\ invoked' = <<>>
    /\ pc' = "call"
    /\ UNCHANGED <<role, history, sent, results, stop, status>>

\* The API or the sanitiser raises: the turn ends.
TurnRaises ==
    /\ pc \in {"call", "dispatch"}
    /\ status' = "ERROR"
    /\ pc' = "idle"
    /\ UNCHANGED <<role, history, iteration, messages, sent, uses, results, invoked, stop>>

Step ==
    \/ \E reason \in {"end_turn", "max_tokens"} : ModelStops(reason)
    \/ \E n \in 1..MaxBlocks : \E names \in [1..n -> Tools \cup {Unknown}] : ModelCallsTools(names)
    \/ \E verdict \in {"unknown_tool", "forbidden_for_role", "invalid_input", "ok",
                       "tool_execution_failed"} : DispatchBlock(verdict)
    \/ TurnRaises

Next ==
    \/ \E who \in Roles, rows \in Memory : StartTurn(who, rows)
    \/ Step

\* A turn that started keeps going: the API client and the database answer or
\* give up, and nothing else holds the coroutine.  Whether a new turn starts is
\* the user's choice.
Spec == Init /\ [][Next]_vars /\ WF_vars(Step)

-----------------------------------------------------------------------------
(* Properties.                                                             *)

Message == [role : {"user", "assistant"}, kind : {"text", "empty", "uses", "results"},
            ids : Seq(Nat \X Nat)]
Block == [id : Nat \X Nat, tool : Tools \cup {Unknown}]

TypeOK ==
    /\ pc \in {"idle", "call", "dispatch"}
    /\ role \in Roles
    /\ history \in Seq(Stored) /\ Len(history) <= 2 * Turns
    /\ iteration \in 0..MaxIterations
    /\ messages \in Seq(Message)
    /\ sent \in Seq(Message)
    /\ uses \in Seq(Block)
    /\ results \in Seq([id : Nat \X Nat, error : BOOLEAN])
    /\ \A i \in DOMAIN invoked : invoked[i].tool \in Tools \cup {Unknown}
    /\ stop \in {"", "end_turn", "max_tokens", "tool_use"}
    /\ status \in {"NONE", "SUCCESS", "PARTIAL", "ERROR"}

\* What the API asks of the tool rounds, and what the loop adds to a memory of n
\* rows: the question, then messages of the model and the user in turns, where the
\* tool uses of one are answered one by one, in order, by the next.
WellFormed(msgs, n) ==
    \A i \in DOMAIN msgs :
        /\ i <= n => msgs[i] \in Stored
        /\ i > n => /\ msgs[i].role = IF (i - n) % 2 = 1 THEN "user" ELSE "assistant"
                    /\ i = n + 1 <=> msgs[i].kind \notin {"uses", "results"}
        /\ msgs[i].kind = "results" => i > 1 /\ msgs[i - 1].kind = "uses" /\ msgs[i - 1].ids = msgs[i].ids
        /\ msgs[i].kind = "uses" /\ i < Len(msgs) => msgs[i + 1].kind = "results"

\* Every call sends, after whatever memory the conversation left, a turn the API
\* accepts: after any number of rounds, whatever tools failed, were refused or did
\* not exist, no tool use is without its result and none is in the memory.
CallsAreWellFormed ==
    pc = "call" => WellFormed(messages, Len(history)) /\ Last(messages).role = "user"

\* The list of tools offered to a role and the gate of the dispatcher are two
\* pieces of code that agree: no offered tool is refused for the role, and no
\* tool that was not offered ever runs.
OfferAgreesWithGate ==
    \A i \in DOMAIN invoked :
        /\ invoked[i].verdict = "forbidden_for_role" => invoked[i].tool \notin Offered
        /\ Ran(invoked[i].verdict) => invoked[i].tool \in Offered

ResultIds(msgs) ==
    UNION {ToSet(msgs[i].ids) : i \in {j \in DOMAIN msgs : msgs[j].kind = "results"}}

\* A turn is audited as SUCCESS only when the model saw the result of every tool
\* that ran before it answered; a turn cut off at the iteration limit, whose last
\* results nobody read, is PARTIAL.
SuccessSawAllResults ==
    pc = "idle" /\ status = "SUCCESS" =>
        \A i \in DOMAIN invoked : invoked[i].id \in ResultIds(sent)

\* A model that keeps asking for tools cannot keep a turn going: every turn ends.
TurnEnds == (pc # "idle") ~> (pc = "idle")
=============================================================================

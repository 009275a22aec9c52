------------------------------ MODULE ChatTurn ------------------------------
(***************************************************************************)
(* One question and its answer: what POST /chat and POST /internal/chat do *)
(* between the rate limiter and the response (api/app/api/v1/chat.py,      *)
(* internal.py), on the tables of api/app/db/conversation.py and the audit *)
(* log of api/app/audit/persister.py.                                      *)
(*                                                                         *)
(* Every database call is an await on autocommit connections, so every     *)
(* call is a step of its own and other requests run in between: appending  *)
(* a message is a SELECT MAX + 1 and, later, an INSERT.  Any call can      *)
(* raise, and the process can die, at most MaxFaults times in all.         *)
(***************************************************************************)
EXTENDS Integers, Sequences, FiniteSets

CONSTANTS Requests,       (* requests, each made once; also their fresh ids *)
          Tenants,
          Conversations,  (* conversation ids, used or not                  *)
          CallerIds,      (* values a service may send as X-Request-Id      *)
          NoTenant,       (* owner of a conversation that does not exist    *)
          NoConv,         (* conversation_id of a request that gives none   *)
          Turns,          (* memory_turns_per_request                       *)
          MaxInFlight,    (* bound: requests served at the same time        *)
          MaxFaults       (* bound: failed database calls and crashes       *)

ASSUME TurnsAssumption == Turns \in Nat /\ MaxFaults \in Nat /\ MaxInFlight \in Nat
ASSUME NamesAssumption ==
    /\ NoTenant \notin Tenants
    /\ NoConv \notin Conversations
    /\ CallerIds \cap Requests = {}

VARIABLES pc,        (* where each request is in the endpoint               *)
          ask,       (* its tenant, the conversation it names, request_id   *)
          conv,      (* conv_id, once resolved                              *)
          seq,       (* next_seq, as append_message last read it            *)
          stop,      (* stop_reason of the LLM loop                         *)
          history,   (* what load_recent_messages gave it                   *)
          owner,     (* api_audit.conversation: the tenant of each row      *)
          messages,  (* api_audit.conversation_message, in insertion order  *)
          auditLog,  (* api_audit.ai_audit_log                              *)
          charged,   (* requests whose tokens reached the rate limiter      *)
          faults

vars == <<pc, ask, conv, seq, stop, history, owner, messages, auditLog, charged, faults>>

\* The steps of an endpoint that are inside an await, in program order.
Awaiting == {"resolve", "load", "converse", "readUser", "putUser", "readReply",
             "putReply", "touch", "audit", "charge", "detokenize", "auditFailure"}
Ended == {"answered", "notFound", "failed", "lost"}
Stops == {"end_turn", "other"}
Roles == {"user", "assistant"}

NoAsk == [tenant |-> NoTenant, conv |-> NoConv, id |-> NoConv]
InFlight == {r \in Requests : pc[r] \in Awaiting}

Init ==
    /\ pc = [r \in Requests |-> "new"]
    /\ ask = [r \in Requests |-> NoAsk]
    /\ conv = [r \in Requests |-> NoConv]
    /\ seq = [r \in Requests |-> 0]
    /\ stop = [r \in Requests |-> "end_turn"]
    /\ history = [r \in Requests |-> <<>>]
    /\ owner = [c \in Conversations |-> NoTenant]
    /\ messages = [c \in Conversations |-> <<>>]
    /\ auditLog = {}
    /\ charged = {}
    /\ faults = 0

Goto(r, step) == pc' = [pc EXCEPT ![r] = step]
Fault == faults < MaxFaults /\ faults' = faults + 1

-----------------------------------------------------------------------------
(* Resolving the conversation and reading its memory.                      *)

\* A request passes the limiter.  It names a conversation, known or not, or
\* asks for a new one; its request_id is the caller's or a fresh one.
Arrive(r, t, c, id) ==
    /\ pc[r] = "new"
    /\ Cardinality(InFlight) < MaxInFlight
    /\ ask' = [ask EXCEPT ![r] = [tenant |-> t, conv |-> c, id |-> id]]
    /\ Goto(r, "resolve")
    /\ UNCHANGED <<conv, seq, stop, history, owner, messages, auditLog, charged, faults>>

\* Wrong on purpose: any existing conversation will do.
BelongsToAnyone(c, t) == owner[c] # NoTenant

\* The WHERE clause of load_conversation.
BelongsTo(c, t) == owner[c] = t

\* _resolve_conversation with an id: load_conversation, or a 404.
ResolveKnown(r) ==
    /\ pc[r] = "resolve"
    /\ ask[r].conv # NoConv
    /\ IF BelongsTo(ask[r].conv, ask[r].tenant)
       THEN conv' = [conv EXCEPT ![r] = ask[r].conv] /\ Goto(r, "load")
       ELSE Goto(r, "notFound") /\ UNCHANGED conv
    /\ UNCHANGED <<ask, seq, stop, history, owner, messages, auditLog, charged, faults>>

\* _resolve_conversation without an id: create_conversation under a fresh uuid.
ResolveNew(r, c) ==
    /\ pc[r] = "resolve"
    /\ ask[r].conv = NoConv
    /\ owner[c] = NoTenant
    /\ owner' = [owner EXCEPT ![c] = ask[r].tenant]
    /\ conv' = [conv EXCEPT ![r] = c]
    /\ Goto(r, "load")
    /\ UNCHANGED <<ask, seq, stop, history, messages, auditLog, charged, faults>>

\* SELECT TOP (limit) ... ORDER BY sequence DESC, reversed: some `limit` rows
\* with no larger sequence outside, oldest first; rows that share a sequence
\* come in any order.
Newest(rows, limit) ==
    LET n == IF Len(rows) < limit THEN Len(rows) ELSE limit
    IN  {[k \in 1..n |-> rows[pick[k]]] : pick \in
            {p \in [1..n -> 1..Len(rows)] :
                /\ \A i, j \in 1..n : i < j => p[i] # p[j] /\ rows[p[i]].seq <= rows[p[j]].seq
                /\ \A m \in 1..Len(rows) \ {p[i] : i \in 1..n} :
                       \A i \in 1..n : rows[m].seq <= rows[p[i]].seq}}

\* load_recent_messages, with its second look at the owner.
LoadHistory(r) ==
    /\ pc[r] = "load"
    /\ \E h \in Newest(IF owner[conv[r]] = ask[r].tenant THEN messages[conv[r]] ELSE <<>>,
                       2 * Turns) :
           history' = [history EXCEPT ![r] = h]
    /\ Goto(r, "converse")
    /\ UNCHANGED <<ask, conv, seq, stop, owner, messages, auditLog, charged, faults>>

-----------------------------------------------------------------------------
(* The LLM loop, seen from outside.                                        *)

\* run_conversation returns with some stop_reason ("other": the iteration
\* limit, max_tokens, a refusal ...).
Converse(r, s) ==
    /\ pc[r] = "converse"
    /\ stop' = [stop EXCEPT ![r] = s]
    /\ Goto(r, "readUser")
    /\ UNCHANGED <<ask, conv, seq, history, owner, messages, auditLog, charged, faults>>

\* run_conversation raises: a missing key, the API, the sanitiser's database.
ConverseRaises(r) ==
    /\ pc[r] = "converse"
    /\ Goto(r, "auditFailure")
    /\ UNCHANGED <<ask, conv, seq, stop, history, owner, messages, auditLog, charged, faults>>

-----------------------------------------------------------------------------
(* append_message, twice.                                                  *)

MaxSeq(rows) == IF rows = <<>> THEN 0
                ELSE CHOOSE m \in {rows[i].seq : i \in 1..Len(rows)} :
                         \A i \in 1..Len(rows) : rows[i].seq <= m

Row(s, role, r) == [seq |-> s, role |-> role, req |-> r]

\* SELECT ISNULL(MAX(sequence), 0) + 1
ReadSequence(r, at, next) ==
    /\ pc[r] = at
    /\ seq' = [seq EXCEPT ![r] = MaxSeq(messages[conv[r]]) + 1]
    /\ Goto(r, next)
    /\ UNCHANGED <<ask, conv, stop, history, owner, messages, auditLog, charged, faults>>

\* Wrong on purpose: the insert skips the number that was read.
InsertMessageSkip(r, at, role, next) ==
    /\ pc[r] = at
    /\ messages' = [messages EXCEPT ![conv[r]] = Append(@, Row(seq[r] + 1, role, r))]
    /\ \/ Goto(r, next) /\ UNCHANGED faults
       \/ Fault /\ Goto(r, "failed")
    /\ UNCHANGED <<ask, conv, seq, stop, history, owner, auditLog, charged>>

\* Wrong on purpose: a failed insert is audited like a failed conversation.
InsertMessageAudited(r, at, role, next) ==
    /\ pc[r] = at
    /\ messages' = [messages EXCEPT ![conv[r]] = Append(@, Row(seq[r], role, r))]
    /\ \/ Goto(r, next) /\ UNCHANGED faults
       \/ Fault /\ Goto(r, "auditFailure")
    /\ UNCHANGED <<ask, conv, seq, stop, history, owner, auditLog, charged>>

\* INSERT with the number read before.  The row is committed whether or not the
\* answer of the server reaches the coroutine.
InsertMessage(r, at, role, next) ==
    /\ pc[r] = at
    /\ messages' = [messages EXCEPT ![conv[r]] = Append(@, Row(seq[r], role, r))]
    /\ \/ Goto(r, next) /\ UNCHANGED faults
       \/ Fault /\ Goto(r, "failed")
    /\ UNCHANGED <<ask, conv, seq, stop, history, owner, auditLog, charged>>

\* Wrong on purpose: the reply is numbered with what was read for the question.
AppendReplySameNumber(r) ==
    \/ /\ pc[r] = "readReply"
       /\ Goto(r, "putReply")
       /\ UNCHANGED <<ask, conv, seq, stop, history, owner, messages, auditLog, charged, faults>>
    \/ InsertMessage(r, "putReply", "assistant", "touch")

AppendUser(r) ==
    \/ ReadSequence(r, "readUser", "putUser")
    \/ InsertMessage(r, "putUser", "user", "readReply")

AppendReply(r) ==
    \/ ReadSequence(r, "readReply", "putReply")
    \/ InsertMessage(r, "putReply", "assistant", "touch")

\* touch_conversation: a timestamp nothing here depends on.
Touch(r) ==
    /\ pc[r] = "touch"
    /\ Goto(r, "audit")
    /\ UNCHANGED <<ask, conv, seq, stop, history, owner, messages, auditLog, charged, faults>>

-----------------------------------------------------------------------------
(* Audit, token charge, answer.                                            *)

\* Wrong on purpose: a request that named no conversation is audited without one.
AuditRowNoConversation(r, status) ==
    [id |-> ask[r].id, req |-> r, conv |-> ask[r].conv, status |-> status]

AuditRow(r, status) ==
    [id |-> ask[r].id, req |-> r, conv |-> conv[r], status |-> status]

\* persist_audit_row never raises.  The row is missing when its request_id is
\* already taken (ux_audit_request) or when the INSERT fails.
PersistAudit(row) ==
    IF \E a \in auditLog : a.id = row.id
    THEN UNCHANGED <<auditLog, faults>>
    ELSE \/ auditLog' = auditLog \cup {row} /\ UNCHANGED faults
         \/ Fault /\ UNCHANGED auditLog

Audit(r) ==
    /\ pc[r] = "audit"
    /\ PersistAudit(AuditRow(r, IF stop[r] = "end_turn" THEN "SUCCESS" ELSE "PARTIAL"))
    /\ Goto(r, "charge")
    /\ UNCHANGED <<ask, conv, seq, stop, history, owner, messages, charged>>

\* Wrong on purpose: only complete answers are charged.
ChargeComplete(r) ==
    /\ pc[r] = "charge"
    /\ charged' = IF stop[r] = "end_turn" THEN charged \cup {r} ELSE charged
    /\ Goto(r, "detokenize")
    /\ UNCHANGED <<ask, conv, seq, stop, history, owner, messages, auditLog, faults>>

\* limiter.record_tokens
Charge(r) ==
    /\ pc[r] = "charge"
    /\ charged' = charged \cup {r}
    /\ Goto(r, "detokenize")
    /\ UNCHANGED <<ask, conv, seq, stop, history, owner, messages, auditLog, faults>>

\* detokenize_text and the 200.
Answer(r) ==
    /\ pc[r] = "detokenize"
    /\ Goto(r, "answered")
    /\ UNCHANGED <<ask, conv, seq, stop, history, owner, messages, auditLog, charged, faults>>

\* _persist_failure_audit and the 500 or 503.
AuditFailure(r) ==
    /\ pc[r] = "auditFailure"
    /\ PersistAudit(AuditRow(r, "ERROR"))
    /\ Goto(r, "failed")
    /\ UNCHANGED <<ask, conv, seq, stop, history, owner, messages, charged>>

-----------------------------------------------------------------------------
(* Failure.                                                                *)

\* A database call raises without effect, outside any try block: a bare 500.
DatabaseRaises(r) ==
    /\ pc[r] \in {"resolve", "load", "readUser", "putUser", "readReply", "putReply",
                  "touch", "detokenize"}
    /\ Fault
    /\ Goto(r, "failed")
    /\ UNCHANGED <<ask, conv, seq, stop, history, owner, messages, auditLog, charged>>

\* The process dies: every coroutine is gone, the tables stay.
Crash ==
    /\ InFlight # {}
    /\ Fault
    /\ pc' = [r \in Requests |-> IF pc[r] \in Awaiting THEN "lost" ELSE pc[r]]
    /\ UNCHANGED <<ask, conv, seq, stop, history, owner, messages, auditLog, charged>>

AllEnded == \A r \in Requests : pc[r] \in Ended
Finished == AllEnded /\ UNCHANGED vars

Request(r) ==
    \/ \E t \in Tenants, c \in Conversations \cup {NoConv}, id \in CallerIds \cup {r} :
           Arrive(r, t, c, id)
    \/ ResolveKnown(r)
    \/ \E c \in Conversations : ResolveNew(r, c)
    \/ LoadHistory(r)
    \/ \E s \in Stops : Converse(r, s)
    \/ ConverseRaises(r)
    \/ AppendUser(r)
    \/ AppendReply(r)
    \/ Touch(r)
    \/ Audit(r)
    \/ Charge(r)
    \/ Answer(r)
    \/ AuditFailure(r)
    \/ DatabaseRaises(r)

Next == (\E r \in Requests : Request(r)) \/ Crash \/ Finished

Spec == Init /\ [][Next]_vars

-----------------------------------------------------------------------------
(* Properties.                                                             *)

MessageRows == [seq : Nat \ {0}, role : Roles, req : Requests]
AuditRows == [id : CallerIds \cup Requests, req : Requests, conv : Conversations,
              status : {"SUCCESS", "PARTIAL", "ERROR"}]

TypeOK ==
    /\ pc \in [Requests -> {"new"} \cup Awaiting \cup Ended]
    /\ ask \in [Requests -> [tenant : Tenants \cup {NoTenant},
                             conv : Conversations \cup {NoConv},
                             id : CallerIds \cup Requests \cup {NoConv}]]
    /\ conv \in [Requests -> Conversations \cup {NoConv}]
    /\ seq \in [Requests -> Nat]
    /\ stop \in [Requests -> Stops]
    /\ history \in [Requests -> Seq(MessageRows)]
    /\ owner \in [Conversations -> Tenants \cup {NoTenant}]
    /\ messages \in [Conversations -> Seq(MessageRows)]
    /\ auditLog \subseteq AuditRows
    /\ charged \subseteq Requests
    /\ faults \in Nat

\* Concurrent appends may read the same MAX, fail or be lost in a crash, but the
\* numbers of a conversation never skip one: append_message fills 1, 2, 3 ...
SequencesGapless ==
    \A c \in Conversations :
        {messages[c][i].seq : i \in DOMAIN messages[c]} = 1..MaxSeq(messages[c])

\* A stored reply always has its own question stored before it, under a smaller
\* number, whatever other requests append to the conversation meanwhile: sorting
\* by sequence never shows an answer ahead of what it answers.
ReplyFollowsQuestion ==
    \A c \in Conversations : \A i \in DOMAIN messages[c] :
        messages[c][i].role = "assistant" =>
            \E j \in 1..(i - 1) : /\ messages[c][j].role = "user"
                                  /\ messages[c][j].req = messages[c][i].req
                                  /\ messages[c][j].seq < messages[c][i].seq

\* Only the tenant that owns a conversation ever writes to it, and no request is
\* given as memory a message another tenant's request wrote.
TenantIsolation ==
    /\ \A c \in Conversations : \A i \in DOMAIN messages[c] :
           ask[messages[c][i].req].tenant = owner[c]
    /\ \A r \in Requests : \A k \in DOMAIN history[r] :
           ask[history[r][k].req].tenant = ask[r].tenant

StoredBy(r, role) ==
    \E c \in Conversations : \E i \in DOMAIN messages[c] :
        messages[c][i].req = r /\ messages[c][i].role = role

\* The audit log never contradicts the message store: a turn audited as SUCCESS
\* or PARTIAL has both messages stored, one audited as ERROR left none behind.
AuditMatchesStore ==
    \A a \in auditLog :
        IF a.status = "ERROR"
        THEN \A role \in Roles : ~StoredBy(a.req, role)
        ELSE \A role \in Roles : StoredBy(a.req, role)

\* Tokens are charged for exactly the turns that were stored whole and got past
\* the audit, answered or not: no answer goes out uncharged, and no half-stored
\* turn is charged.
ChargedTurnsAreWhole ==
    \A r \in Requests :
        /\ pc[r] \in {"detokenize", "answered"} => r \in charged
        /\ r \in charged => \A role \in Roles : StoredBy(r, role)

\* The comment of load_recent_messages: the history handed to the model is made
\* of whole turns, each one user message and the assistant message answering it.
\* Two requests at a time on one conversation already break it.
HistoryIsTurns ==
    \A r \in Requests :
        /\ Len(history[r]) % 2 = 0
        /\ \A k \in 1..(Len(history[r]) \div 2) :
               /\ history[r][2 * k - 1].role = "user"
               /\ history[r][2 * k].role = "assistant"
               /\ history[r][2 * k - 1].req = history[r][2 * k].req

Audited(r) == \E a \in auditLog : a.req = r

\* The API reference says that every /chat request, success or failure, writes a
\* row to the audit log; a database error outside the conversation loop does not.
EveryEndAudited ==
    \A r \in Requests : pc[r] \in {"answered", "failed"} => Audited(r)
=============================================================================

--------------------------- MODULE ChatTurnProofs ---------------------------
(***************************************************************************)
(* Proofs about ChatTurn, for any number of requests, tenants,             *)
(* conversations and faults.                                               *)
(***************************************************************************)
EXTENDS ChatTurn, TLAPS

\* Where a request has no message stored yet, and where it knows its conversation.
Before == {"new", "resolve", "load", "converse", "readUser", "putUser", "auditFailure"}
Resolved == (Awaiting \ {"resolve"}) \cup {"answered"}
Stored == {"touch", "audit", "charge", "detokenize", "answered"}

SeqsOf(rows) == {rows[i].seq : i \in DOMAIN rows}

Identified ==
    \A r \in Requests : pc[r] # "new" =>
        ask[r].tenant \in Tenants /\ ask[r].id \in CallerIds \cup Requests

\* A request past _resolve_conversation works on a conversation of its tenant.
Placed ==
    \A r \in Requests : pc[r] \in Resolved =>
        conv[r] \in Conversations /\ owner[conv[r]] = ask[r].tenant

Numbered == \A c \in Conversations : \E m \in Nat : SeqsOf(messages[c]) = 1..m

\* The number read is one more than a number that is stored, however old it is.
NumberFits ==
    \A r \in Requests : pc[r] \in {"putUser", "putReply"} =>
        seq[r] \in Nat \ {0} /\ (seq[r] = 1 \/ seq[r] - 1 \in SeqsOf(messages[conv[r]]))

RowsOwned ==
    \A c \in Conversations : \A i \in DOMAIN messages[c] :
        pc[messages[c][i].req] \notin Before /\ ask[messages[c][i].req].tenant = owner[c]

HistoryOwned ==
    \A r \in Requests :
        /\ pc[r] = "new" => history[r] = <<>>
        /\ \A k \in DOMAIN history[r] :
               pc[history[r][k].req] # "new" /\ ask[history[r][k].req].tenant = ask[r].tenant

QuestionOf(r, row) == row.role = "user" /\ row.req = r

\* A request that is about to store its reply has stored its question, and the
\* number it read for the reply is larger.
Questioned ==
    \A r \in Requests : pc[r] \in {"readReply", "putReply"} =>
        \E j \in DOMAIN messages[conv[r]] :
            /\ QuestionOf(r, messages[conv[r]][j])
            /\ pc[r] = "putReply" => messages[conv[r]][j].seq < seq[r]

Whole ==
    \A r \in Requests : pc[r] \in Stored \/ r \in charged =>
        \A role \in Roles : StoredBy(r, role)

AnswersCharged == \A r \in Requests : pc[r] \in {"detokenize", "answered"} => r \in charged

AuditFollowsStore ==
    \A a \in auditLog :
        IF a.status = "ERROR"
        THEN pc[a.req] = "failed" /\ \A role \in Roles : ~StoredBy(a.req, role)
        ELSE \A role \in Roles : StoredBy(a.req, role)

\* The inductive invariant.
IInv ==
    /\ TypeOK
    /\ Identified
    /\ Placed
    /\ Numbered
    /\ NumberFits
    /\ RowsOwned
    /\ HistoryOwned
    /\ Questioned
    /\ ReplyFollowsQuestion
    /\ Whole
    /\ AnswersCharged
    /\ AuditFollowsStore

-----------------------------------------------------------------------------
(* Sequences of message rows.                                              *)

\* MaxSeq of rows numbered without a gap is their largest number.
LEMMA MaxSeqIsTop ==
    ASSUME NEW rows \in Seq(MessageRows), NEW m \in Nat, SeqsOf(rows) = 1..m
    PROVE  MaxSeq(rows) = m
<1>0. DOMAIN rows = 1..Len(rows) /\ Len(rows) \in Nat
  OBVIOUS
<1>1. CASE rows = <<>>
  <2>1. SeqsOf(rows) = {}
    BY <1>1 DEF SeqsOf
  <2>2. m >= 1 => 1 \in SeqsOf(rows)
    OBVIOUS
  <2>3. m = 0
    BY <2>1, <2>2
  <2> QED BY <1>1, <2>3 DEF MaxSeq
<1>2. CASE rows # <<>>
  <2>1. 1 \in DOMAIN rows /\ rows[1].seq \in SeqsOf(rows)
    BY <1>2 DEF SeqsOf
  <2>2. m >= 1 /\ m \in SeqsOf(rows)
    BY <2>1
  <2>3. \A i \in 1..Len(rows) : rows[i].seq \in 1..m
    BY <1>0 DEF SeqsOf
  <2>4. m \in {rows[i].seq : i \in 1..Len(rows)}
    BY <1>0, <2>2 DEF SeqsOf
  <2>5. \A n \in {rows[i].seq : i \in 1..Len(rows)} :
            (\A i \in 1..Len(rows) : rows[i].seq <= n) => n = m
    BY <2>3, <2>4
  <2>6. \A i \in 1..Len(rows) : rows[i].seq <= m
    BY <2>3
  <2> QED BY <1>2, <2>4, <2>5, <2>6 DEF MaxSeq
<1> QED BY <1>1, <1>2

\* Appending a row keeps the rows before it and adds its number.
LEMMA AppendRow ==
    ASSUME NEW rows \in Seq(MessageRows), NEW row \in MessageRows
    PROVE  /\ Append(rows, row) \in Seq(MessageRows)
           /\ DOMAIN Append(rows, row) = DOMAIN rows \cup {Len(rows) + 1}
           /\ \A i \in DOMAIN rows : Append(rows, row)[i] = rows[i]
           /\ Append(rows, row)[Len(rows) + 1] = row
           /\ Len(rows) + 1 \notin DOMAIN rows
           /\ SeqsOf(Append(rows, row)) = SeqsOf(rows) \cup {row.seq}
<1>1. /\ Append(rows, row) \in Seq(MessageRows)
      /\ DOMAIN Append(rows, row) = DOMAIN rows \cup {Len(rows) + 1}
      /\ Len(rows) + 1 \notin DOMAIN rows
  OBVIOUS
<1>2. \A i \in DOMAIN rows : Append(rows, row)[i] = rows[i]
  OBVIOUS
<1>3. Append(rows, row)[Len(rows) + 1] = row
  OBVIOUS
<1> HIDE DEF MessageRows
<1>4. SeqsOf(Append(rows, row)) = SeqsOf(rows) \cup {row.seq}
  BY <1>1, <1>2, <1>3, Zenon DEF SeqsOf
<1> QED BY <1>1, <1>2, <1>3, <1>4

\* What load_recent_messages returns is made of rows of the conversation.
LEMMA NewestAreRows ==
    ASSUME NEW rows \in Seq(MessageRows), NEW limit \in Nat, NEW h \in Newest(rows, limit)
    PROVE  /\ h \in Seq(MessageRows)
           /\ \A k \in DOMAIN h : \E i \in DOMAIN rows : h[k] = rows[i]
<1> DEFINE n == IF Len(rows) < limit THEN Len(rows) ELSE limit
<1>1. n \in Nat
  OBVIOUS
<1>2. PICK p \in [1..n -> 1..Len(rows)] : h = [k \in 1..n |-> rows[p[k]]]
  BY DEF Newest
<1>3. \A k \in 1..n : p[k] \in DOMAIN rows /\ rows[p[k]] \in MessageRows
  BY <1>1
<1>4. h \in [1..n -> MessageRows]
  BY <1>2, <1>3
<1>5. DOMAIN h = 1..n
  BY <1>2
<1> QED BY <1>1, <1>2, <1>3, <1>4, <1>5

-----------------------------------------------------------------------------
(* The steps of a request.                                                 *)

\* The empty tables satisfy the invariant.
LEMMA InitIInv == Init => IInv
<1> SUFFICES ASSUME Init PROVE IInv
  OBVIOUS
<1> USE DEF Init
<1>1. TypeOK
  BY TurnsAssumption DEF TypeOK, NoAsk, Stops
<1>2. Numbered
  <2>1. \A c \in Conversations : SeqsOf(messages[c]) = 1..0
    BY DEF SeqsOf
  <2> QED BY <2>1 DEF Numbered
<1>3. /\ Identified /\ Placed /\ NumberFits /\ RowsOwned /\ HistoryOwned /\ Questioned
      /\ ReplyFollowsQuestion /\ AnswersCharged
  BY DEF Identified, Placed, NumberFits, RowsOwned, HistoryOwned, Questioned,
         ReplyFollowsQuestion, AnswersCharged, Resolved, Awaiting
<1>4. Whole /\ AuditFollowsStore
  BY DEF Whole, Stored, AuditFollowsStore
<1> QED BY <1>1, <1>2, <1>3, <1>4 DEF IInv

\* Where no message is stored, the numbers and the order of replies stay as they are.
LEMMA SameMessages ==
    ASSUME Numbered, ReplyFollowsQuestion, UNCHANGED messages
    PROVE  Numbered' /\ ReplyFollowsQuestion'
<1>1. Numbered'
  BY DEF Numbered, SeqsOf
<1>2. ReplyFollowsQuestion'
  BY Zenon DEF ReplyFollowsQuestion
<1> QED BY <1>1, <1>2

\* A step that only moves a request on, or changes its own number, its stop
\* reason, the charges or the audit log, leaves what is said of the store alone.
LEMMA MoveKeepsStore ==
    ASSUME IInv, NEW r \in Requests, NEW step \in Awaiting \cup Ended, pc[r] \in Awaiting,
           Goto(r, step), UNCHANGED <<ask, conv, history, owner, messages>>,
           pc[r] \notin Before => step \notin Before,
           step \in Resolved => pc[r] \in Resolved
    PROVE  (Identified /\ Placed /\ Numbered /\ RowsOwned /\ HistoryOwned /\ ReplyFollowsQuestion)'
<1> USE DEF IInv, Goto
<1>0. pc' = [pc EXCEPT ![r] = step] /\ pc \in [Requests -> {"new"} \cup Awaiting \cup Ended]
  BY DEF TypeOK
<1>a. pc[r] # "new" /\ step # "new"
  BY DEF Awaiting, Ended
<1>1. Identified'
  BY <1>0, <1>a DEF Identified
<1>2. Placed'
  BY <1>0 DEF Placed
<1>3. Numbered' /\ ReplyFollowsQuestion'
  BY SameMessages
<1>4. RowsOwned'
  <2> SUFFICES ASSUME NEW c \in Conversations, NEW i \in DOMAIN messages[c]
               PROVE  pc'[messages[c][i].req] \notin Before
                      /\ ask[messages[c][i].req].tenant = owner[c]
    BY DEF RowsOwned
  <2>1. messages[c] \in Seq(MessageRows) /\ messages[c][i] \in MessageRows
    BY DEF TypeOK
  <2>2. messages[c][i].req \in Requests
    BY <2>1 DEF MessageRows
  <2> QED BY <1>0, <2>2 DEF RowsOwned
<1>5. HistoryOwned'
  <2> SUFFICES ASSUME NEW q \in Requests
               PROVE  /\ pc'[q] = "new" => history[q] = <<>>
                      /\ \A k \in DOMAIN history[q] :
                             pc'[history[q][k].req] # "new"
                             /\ ask[history[q][k].req].tenant = ask[q].tenant
    BY DEF HistoryOwned
  <2>1. pc'[q] = "new" => history[q] = <<>>
    BY <1>0, <1>a DEF HistoryOwned
  <2>2. ASSUME NEW k \in DOMAIN history[q]
        PROVE  pc'[history[q][k].req] # "new" /\ ask[history[q][k].req].tenant = ask[q].tenant
    <3>1. history[q] \in Seq(MessageRows) /\ history[q][k] \in MessageRows
      BY <2>2 DEF TypeOK
    <3>2. history[q][k].req \in Requests
      BY <3>1 DEF MessageRows
    <3> QED BY <1>0, <1>a, <2>2, <3>2 DEF HistoryOwned
  <2> QED BY <2>1, <2>2
<1> QED BY <1>1, <1>2, <1>3, <1>4, <1>5

\* The same for what is said of questions, charges and the audit log, when the
\* step does not enter the second half of the endpoint.
LEMMA MoveKeepsTurn ==
    ASSUME IInv, NEW r \in Requests, NEW step \in Awaiting \cup Ended, pc[r] \in Awaiting,
           Goto(r, step), UNCHANGED <<ask, conv, history, owner, messages, seq, auditLog, charged>>,
           pc[r] \notin Before => step \notin Before,
           step \in Resolved => pc[r] \in Resolved,
           step \notin {"putUser", "readReply", "putReply"},
           step \in Stored => pc[r] \in Stored,
           step \in {"detokenize", "answered"} => r \in charged,
           TypeOK'
    PROVE  IInv'
<1>1. (Identified /\ Placed /\ Numbered /\ RowsOwned /\ HistoryOwned /\ ReplyFollowsQuestion)'
  BY MoveKeepsStore
<1>0. pc' = [pc EXCEPT ![r] = step] /\ pc \in [Requests -> {"new"} \cup Awaiting \cup Ended]
  BY DEF IInv, TypeOK, Goto
<1>2. NumberFits'
  BY <1>0 DEF IInv, NumberFits, SeqsOf
<1>3. Questioned'
  BY <1>0 DEF IInv, Questioned
<1>4. Whole' /\ AnswersCharged'
  BY <1>0 DEF IInv, Whole, AnswersCharged, StoredBy
<1>5. AuditFollowsStore'
  BY <1>0 DEF IInv, AuditFollowsStore, StoredBy, Awaiting, TypeOK, AuditRows
<1> QED BY <1>1, <1>2, <1>3, <1>4, <1>5 DEF IInv

\* A row of a conversation is a message row, of some request.
LEMMA RowTypes ==
    ASSUME TypeOK
    PROVE  /\ \A c \in Conversations : \A i \in DOMAIN messages[c] :
                  messages[c][i] \in MessageRows /\ messages[c][i].req \in Requests
           /\ \A r \in Requests : \A k \in DOMAIN history[r] : history[r][k].req \in Requests
<1>1. ASSUME NEW c \in Conversations, NEW i \in DOMAIN messages[c]
      PROVE  messages[c][i] \in MessageRows /\ messages[c][i].req \in Requests
  <2>1. messages[c] \in Seq(MessageRows)
    BY DEF TypeOK
  <2>2. messages[c][i] \in MessageRows
    BY <2>1, <1>1
  <2> QED BY <2>2 DEF MessageRows
<1>2. ASSUME NEW r \in Requests, NEW k \in DOMAIN history[r] PROVE history[r][k].req \in Requests
  <2>1. history[r] \in Seq(MessageRows)
    BY DEF TypeOK
  <2>2. history[r][k] \in MessageRows
    BY <2>1, <1>2
  <2> QED BY <2>2 DEF MessageRows
<1> QED BY <1>1, <1>2

\* A request that has not inserted yet has no row in any conversation.
LEMMA NothingStoredBefore ==
    ASSUME TypeOK, RowsOwned, NEW r \in Requests, pc[r] \in Before
    PROVE  \A role \in Roles : ~StoredBy(r, role)
BY DEF RowsOwned, StoredBy

\* An arriving request is known to no row and to no history.
LEMMA ArriveKeeps ==
    ASSUME IInv, NEW r \in Requests, NEW t \in Tenants, NEW c \in Conversations \cup {NoConv},
           NEW id \in CallerIds \cup {r}, Arrive(r, t, c, id)
    PROVE  IInv'
<1>0. /\ pc \in [Requests -> {"new"} \cup Awaiting \cup Ended] /\ pc[r] = "new"
      /\ pc' = [pc EXCEPT ![r] = "resolve"]
      /\ ask' = [ask EXCEPT ![r] = [tenant |-> t, conv |-> c, id |-> id]]
      /\ UNCHANGED <<conv, seq, stop, history, owner, messages, auditLog, charged, faults>>
  BY DEF IInv, TypeOK, Arrive, Goto
<1>1. TypeOK'
  BY <1>0 DEF IInv, TypeOK, Awaiting
<1>2. Identified' /\ Placed' /\ NumberFits' /\ Questioned' /\ AnswersCharged' /\ Whole'
  <2>1. Identified'
    BY <1>0 DEF IInv, TypeOK, Identified
  <2>2. Placed'
    BY <1>0 DEF IInv, TypeOK, Placed, Resolved
  <2>3. NumberFits' /\ Questioned'
    BY <1>0 DEF IInv, NumberFits, Questioned, SeqsOf
  <2>4. AnswersCharged' /\ Whole'
    BY <1>0 DEF IInv, AnswersCharged, Whole, StoredBy, Stored
  <2> QED BY <2>1, <2>2, <2>3, <2>4
<1>3. RowsOwned'
  BY <1>0, RowTypes DEF IInv, TypeOK, RowsOwned, Before
<1>4. HistoryOwned'
  BY <1>0, RowTypes DEF IInv, TypeOK, HistoryOwned
<1>5. Numbered' /\ ReplyFollowsQuestion'
  BY <1>0, SameMessages DEF IInv
<1>6. AuditFollowsStore'
  BY <1>0 DEF IInv, TypeOK, AuditFollowsStore, StoredBy
<1> QED BY <1>1, <1>2, <1>3, <1>4, <1>5, <1>6 DEF IInv

\* Only a conversation of the tenant is taken, anything else is a 404.
LEMMA ResolveKnownKeeps ==
    ASSUME IInv, NEW r \in Requests, ResolveKnown(r) PROVE IInv'
<1>0. /\ pc \in [Requests -> {"new"} \cup Awaiting \cup Ended] /\ pc[r] = "resolve"
      /\ UNCHANGED <<ask, seq, stop, history, owner, messages, auditLog, charged, faults>>
  BY DEF IInv, TypeOK, ResolveKnown
<1>1. CASE ~BelongsTo(ask[r].conv, ask[r].tenant)
  <2>1. Goto(r, "notFound") /\ UNCHANGED conv
    BY <1>1 DEF ResolveKnown
  <2>2. TypeOK'
    BY <1>0, <2>1 DEF IInv, TypeOK, Goto, Ended
  <2> QED BY <1>0, <2>1, <2>2, MoveKeepsTurn DEF Before, Resolved, Stored, Awaiting, Ended
<1>2. CASE BelongsTo(ask[r].conv, ask[r].tenant)
  <2>0. pc' = [pc EXCEPT ![r] = "load"] /\ conv' = [conv EXCEPT ![r] = ask[r].conv]
    BY <1>2 DEF ResolveKnown, Goto
  <2>1. ask[r].conv \in Conversations /\ owner[ask[r].conv] = ask[r].tenant
    BY <1>2 DEF IInv, TypeOK, ResolveKnown, BelongsTo
  <2>2. TypeOK'
    BY <1>0, <2>0, <2>1 DEF IInv, TypeOK, Awaiting
  <2>3. Identified' /\ Placed'
    BY <1>0, <2>0, <2>1 DEF IInv, TypeOK, Identified, Placed
  <2>4. NumberFits' /\ Questioned'
    BY <1>0, <2>0 DEF IInv, TypeOK, NumberFits, Questioned, SeqsOf
  <2>5. AnswersCharged' /\ Whole'
    BY <1>0, <2>0 DEF IInv, AnswersCharged, Whole, StoredBy, Stored
  <2>6. RowsOwned'
    BY <1>0, <2>0, RowTypes DEF IInv, TypeOK, RowsOwned, Before
  <2>7. HistoryOwned'
    BY <1>0, <2>0, RowTypes DEF IInv, TypeOK, HistoryOwned
  <2>8. Numbered' /\ ReplyFollowsQuestion'
    BY <1>0, SameMessages DEF IInv
  <2>9. AuditFollowsStore'
    BY <1>0, <2>0 DEF IInv, TypeOK, AuditFollowsStore, StoredBy
  <2> QED BY <2>2, <2>3, <2>4, <2>5, <2>6, <2>7, <2>8, <2>9 DEF IInv
<1> QED BY <1>1, <1>2

\* A fresh conversation has no owner, hence no request and no row.
LEMMA ResolveNewKeeps ==
    ASSUME IInv, NEW r \in Requests, NEW c \in Conversations, ResolveNew(r, c) PROVE IInv'
<1>0. /\ pc \in [Requests -> {"new"} \cup Awaiting \cup Ended] /\ pc[r] = "resolve"
      /\ owner[c] = NoTenant
      /\ owner' = [owner EXCEPT ![c] = ask[r].tenant]
      /\ conv' = [conv EXCEPT ![r] = c]
      /\ pc' = [pc EXCEPT ![r] = "load"]
      /\ UNCHANGED <<ask, seq, stop, history, messages, auditLog, charged, faults>>
  BY DEF IInv, TypeOK, ResolveNew, Goto
<1>1. \A q \in Requests : pc[q] # "new" => ask[q].tenant \in Tenants
  BY DEF IInv, Identified
\* Nobody works on the conversation and nothing is stored in it.
<1>2. \A q \in Requests : pc[q] \in Resolved => conv[q] # c
  BY <1>0, <1>1, NamesAssumption DEF IInv, Placed, Resolved, Awaiting
<1>3. DOMAIN messages[c] = {}
  <2> SUFFICES ASSUME NEW i \in DOMAIN messages[c] PROVE FALSE
    OBVIOUS
  <2>1. messages[c][i].req \in Requests
    BY RowTypes DEF IInv
  <2>2. pc[messages[c][i].req] # "new" /\ ask[messages[c][i].req].tenant = owner[c]
    BY DEF IInv, RowsOwned, Before
  <2> QED BY <1>0, <1>1, <2>1, <2>2, NamesAssumption
<1>4. TypeOK'
  BY <1>0, <1>1 DEF IInv, TypeOK, Awaiting
<1>5. Identified' /\ Placed'
  BY <1>0, <1>2 DEF IInv, TypeOK, Identified, Placed
<1>6. NumberFits' /\ Questioned'
  BY <1>0 DEF IInv, TypeOK, NumberFits, Questioned, SeqsOf
<1>7. AnswersCharged' /\ Whole'
  BY <1>0 DEF IInv, AnswersCharged, Whole, StoredBy, Stored
<1>8. RowsOwned'
  BY <1>0, <1>3, RowTypes DEF IInv, TypeOK, RowsOwned, Before
<1>9. HistoryOwned'
  BY <1>0, RowTypes DEF IInv, TypeOK, HistoryOwned
<1>10. Numbered' /\ ReplyFollowsQuestion'
  BY <1>0, SameMessages DEF IInv
<1>11. AuditFollowsStore'
  BY <1>0 DEF IInv, TypeOK, AuditFollowsStore, StoredBy
<1> QED BY <1>4, <1>5, <1>6, <1>7, <1>8, <1>9, <1>10, <1>11 DEF IInv

\* The memory of a request is rows of its own conversation, so of its own tenant.
LEMMA LoadHistoryKeeps ==
    ASSUME IInv, NEW r \in Requests, LoadHistory(r) PROVE IInv'
<1>0. /\ pc \in [Requests -> {"new"} \cup Awaiting \cup Ended] /\ pc[r] = "load"
      /\ pc' = [pc EXCEPT ![r] = "converse"]
      /\ UNCHANGED <<ask, conv, seq, stop, owner, messages, auditLog, charged, faults>>
  BY DEF IInv, TypeOK, LoadHistory, Goto
<1> DEFINE rows == IF owner[conv[r]] = ask[r].tenant THEN messages[conv[r]] ELSE <<>>
<1>1. PICK h \in Newest(rows, 2 * Turns) : history' = [history EXCEPT ![r] = h]
  BY DEF LoadHistory
<1>2. conv[r] \in Conversations /\ owner[conv[r]] = ask[r].tenant
  BY <1>0 DEF IInv, Placed, Resolved, Awaiting
<1>3. rows = messages[conv[r]] /\ rows \in Seq(MessageRows)
  BY <1>2 DEF IInv, TypeOK
<1> HIDE DEF rows
<1>4. 2 * Turns \in Nat
  BY TurnsAssumption
<1>5. /\ h \in Seq(MessageRows)
      /\ \A k \in DOMAIN h : \E i \in DOMAIN rows : h[k] = rows[i]
  BY <1>1, <1>3, <1>4, NewestAreRows
<1>6. \A k \in DOMAIN h : pc[h[k].req] # "new" /\ ask[h[k].req].tenant = ask[r].tenant
  BY <1>2, <1>3, <1>5 DEF IInv, RowsOwned, Before
<1>7. \A k \in DOMAIN h : h[k].req \in Requests
  BY <1>2, <1>3, <1>5, RowTypes DEF IInv
<1>8. TypeOK'
  BY <1>0, <1>1, <1>5 DEF IInv, TypeOK, Awaiting
<1>9. Identified' /\ Placed'
  BY <1>0 DEF IInv, TypeOK, Identified, Placed, Resolved, Awaiting
<1>10. NumberFits' /\ Questioned'
  BY <1>0 DEF IInv, TypeOK, NumberFits, Questioned, SeqsOf
<1>11. AnswersCharged' /\ Whole'
  BY <1>0 DEF IInv, AnswersCharged, Whole, StoredBy, Stored
<1>12. RowsOwned'
  BY <1>0, RowTypes DEF IInv, TypeOK, RowsOwned, Before
<1>13. HistoryOwned'
  <2> SUFFICES ASSUME NEW q \in Requests
               PROVE  /\ pc'[q] = "new" => history'[q] = <<>>
                      /\ \A k \in DOMAIN history'[q] :
                             /\ pc'[history'[q][k].req] # "new"
                             /\ ask[history'[q][k].req].tenant = ask[q].tenant
    BY <1>0 DEF HistoryOwned
  <2>0. history \in [Requests -> Seq(MessageRows)]
    BY DEF IInv, TypeOK
  <2>1. CASE q = r
    BY <1>0, <1>1, <1>6, <1>7, <2>0, <2>1
  <2>2. CASE q # r
    BY <1>0, <1>1, <2>0, <2>2, RowTypes DEF IInv, HistoryOwned
  <2> QED BY <2>1, <2>2
<1>14. Numbered' /\ ReplyFollowsQuestion'
  BY <1>0, SameMessages DEF IInv
<1>15. AuditFollowsStore'
  BY <1>0 DEF IInv, TypeOK, AuditFollowsStore, StoredBy
<1> QED BY <1>8, <1>9, <1>10, <1>11, <1>12, <1>13, <1>14, <1>15 DEF IInv

\* The steps that only move a request on.
LEMMA MovesKeep ==
    ASSUME IInv, NEW r \in Requests,
           \/ \E s \in Stops : Converse(r, s)
           \/ ConverseRaises(r)
           \/ Touch(r)
           \/ Answer(r)
           \/ DatabaseRaises(r)
    PROVE  IInv'
<1> USE DEF Before, Resolved, Stored, Awaiting, Ended
<1>1. ASSUME NEW s \in Stops, Converse(r, s) PROVE IInv'
  <2>1. TypeOK'
    BY <1>1 DEF IInv, TypeOK, Converse, Goto
  <2> QED BY <1>1, <2>1, MoveKeepsTurn DEF Converse
<1>2. CASE ConverseRaises(r)
  <2>1. TypeOK'
    BY <1>2 DEF IInv, TypeOK, ConverseRaises, Goto
  <2> QED BY <1>2, <2>1, MoveKeepsTurn DEF ConverseRaises
<1>3. CASE Touch(r)
  <2>1. TypeOK'
    BY <1>3 DEF IInv, TypeOK, Touch, Goto
  <2> QED BY <1>3, <2>1, MoveKeepsTurn DEF Touch
<1>4. CASE Answer(r)
  <2>1. TypeOK'
    BY <1>4 DEF IInv, TypeOK, Answer, Goto
  <2>2. r \in charged
    BY <1>4 DEF IInv, AnswersCharged, Answer
  <2> QED BY <1>4, <2>1, <2>2, MoveKeepsTurn DEF Answer
<1>5. CASE DatabaseRaises(r)
  <2>1. faults' \in Nat
    BY <1>5 DEF IInv, TypeOK, DatabaseRaises, Fault
  <2>2. TypeOK'
    BY <1>5, <2>1 DEF IInv, TypeOK, DatabaseRaises, Goto
  <2> QED BY <1>5, <2>2, MoveKeepsTurn DEF DatabaseRaises
<1> QED BY <1>1, <1>2, <1>3, <1>4, <1>5

\* The number read fits, and is above that of the request's own question.
LEMMA ReadSequenceKeeps ==
    ASSUME IInv, NEW r \in Requests, NEW at, NEW next,
           \/ at = "readUser" /\ next = "putUser"
           \/ at = "readReply" /\ next = "putReply",
           ReadSequence(r, at, next)
    PROVE  IInv'
<1>0. /\ pc \in [Requests -> {"new"} \cup Awaiting \cup Ended] /\ pc[r] = at
      /\ pc' = [pc EXCEPT ![r] = next]
      /\ seq \in [Requests -> Nat]
      /\ seq' = [seq EXCEPT ![r] = MaxSeq(messages[conv[r]]) + 1]
      /\ UNCHANGED <<ask, conv, stop, history, owner, messages, auditLog, charged, faults>>
  BY DEF IInv, TypeOK, ReadSequence, Goto
<1>1. conv[r] \in Conversations /\ messages[conv[r]] \in Seq(MessageRows)
  BY <1>0 DEF IInv, TypeOK, Placed, Resolved, Awaiting
<1>2. PICK m \in Nat : SeqsOf(messages[conv[r]]) = 1..m
  BY <1>1 DEF IInv, Numbered
<1>3. MaxSeq(messages[conv[r]]) = m
  BY <1>1, <1>2, MaxSeqIsTop
<1>4. seq' = [seq EXCEPT ![r] = m + 1]
  BY <1>0, <1>3
<1>5. TypeOK'
  BY <1>0, <1>4 DEF IInv, TypeOK, Awaiting
<1>6. (Identified /\ Placed /\ Numbered /\ RowsOwned /\ HistoryOwned /\ ReplyFollowsQuestion)'
  BY <1>0, MoveKeepsStore DEF ReadSequence, Before, Resolved, Awaiting, Ended
<1>7. NumberFits'
  <2> SUFFICES ASSUME NEW q \in Requests, pc'[q] \in {"putUser", "putReply"}
               PROVE  /\ seq'[q] \in Nat \ {0}
                      /\ seq'[q] = 1 \/ seq'[q] - 1 \in SeqsOf(messages[conv[q]])
    BY <1>0 DEF NumberFits, SeqsOf
  <2>1. CASE q = r
    BY <1>0, <1>2, <1>4, <2>1
  <2>2. CASE q # r
    BY <1>0, <1>4, <2>2 DEF IInv, NumberFits
  <2> QED BY <2>1, <2>2
<1>8. Questioned'
  <2> SUFFICES ASSUME NEW q \in Requests, pc'[q] \in {"readReply", "putReply"}
               PROVE  \E j \in DOMAIN messages[conv[q]] :
                          /\ QuestionOf(q, messages[conv[q]][j])
                          /\ pc'[q] = "putReply" => messages[conv[q]][j].seq < seq'[q]
    BY <1>0 DEF Questioned
  <2>1. CASE q = r
    <3>1. at = "readReply"
      BY <1>0, <2>1
    <3>2. PICK j \in DOMAIN messages[conv[r]] : QuestionOf(r, messages[conv[r]][j])
      BY <1>0, <3>1 DEF IInv, Questioned
    <3>3. messages[conv[r]][j].seq \in 1..m
      BY <1>2 DEF SeqsOf
    <3>4. seq'[r] = m + 1
      BY <1>0, <1>4
    <3>5. messages[conv[r]][j].seq < seq'[r]
      BY <3>3, <3>4
    <3> QED BY <2>1, <3>2, <3>5
  <2>2. CASE q # r
    BY <1>0, <2>2 DEF IInv, Questioned
  <2> QED BY <2>1, <2>2
<1>9. Whole' /\ AnswersCharged'
  BY <1>0 DEF IInv, Whole, AnswersCharged, StoredBy, Stored
<1>10. AuditFollowsStore'
  BY <1>0 DEF IInv, AuditFollowsStore, StoredBy, TypeOK, AuditRows
<1> QED BY <1>5, <1>6, <1>7, <1>8, <1>9, <1>10 DEF IInv

\* A request charges its tokens after both its messages are stored.
LEMMA ChargeKeeps ==
    ASSUME IInv, NEW r \in Requests, Charge(r) PROVE IInv'
<1>0. /\ pc \in [Requests -> {"new"} \cup Awaiting \cup Ended] /\ pc[r] = "charge"
      /\ pc' = [pc EXCEPT ![r] = "detokenize"]
      /\ charged' = charged \cup {r}
      /\ UNCHANGED <<ask, conv, seq, stop, history, owner, messages, auditLog, faults>>
  BY DEF IInv, TypeOK, Charge, Goto
<1>1. TypeOK'
  BY <1>0 DEF IInv, TypeOK, Awaiting
<1>2. (Identified /\ Placed /\ Numbered /\ RowsOwned /\ HistoryOwned /\ ReplyFollowsQuestion)'
  BY <1>0, MoveKeepsStore DEF Charge, Before, Resolved, Awaiting, Ended
<1>3. NumberFits' /\ Questioned'
  BY <1>0 DEF IInv, NumberFits, Questioned, SeqsOf
<1>4. Whole' /\ AnswersCharged'
  BY <1>0 DEF IInv, Whole, AnswersCharged, StoredBy, Stored
<1>5. AuditFollowsStore'
  BY <1>0 DEF IInv, AuditFollowsStore, StoredBy, TypeOK, AuditRows
<1> QED BY <1>1, <1>2, <1>3, <1>4, <1>5 DEF IInv

\* A completed turn is audited after both its messages are stored.
LEMMA AuditKeeps ==
    ASSUME IInv, NEW r \in Requests, Audit(r) PROVE IInv'
<1>0. /\ pc \in [Requests -> {"new"} \cup Awaiting \cup Ended] /\ pc[r] = "audit"
      /\ pc' = [pc EXCEPT ![r] = "charge"]
      /\ UNCHANGED <<ask, conv, seq, stop, history, owner, messages, charged>>
  BY DEF IInv, TypeOK, Audit, Goto
<1>1. PICK status \in {"SUCCESS", "PARTIAL"} : PersistAudit(AuditRow(r, status))
  BY DEF Audit
<1>2. /\ auditLog' = auditLog \/ auditLog' = auditLog \cup {AuditRow(r, status)}
      /\ faults' \in Nat
  BY <1>1 DEF PersistAudit, Fault, IInv, TypeOK
<1>3. conv[r] \in Conversations /\ ask[r].id \in CallerIds \cup Requests
  BY <1>0 DEF IInv, Placed, Identified, Resolved, Awaiting
<1>4. AuditRow(r, status) \in AuditRows
  BY <1>3 DEF AuditRow, AuditRows
<1>5. TypeOK'
  BY <1>0, <1>2, <1>4 DEF IInv, TypeOK, Awaiting
<1>6. (Identified /\ Placed /\ Numbered /\ RowsOwned /\ HistoryOwned /\ ReplyFollowsQuestion)'
  BY <1>0, MoveKeepsStore DEF Audit, Before, Resolved, Awaiting, Ended
<1>7. NumberFits' /\ Questioned'
  BY <1>0 DEF IInv, NumberFits, Questioned, SeqsOf
<1>8. Whole' /\ AnswersCharged'
  BY <1>0 DEF IInv, Whole, AnswersCharged, StoredBy, Stored
<1>9. AuditFollowsStore'
  <2>1. \A role \in Roles : StoredBy(r, role)
    BY <1>0 DEF IInv, Whole, Stored
  <2>2. AuditRow(r, status).req = r /\ AuditRow(r, status).status # "ERROR"
    BY DEF AuditRow
  <2>3. \A q \in Requests, role \in Roles : StoredBy(q, role)' = StoredBy(q, role)
    BY <1>0 DEF StoredBy
  <2>4. \A a \in auditLog : a.req \in Requests /\ (pc[a.req] = "failed" => pc'[a.req] = "failed")
    BY <1>0 DEF IInv, TypeOK, AuditRows
  <2> QED BY <1>2, <2>1, <2>2, <2>3, <2>4 DEF IInv, AuditFollowsStore
<1> QED BY <1>5, <1>6, <1>7, <1>8, <1>9 DEF IInv

\* A failed conversation is audited before anything is stored, and the request ends.
LEMMA AuditFailureKeeps ==
    ASSUME IInv, NEW r \in Requests, AuditFailure(r) PROVE IInv'
<1>0. /\ pc \in [Requests -> {"new"} \cup Awaiting \cup Ended] /\ pc[r] = "auditFailure"
      /\ pc' = [pc EXCEPT ![r] = "failed"]
      /\ PersistAudit(AuditRow(r, "ERROR"))
      /\ UNCHANGED <<ask, conv, seq, stop, history, owner, messages, charged>>
  BY DEF IInv, TypeOK, AuditFailure, Goto
<1>2. /\ auditLog' = auditLog \/ auditLog' = auditLog \cup {AuditRow(r, "ERROR")}
      /\ faults' \in Nat
  BY <1>0 DEF PersistAudit, Fault, IInv, TypeOK
<1>3. conv[r] \in Conversations /\ ask[r].id \in CallerIds \cup Requests
  BY <1>0 DEF IInv, Placed, Identified, Resolved, Awaiting
<1>4. AuditRow(r, "ERROR") \in AuditRows
  BY <1>3 DEF AuditRow, AuditRows
<1>5. TypeOK'
  BY <1>0, <1>2, <1>4 DEF IInv, TypeOK, Ended
<1>6. (Identified /\ Placed /\ Numbered /\ RowsOwned /\ HistoryOwned /\ ReplyFollowsQuestion)'
  BY <1>0, MoveKeepsStore DEF AuditFailure, Before, Resolved, Awaiting, Ended
<1>7. NumberFits' /\ Questioned'
  BY <1>0 DEF IInv, NumberFits, Questioned, SeqsOf
<1>8. Whole' /\ AnswersCharged'
  BY <1>0 DEF IInv, Whole, AnswersCharged, StoredBy, Stored
<1>9. AuditFollowsStore'
  <2>1. \A role \in Roles : ~StoredBy(r, role)
    BY <1>0, NothingStoredBefore DEF IInv, Before
  <2>2. AuditRow(r, "ERROR").req = r /\ AuditRow(r, "ERROR").status = "ERROR" /\ pc'[r] = "failed"
    BY <1>0 DEF AuditRow
  <2>3. \A q \in Requests, role \in Roles : StoredBy(q, role)' = StoredBy(q, role)
    BY <1>0 DEF StoredBy
  <2>4. \A a \in auditLog : a.req \in Requests /\ (pc[a.req] = "failed" => pc'[a.req] = "failed")
    BY <1>0 DEF IInv, TypeOK, AuditRows
  <2> QED BY <1>2, <2>1, <2>2, <2>3, <2>4 DEF IInv, AuditFollowsStore
<1> QED BY <1>5, <1>6, <1>7, <1>8, <1>9 DEF IInv

\* A crash ends every request in flight and leaves the tables alone.
LEMMA CrashKeeps ==
    ASSUME IInv, Crash PROVE IInv'
<1>0. /\ pc \in [Requests -> {"new"} \cup Awaiting \cup Ended]
      /\ pc' = [r \in Requests |-> IF pc[r] \in Awaiting THEN "lost" ELSE pc[r]]
      /\ faults' \in Nat
      /\ UNCHANGED <<ask, conv, seq, stop, history, owner, messages, auditLog, charged>>
  BY DEF IInv, TypeOK, Crash, Fault
<1>1. TypeOK'
  BY <1>0 DEF IInv, TypeOK, Ended
<1>2. Identified' /\ Placed' /\ NumberFits' /\ Questioned'
  <2>1. Identified' /\ Placed'
    BY <1>0 DEF IInv, Identified, Placed, Resolved, Awaiting
  <2>2. NumberFits' /\ Questioned'
    BY <1>0 DEF IInv, NumberFits, Questioned, Awaiting
  <2> QED BY <2>1, <2>2
<1>3. RowsOwned'
  BY <1>0, RowTypes DEF IInv, RowsOwned, Before, Awaiting
<1>4. HistoryOwned'
  BY <1>0, RowTypes DEF IInv, HistoryOwned
<1>5. Numbered' /\ ReplyFollowsQuestion'
  BY <1>0, SameMessages DEF IInv
<1>6. Whole' /\ AnswersCharged'
  BY <1>0 DEF IInv, Whole, AnswersCharged, StoredBy, Stored, Awaiting
<1>7. AuditFollowsStore'
  BY <1>0 DEF IInv, AuditFollowsStore, StoredBy, TypeOK, AuditRows, Awaiting
<1> QED BY <1>1, <1>2, <1>3, <1>4, <1>5, <1>6, <1>7 DEF IInv

\* The heart of the matter: an insert puts the row of one request under a number
\* that may be stale, and whatever was stored before stays as it was.
LEMMA InsertMessageKeeps ==
    ASSUME IInv, NEW r \in Requests, NEW at, NEW role, NEW next,
           \/ at = "putUser" /\ role = "user" /\ next = "readReply"
           \/ at = "putReply" /\ role = "assistant" /\ next = "touch",
           InsertMessage(r, at, role, next)
    PROVE  IInv'
<1> DEFINE c == conv[r]
           row == Row(seq[r], role, r)
           last == Len(messages[c]) + 1
<1>0. /\ pc \in [Requests -> {"new"} \cup Awaiting \cup Ended] /\ pc[r] = at
      /\ UNCHANGED <<ask, conv, seq, stop, history, owner, auditLog, charged>>
  BY DEF IInv, TypeOK, InsertMessage
<1>1. PICK step \in {next, "failed"} : pc' = [pc EXCEPT ![r] = step]
  BY DEF InsertMessage, Goto
<1>2. faults' \in Nat
  BY DEF InsertMessage, Fault, IInv, TypeOK
<1>3. c \in Conversations /\ owner[c] = ask[r].tenant
  BY <1>0 DEF IInv, Placed, Resolved, Awaiting
<1>4. messages \in [Conversations -> Seq(MessageRows)]
  BY DEF IInv, TypeOK
<1>5. seq[r] \in Nat \ {0} /\ (seq[r] = 1 \/ seq[r] - 1 \in SeqsOf(messages[c]))
  BY <1>0 DEF IInv, NumberFits
<1>6. row \in MessageRows
  BY <1>5 DEF Row, MessageRows, Roles
<1>7. row.seq = seq[r] /\ row.role = role /\ row.req = r
  BY DEF Row
<1>8. messages' = [messages EXCEPT ![c] = Append(messages[c], row)]
  BY DEF InsertMessage
<1>9. pc[r] \in Awaiting /\ step \in Awaiting \cup Ended /\ step \notin Before
  BY <1>0, <1>1 DEF Awaiting, Ended, Before
<1> HIDE DEF c, row, last
\* The messages after the insert, in terms of those before.
<1>10. /\ messages' \in [Conversations -> Seq(MessageRows)]
       /\ \A d \in Conversations : d # c => messages'[d] = messages[d]
       /\ messages'[c] = Append(messages[c], row)
  BY <1>3, <1>4, <1>6, <1>8
<1>11. /\ DOMAIN messages'[c] = DOMAIN messages[c] \cup {last}
       /\ \A i \in DOMAIN messages[c] : messages'[c][i] = messages[c][i]
       /\ messages'[c][last] = row
       /\ last \notin DOMAIN messages[c]
       /\ SeqsOf(messages'[c]) = SeqsOf(messages[c]) \cup {seq[r]}
  BY <1>3, <1>4, <1>6, <1>7, <1>10, AppendRow DEF last
<1>12. \A d \in Conversations :
           /\ DOMAIN messages[d] \subseteq DOMAIN messages'[d]
           /\ \A i \in DOMAIN messages[d] : messages'[d][i] = messages[d][i]
           /\ SeqsOf(messages[d]) \subseteq SeqsOf(messages'[d])
  BY <1>3, <1>10, <1>11
<1>13. \A q \in Requests, o \in Roles : StoredBy(q, o) => StoredBy(q, o)'
  BY <1>12 DEF StoredBy
<1>14. StoredBy(r, role)'
  BY <1>3, <1>7, <1>11 DEF StoredBy
<1>15. TypeOK'
  BY <1>0, <1>1, <1>2, <1>9, <1>10 DEF IInv, TypeOK
<1>16. Identified' /\ Placed'
  BY <1>0, <1>1, <1>9 DEF IInv, Identified, Placed, Resolved, Awaiting
<1>17. Numbered'
  <2> SUFFICES ASSUME NEW d \in Conversations PROVE \E m \in Nat : SeqsOf(messages'[d]) = 1..m
    BY DEF Numbered, SeqsOf
  <2>1. PICK m \in Nat : SeqsOf(messages[d]) = 1..m
    BY DEF IInv, Numbered
  <2>2. CASE d # c
    BY <1>10, <2>1, <2>2
  <2>3. CASE d = c
    <3>1. SeqsOf(messages'[d]) = (1..m) \cup {seq[r]}
      BY <1>11, <2>1, <2>3
    <3>2. seq[r] \in 1..(m + 1)
      BY <1>5, <2>1, <2>3
    <3>3. CASE seq[r] <= m
      BY <3>1, <3>2, <3>3
    <3>4. CASE seq[r] = m + 1
      <4>1. SeqsOf(messages'[d]) = 1..(m + 1)
        BY <3>1, <3>4
      <4> QED BY <4>1
    <3> QED BY <3>2, <3>3, <3>4
  <2> QED BY <2>2, <2>3
<1>18. NumberFits'
  <2> SUFFICES ASSUME NEW q \in Requests, pc'[q] \in {"putUser", "putReply"}
               PROVE  /\ seq[q] \in Nat \ {0}
                      /\ seq[q] = 1 \/ seq[q] - 1 \in SeqsOf(messages'[conv[q]])
    BY <1>0 DEF NumberFits, SeqsOf
  <2>1. q # r /\ pc[q] = pc'[q]
    BY <1>0, <1>1
  <2>2. conv[q] \in Conversations
    BY <2>1 DEF IInv, Placed, Resolved, Awaiting
  <2> QED BY <1>12, <2>1, <2>2 DEF IInv, NumberFits
<1>19. RowsOwned'
  <2> SUFFICES ASSUME NEW d \in Conversations, NEW i \in DOMAIN messages'[d]
               PROVE  /\ pc'[messages'[d][i].req] \notin Before
                      /\ ask[messages'[d][i].req].tenant = owner[d]
    BY <1>0 DEF RowsOwned
  <2>1. CASE d = c /\ i = last
    BY <1>0, <1>1, <1>3, <1>7, <1>9, <1>11, <2>1
  <2>2. CASE ~(d = c /\ i = last)
    <3>1. i \in DOMAIN messages[d] /\ messages'[d][i] = messages[d][i]
      BY <1>10, <1>11, <2>2
    <3> QED BY <1>0, <1>1, <1>9, <3>1, RowTypes DEF IInv, RowsOwned
  <2> QED BY <2>1, <2>2
<1>20. HistoryOwned'
  BY <1>0, <1>1, <1>9, RowTypes DEF IInv, HistoryOwned, Before
<1>21. Questioned'
  <2> SUFFICES ASSUME NEW q \in Requests, pc'[q] \in {"readReply", "putReply"}
               PROVE  \E j \in DOMAIN messages'[conv[q]] :
                          /\ QuestionOf(q, messages'[conv[q]][j])
                          /\ pc'[q] = "putReply" => messages'[conv[q]][j].seq < seq[q]
    BY <1>0 DEF Questioned
  <2>1. CASE q = r
    <3>1. pc'[r] = "readReply" /\ role = "user"
      BY <1>0, <1>1, <2>1
    <3> QED BY <1>7, <1>11, <2>1, <3>1 DEF QuestionOf, c
  <2>2. CASE q # r
    <3>1. pc[q] = pc'[q]
      BY <1>0, <1>1, <2>2
    <3>2. conv[q] \in Conversations
      BY <3>1 DEF IInv, Placed, Resolved, Awaiting
    <3>3. PICK j \in DOMAIN messages[conv[q]] :
              /\ QuestionOf(q, messages[conv[q]][j])
              /\ pc[q] = "putReply" => messages[conv[q]][j].seq < seq[q]
      BY <3>1 DEF IInv, Questioned
    <3> QED BY <1>12, <3>1, <3>2, <3>3
  <2> QED BY <2>1, <2>2
<1>22. ReplyFollowsQuestion'
  <2> SUFFICES ASSUME NEW d \in Conversations, NEW i \in DOMAIN messages'[d],
                      messages'[d][i].role = "assistant"
               PROVE  \E j \in 1..(i - 1) : /\ messages'[d][j].role = "user"
                                            /\ messages'[d][j].req = messages'[d][i].req
                                            /\ messages'[d][j].seq < messages'[d][i].seq
    BY Zenon DEF ReplyFollowsQuestion
  <2>0. Len(messages[d]) \in Nat /\ DOMAIN messages[d] = 1..Len(messages[d])
    BY <1>4
  <2>1. CASE d = c /\ i = last
    <3>1. role = "assistant" /\ pc[r] = "putReply"
      BY <1>0, <1>7, <1>11, <2>1
    <3>2. PICK j \in DOMAIN messages[c] :
              QuestionOf(r, messages[c][j]) /\ messages[c][j].seq < seq[r]
      BY <3>1 DEF IInv, Questioned, c
    <3>3. j \in 1..(i - 1)
      BY <2>0, <2>1, <3>2 DEF last
    <3>4. messages'[c][j] = messages[c][j] /\ messages'[c][i] = row
      BY <1>11, <2>1, <3>2
    <3> QED BY <1>7, <2>1, <3>2, <3>3, <3>4 DEF QuestionOf
  <2>2. CASE ~(d = c /\ i = last)
    <3>1. i \in DOMAIN messages[d] /\ messages'[d][i] = messages[d][i]
      BY <1>10, <1>11, <2>2
    <3>2. PICK j \in 1..(i - 1) : /\ messages[d][j].role = "user"
                                  /\ messages[d][j].req = messages[d][i].req
                                  /\ messages[d][j].seq < messages[d][i].seq
      BY <3>1 DEF IInv, ReplyFollowsQuestion
    <3>3. j \in DOMAIN messages[d]
      BY <2>0, <3>1
    <3>4. messages'[d][j] = messages[d][j]
      BY <1>12, <3>3
    <3> QED BY <3>1, <3>2, <3>4
  <2> QED BY <2>1, <2>2
<1>23. Whole'
  <2> SUFFICES ASSUME NEW q \in Requests, pc'[q] \in Stored \/ q \in charged, NEW o \in Roles
               PROVE  StoredBy(q, o)'
    BY <1>0 DEF Whole
  <2>1. CASE pc[q] \in Stored \/ q \in charged
    BY <1>13, <2>1 DEF IInv, Whole
  <2>2. CASE ~(pc[q] \in Stored \/ q \in charged)
    <3>1. q = r /\ step = "touch" /\ pc[r] = "putReply" /\ role = "assistant"
      BY <1>0, <1>1, <2>2 DEF Stored
    <3>2. PICK j \in DOMAIN messages[c] : QuestionOf(r, messages[c][j])
      BY <3>1 DEF IInv, Questioned, c
    <3>3. StoredBy(r, "user")
      BY <1>3, <3>2 DEF StoredBy, QuestionOf
    <3> QED BY <1>13, <1>14, <3>1, <3>3 DEF Roles
  <2> QED BY <2>1, <2>2
<1>24. AnswersCharged'
  BY <1>0, <1>1 DEF IInv, AnswersCharged
<1>25. AuditFollowsStore'
  <2>1. \A q \in Requests, o \in Roles : q # r => (StoredBy(q, o)' <=> StoredBy(q, o))
    <3> SUFFICES ASSUME NEW q \in Requests, NEW o \in Roles, q # r, StoredBy(q, o)'
                 PROVE  StoredBy(q, o)
      BY <1>13
    <3>1. PICK d \in Conversations :
              \E i \in DOMAIN messages'[d] : messages'[d][i].req = q /\ messages'[d][i].role = o
      BY DEF StoredBy
    <3>3. PICK i \in DOMAIN messages'[d] : messages'[d][i].req = q /\ messages'[d][i].role = o
      BY <3>1
    <3>2. i \in DOMAIN messages[d] /\ messages'[d][i] = messages[d][i]
      BY <1>7, <1>10, <1>11, <3>3
    <3> QED BY <3>2, <3>3 DEF StoredBy
  <2>2. \A a \in auditLog : a.req \in Requests
    BY DEF IInv, TypeOK, AuditRows
  <2>3. \A a \in auditLog : a.status = "ERROR" => a.req # r
    BY <1>0 DEF IInv, AuditFollowsStore
  <2> QED BY <1>0, <1>1, <1>13, <2>1, <2>2, <2>3 DEF IInv, AuditFollowsStore
<1> QED BY <1>15, <1>16, <1>17, <1>18, <1>19, <1>20, <1>21, <1>22, <1>23, <1>24, <1>25 DEF IInv

-----------------------------------------------------------------------------
(* The theorems.                                                           *)

\* Every step of the specification keeps the invariant.
LEMMA NextKeeps == IInv /\ [Next]_vars => IInv'
<1> SUFFICES ASSUME IInv, [Next]_vars PROVE IInv'
  OBVIOUS
<1>1. ASSUME NEW r \in Requests, Request(r) PROVE IInv'
  <2>1. CASE \E t \in Tenants, c \in Conversations \cup {NoConv}, id \in CallerIds \cup {r} :
                 Arrive(r, t, c, id)
    BY <2>1, ArriveKeeps
  <2>2. CASE ResolveKnown(r)
    BY <2>2, ResolveKnownKeeps
  <2>3. CASE \E c \in Conversations : ResolveNew(r, c)
    BY <2>3, ResolveNewKeeps
  <2>4. CASE LoadHistory(r)
    BY <2>4, LoadHistoryKeeps
  <2>5. CASE \/ \E s \in Stops : Converse(r, s)
             \/ ConverseRaises(r)
             \/ Touch(r)
             \/ Answer(r)
             \/ DatabaseRaises(r)
    BY <2>5, MovesKeep
  <2>6. CASE AppendUser(r)
    BY <2>6, ReadSequenceKeeps, InsertMessageKeeps DEF AppendUser
  <2>7. CASE AppendReply(r)
    BY <2>7, ReadSequenceKeeps, InsertMessageKeeps DEF AppendReply
  <2>8. CASE Audit(r)
    BY <2>8, AuditKeeps
  <2>9. CASE Charge(r)
    BY <2>9, ChargeKeeps
  <2>10. CASE AuditFailure(r)
    BY <2>10, AuditFailureKeeps
  <2> QED
    BY <1>1, <2>1, <2>2, <2>3, <2>4, <2>5, <2>6, <2>7, <2>8, <2>9, <2>10 DEF Request
<1>2. CASE Crash
  BY <1>2, CrashKeeps
<1>3. CASE UNCHANGED vars
  <2>0. UNCHANGED <<pc, ask, conv, seq, stop, history, owner, messages, auditLog, charged, faults>>
    BY <1>3 DEF vars
  <2>1. TypeOK' /\ Identified' /\ Placed' /\ AnswersCharged'
    BY <2>0 DEF IInv, TypeOK, Identified, Placed, AnswersCharged
  <2>2. Numbered' /\ ReplyFollowsQuestion'
    BY <2>0, SameMessages DEF IInv
  <2>3. NumberFits' /\ Questioned'
    BY <2>0 DEF IInv, NumberFits, Questioned, SeqsOf
  <2>4. RowsOwned' /\ HistoryOwned'
    BY <2>0 DEF IInv, RowsOwned, HistoryOwned
  <2>5. Whole' /\ AuditFollowsStore'
    BY <2>0 DEF IInv, Whole, AuditFollowsStore, StoredBy
  <2> QED BY <2>1, <2>2, <2>3, <2>4, <2>5 DEF IInv
<1> QED BY <1>1, <1>2, <1>3 DEF Next, Finished

\* The invariant holds in every reachable state.
LEMMA IInvHolds == Spec => []IInv
BY InitIInv, NextKeeps, PTL DEF Spec

\* Every variable keeps its type, whatever fails and whenever the process dies.
THEOREM TypeCorrect == Spec => []TypeOK
<1>1. IInv => TypeOK
  BY DEF IInv
<1> QED BY <1>1, IInvHolds, PTL

\* append_message never leaves a gap in the numbers of a conversation, although it
\* reads the maximum and inserts in two separate calls.
THEOREM NumbersHaveNoGap == Spec => []SequencesGapless
<1>1. IInv => SequencesGapless
  <2> SUFFICES ASSUME IInv, NEW c \in Conversations
               PROVE  {messages[c][i].seq : i \in DOMAIN messages[c]} = 1..MaxSeq(messages[c])
    BY DEF SequencesGapless
  <2>1. messages[c] \in Seq(MessageRows)
    BY DEF IInv, TypeOK
  <2>2. PICK m \in Nat : SeqsOf(messages[c]) = 1..m
    BY DEF IInv, Numbered
  <2>3. MaxSeq(messages[c]) = m
    BY <2>1, <2>2, MaxSeqIsTop
  <2> QED BY <2>2, <2>3 DEF SeqsOf
<1> QED BY <1>1, IInvHolds, PTL

\* Whatever is appended in between, an answer is stored after its own question and
\* under a larger number.
THEOREM RepliesFollow == Spec => []ReplyFollowsQuestion
<1>1. IInv => ReplyFollowsQuestion
  BY DEF IInv
<1> QED BY <1>1, IInvHolds, PTL

\* No request writes to, or is given as memory, what belongs to another tenant.
THEOREM TenantsAreSeparate == Spec => []TenantIsolation
<1>1. IInv => TenantIsolation
  BY DEF IInv, RowsOwned, HistoryOwned, TenantIsolation
<1> QED BY <1>1, IInvHolds, PTL

\* The audit log never contradicts the store: a row of a completed turn has both
\* its messages, a row of an error none.
THEOREM AuditAgreesWithStore == Spec => []AuditMatchesStore
<1>1. IInv => AuditMatchesStore
  BY DEF IInv, AuditFollowsStore, AuditMatchesStore
<1> QED BY <1>1, IInvHolds, PTL

\* Only turns stored whole are charged, and no answer goes out uncharged.
THEOREM OnlyWholeTurnsAreCharged == Spec => []ChargedTurnsAreWhole
<1>1. IInv => ChargedTurnsAreWhole
  BY DEF IInv, Whole, AnswersCharged, ChargedTurnsAreWhole
<1> QED BY <1>1, IInvHolds, PTL
=============================================================================

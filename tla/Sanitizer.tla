----------------------------- MODULE Sanitizer -----------------------------
(***************************************************************************)
(* The sanitiser of api/app/security/sanitizer.py over the token map of    *)
(* api_audit.conversation_token_map.                                       *)
(*                                                                         *)
(* Tool results go to the LLM with every id under the keys sku_id, store_id *)
(* and brand_id replaced by a token of the conversation; the final text is  *)
(* stored as it is and goes to the user with every token replaced by a      *)
(* label.  An id elsewhere in a result (scope_id of compare_periods, the    *)
(* ids inside alert_id) is left as it is, and for direccion all of them     *)
(* are; what a stored reply says is read by the conversation's later        *)
(* requests, whatever their role.  The look-ups and inserts are separate    *)
(* awaits, so requests of one conversation may mint for the same entity;    *)
(* the two unique indexes of the table decide, and the loser's request      *)
(* fails.  Calls fail and the process dies at most MaxFaults times.  What   *)
(* the users type is not modelled.                                          *)
(***************************************************************************)
EXTENDS Integers, FiniteSets

CONSTANTS Requests,       (* one sanitiser each                             *)
          Conversations,
          Entities,       (* (entity_type, entity_id) pairs of the tenant,  *)
                          (* each also standing for its id in a text        *)
          Loose,          (* bound: those met outside the three keys        *)
          Named,          (* the entities the dimensions have a name for    *)
          Tokens,         (* values secrets.token_hex(4) may give           *)
          Missing,        (* no cache entry                                 *)
          MaxPayloads,    (* bound: tool results of a request               *)
          MaxInFlight,    (* bound: requests served at the same time        *)
          MaxFaults       (* bound: failed calls and crashes                *)

ASSUME SetsAssumption ==
    /\ Named \subseteq Entities
    /\ Loose \subseteq Entities
    /\ Entities \cap Tokens = {}
    /\ Missing \notin Tokens
ASSUME BoundsAssumption == MaxPayloads \in Nat /\ MaxInFlight \in Nat /\ MaxFaults \in Nat

VARIABLES pc,        (* where each request is                               *)
          conv,      (* conversation_id                                     *)
          role,      (* "direccion" or any other role                       *)
          history,   (* what load_recent_messages gave it mentions          *)
          cache,     (* _cache                                              *)
          refs,      (* entities of the payload being sanitised             *)
          lookup,    (* of those, not cached and not looked up yet          *)
          missing,   (* of those, to be minted                              *)
          seen,      (* <<entity, value>> pairs the LLM was shown under the *)
                     (* three keys                                          *)
          aside,     (* the ids its tool results had elsewhere              *)
          payloads,  (* tool results sanitised so far                       *)
          said,      (* tokens and ids in the request's final text          *)
          shown,     (* what the user reads for each of the tokens          *)
          memory,    (* what the stored replies of a conversation mention   *)
          tokenMap,  (* api_audit.conversation_token_map                    *)
          faults

\* What the requests have read and written.
texts == <<history, aside, said, shown, memory>>
\* What tokenising a payload works with.
work == <<cache, refs, lookup, missing, payloads>>
vars == <<pc, conv, role, work, seen, texts, tokenMap, faults>>

Values == Tokens \cup Entities

NoCache == [e \in Entities |-> Missing]
Working == {"llm", "find", "names", "mint", "store", "detokenize"}
InFlight == {r \in Requests : pc[r] \in Working}

Init ==
    /\ pc = [r \in Requests |-> "new"]
    /\ conv \in [Requests -> Conversations]
    /\ role \in [Requests -> {"direccion", "other"}]
    /\ history = [r \in Requests |-> {}]
    /\ cache = [r \in Requests |-> NoCache]
    /\ refs = [r \in Requests |-> {}]
    /\ lookup = [r \in Requests |-> {}]
    /\ missing = [r \in Requests |-> {}]
    /\ seen = [r \in Requests |-> {}]
    /\ aside = [r \in Requests |-> {}]
    /\ payloads = [r \in Requests |-> 0]
    /\ said = [r \in Requests |-> {}]
    /\ shown = [r \in Requests |-> {}]
    /\ memory = [c \in Conversations |-> {}]
    /\ tokenMap = {}
    /\ faults = 0

Goto(r, step) == pc' = [pc EXCEPT ![r] = step]
Fault == faults < MaxFaults /\ faults' = faults + 1

\* load_recent_messages: the conversation's replies, whatever role they were for.
Begin(r) ==
    /\ pc[r] = "new"
    /\ Cardinality(InFlight) < MaxInFlight
    /\ history' = [history EXCEPT ![r] = memory[conv[r]]]
    /\ Goto(r, "llm")
    /\ UNCHANGED <<conv, role, work, seen, aside, said, shown, memory, tokenMap, faults>>

-----------------------------------------------------------------------------
(* tokenize_payload                                                        *)

\* Wrong on purpose: an entity without a name is left as it is.
SubstituteNamed(e, known) == IF known[e] = Missing \/ e \notin Named THEN e ELSE known[e]

\* What _substitute leaves where the payload had e.
Substitute(e, known) == IF known[e] = Missing THEN e ELSE known[e]

\* Each payload ends in one of two ways: delivered to the LLM, or on to the next
\* await of _ensure_tokens.
Deliver(r, payload, known) ==
    /\ seen' = [seen EXCEPT ![r] = @ \cup {<<e, Substitute(e, known)>> : e \in payload}]
    /\ Goto(r, "llm")

GoOn(r, payload, known, rest, next) ==
    IF rest = {} THEN Deliver(r, payload, known) ELSE Goto(r, next) /\ UNCHANGED seen

\* A tool result with the ids of `payload` under the three keys and those of
\* `others` elsewhere.  Direccion gets it as it is; for the others the entities
\* already cached need no query.
ToolResult(r, payload, others) ==
    LET new == {e \in payload : cache[r][e] = Missing}
    IN  /\ pc[r] = "llm"
        /\ payloads[r] < MaxPayloads
        /\ payloads' = [payloads EXCEPT ![r] = @ + 1]
        /\ aside' = [aside EXCEPT ![r] = @ \cup others]
        /\ IF role[r] = "direccion"
           THEN /\ seen' = [seen EXCEPT ![r] = @ \cup {<<e, e>> : e \in payload}]
                /\ UNCHANGED <<pc, refs, lookup, missing>>
           ELSE /\ refs' = [refs EXCEPT ![r] = payload]
                /\ lookup' = [lookup EXCEPT ![r] = new]
                /\ missing' = [missing EXCEPT ![r] = new]
                /\ GoOn(r, payload, cache[r], new, "find")
        /\ UNCHANGED <<conv, role, cache, history, said, shown, memory, tokenMap, faults>>

\* The WHERE clause of find_token_for_entity.
RowsFor(c, e) == {row \in tokenMap : row.conv = c /\ row.entity = e}

\* One find_token_for_entity of the loop.  After the last one the payload is
\* complete, or names are fetched for what is still missing.
Find(r, e) ==
    LET found == RowsFor(conv[r], e)
        tok == IF found = {} THEN Missing ELSE (CHOOSE row \in found : TRUE).token
        left == IF found = {} THEN missing[r] ELSE missing[r] \ {e}
    IN  /\ pc[r] = "find"
        /\ e \in lookup[r]
        /\ cache' = [cache EXCEPT ![r][e] = tok]
        /\ missing' = [missing EXCEPT ![r] = left]
        /\ lookup' = [lookup EXCEPT ![r] = @ \ {e}]
        /\ IF lookup[r] # {e}
           THEN UNCHANGED <<pc, seen>>
           ELSE GoOn(r, refs[r], cache'[r], left, "names")
        /\ UNCHANGED <<conv, role, refs, payloads, texts, tokenMap, faults>>

\* fetch_display_names: its answer only depends on the dimensions.
FetchNames(r) ==
    /\ pc[r] = "names"
    /\ Goto(r, "mint")
    /\ UNCHANGED <<conv, role, work, seen, texts, tokenMap, faults>>

\* Wrong on purpose: the id stands in for a missing name.
MapRowNamedById(c, e, tok) ==
    [conv |-> c, entity |-> e, token |-> tok, named |-> IF e \in Named THEN TRUE ELSE e]

MapRow(c, e, tok) == [conv |-> c, entity |-> e, token |-> tok, named |-> e \in Named]

\* ux_token_conv_token and ux_token_conv_entity
TokenTaken(c, tok) == \E row \in tokenMap : row.conv = c /\ row.token = tok
EntityTaken(c, e) == \E row \in tokenMap : row.conv = c /\ row.entity = e

\* Wrong on purpose: a duplicate entity is taken for a success.
MintForgiving(r, e, tok) ==
    /\ pc[r] = "mint"
    /\ e \in missing[r]
    /\ ~TokenTaken(conv[r], tok)
    /\ tokenMap' = IF EntityTaken(conv[r], e) THEN tokenMap
                   ELSE tokenMap \cup {MapRow(conv[r], e, tok)}
    /\ cache' = [cache EXCEPT ![r][e] = tok]
    /\ missing' = [missing EXCEPT ![r] = @ \ {e}]
    /\ GoOn(r, refs[r], cache'[r], missing'[r], "mint")
    /\ UNCHANGED <<conv, role, refs, lookup, payloads, texts, faults>>

\* insert_token_mapping succeeds; the next entity, or the payload is delivered.
Mint(r, e, tok) ==
    /\ pc[r] = "mint"
    /\ e \in missing[r]
    /\ ~TokenTaken(conv[r], tok)
    /\ ~EntityTaken(conv[r], e)
    /\ tokenMap' = tokenMap \cup {MapRow(conv[r], e, tok)}
    /\ cache' = [cache EXCEPT ![r][e] = tok]
    /\ missing' = [missing EXCEPT ![r] = @ \ {e}]
    /\ GoOn(r, refs[r], cache'[r], missing'[r], "mint")
    /\ UNCHANGED <<conv, role, refs, lookup, payloads, texts, faults>>

\* A unique index rejects the insert; the exception ends the request, and the
\* mappings inserted before stay.
MintClash(r, e, tok) ==
    /\ pc[r] = "mint"
    /\ e \in missing[r]
    /\ TokenTaken(conv[r], tok) \/ EntityTaken(conv[r], e)
    /\ Goto(r, "failed")
    /\ UNCHANGED <<conv, role, work, seen, texts, tokenMap, faults>>

\* The insert is committed and its answer lost: the request fails all the same.
MintUnacknowledged(r, e, tok) ==
    /\ pc[r] = "mint"
    /\ e \in missing[r]
    /\ ~TokenTaken(conv[r], tok)
    /\ ~EntityTaken(conv[r], e)
    /\ Fault
    /\ tokenMap' = tokenMap \cup {MapRow(conv[r], e, tok)}
    /\ Goto(r, "failed")
    /\ UNCHANGED <<conv, role, work, seen, texts>>

-----------------------------------------------------------------------------
(* The reply: stored, then detokenize_text.                                *)

\* What a reply may mention: what its own tool results gave, as the LLM was shown
\* it, and what the earlier replies it was shown mention.
AtHand(r) == {s[2] : s \in seen[r]} \cup aside[r] \cup history[r]

\* The LLM ends its turn with a text mentioning some of it.
Reply(r, mentions) ==
    /\ pc[r] = "llm"
    /\ mentions \subseteq AtHand(r)
    /\ said' = [said EXCEPT ![r] = mentions]
    /\ Goto(r, "store")
    /\ UNCHANGED <<conv, role, work, seen, history, aside, shown, memory, tokenMap, faults>>

\* append_message of the reply, which is stored before it is de-tokenised.
Kept(r) == memory' = [memory EXCEPT ![conv[r]] = @ \cup said[r]]

Store(r) ==
    /\ pc[r] = "store"
    /\ Kept(r)
    /\ Goto(r, "detokenize")
    /\ UNCHANGED <<conv, role, work, seen, history, aside, said, shown, tokenMap, faults>>

\* The message is committed and its answer lost: the request fails, later ones
\* read the reply.
StoreUnacknowledged(r) ==
    /\ pc[r] = "store"
    /\ Fault
    /\ Kept(r)
    /\ Goto(r, "failed")
    /\ UNCHANGED <<conv, role, work, seen, history, aside, said, shown, tokenMap>>

\* by_token: the display name, or the type and the id when there is none.
Label(row) == <<IF row.named THEN "name" ELSE "id", row.entity>>

\* Wrong on purpose: only the tokens of this request are resolved.
LabelsFromCache(r, tok) ==
    {Label(row) : row \in {x \in tokenMap : /\ x.conv = conv[r] /\ x.token = tok
                                             /\ cache[r][x.entity] = tok}}

\* What load_token_map offers for a token.
Labels(r, tok) == {Label(row) : row \in {x \in tokenMap : x.conv = conv[r] /\ x.token = tok}}

Detokenize(r) ==
    /\ pc[r] = "detokenize"
    /\ shown' = [shown EXCEPT ![r] =
           {IF role[r] = "direccion" \/ Labels(r, tok) = {} THEN <<tok, <<"token", tok>>>>
            ELSE <<tok, CHOOSE l \in Labels(r, tok) : TRUE>> : tok \in said[r] \cap Tokens}]
    /\ Goto(r, "answered")
    /\ UNCHANGED <<conv, role, work, seen, history, aside, said, memory, tokenMap, faults>>

-----------------------------------------------------------------------------
\* Any call of a working request raises, to the database or to the LLM.
CallRaises(r) ==
    /\ pc[r] \in Working
    /\ Fault
    /\ Goto(r, "failed")
    /\ UNCHANGED <<conv, role, work, seen, texts, tokenMap>>

\* The process dies; the map stays.
Crash ==
    /\ InFlight # {}
    /\ Fault
    /\ pc' = [r \in Requests |-> IF pc[r] \in Working THEN "lost" ELSE pc[r]]
    /\ UNCHANGED <<conv, role, work, seen, texts, tokenMap>>

Finished == (\A r \in Requests : pc[r] \in {"answered", "failed", "lost"}) /\ UNCHANGED vars

Request(r) ==
    \/ Begin(r)
    \/ \E payload \in SUBSET Entities, others \in SUBSET Loose :
           payload \cup others # {} /\ ToolResult(r, payload, others)
    \/ \E e \in Entities : Find(r, e)
    \/ FetchNames(r)
    \/ \E e \in Entities, tok \in Tokens :
           Mint(r, e, tok) \/ MintClash(r, e, tok) \/ MintUnacknowledged(r, e, tok)
    \/ \E mentions \in SUBSET Values : Reply(r, mentions)
    \/ Store(r) \/ StoreUnacknowledged(r)
    \/ Detokenize(r)
    \/ CallRaises(r)

Next == (\E r \in Requests : Request(r)) \/ Crash \/ Finished

Spec == Init /\ [][Next]_vars

-----------------------------------------------------------------------------
(* Properties.                                                             *)

MapRows == [conv : Conversations, entity : Entities, token : Tokens, named : BOOLEAN]

TypeOK ==
    /\ pc \in [Requests -> Working \cup {"new", "answered", "failed", "lost"}]
    /\ conv \in [Requests -> Conversations]
    /\ role \in [Requests -> {"direccion", "other"}]
    /\ history \in [Requests -> SUBSET Values]
    /\ cache \in [Requests -> [Entities -> Tokens \cup {Missing}]]
    /\ refs \in [Requests -> SUBSET Entities]
    /\ lookup \in [Requests -> SUBSET Entities]
    /\ missing \in [Requests -> SUBSET Entities]
    /\ seen \in [Requests -> SUBSET (Entities \X Values)]
    /\ aside \in [Requests -> SUBSET Entities]
    /\ payloads \in [Requests -> Nat]
    /\ said \in [Requests -> SUBSET Values]
    /\ DOMAIN shown = Requests
    /\ memory \in [Conversations -> SUBSET Values]
    /\ tokenMap \subseteq MapRows
    /\ faults \in Nat

\* The ids the tools of a conversation's requests have given away: all of a
\* direccion request, and those outside the three keys.
GivenAway(c) ==
    {e \in Entities : \E q \in Requests :
        /\ conv[q] = c
        /\ e \in aside[q] \/ (role[q] = "direccion" /\ <<e, e>> \in seen[q])}

\* The LLM of a role other than direccion never finds a raw id under the three
\* keys, in whichever way (cached, found, minted) the id got its token; and a raw
\* id it has at hand was given away in its own conversation: it stood elsewhere in
\* a tool result, or it comes from a direccion request through stored replies.
RawIdsHaveASource ==
    \A r \in Requests : role[r] # "direccion" =>
        /\ \A s \in seen[r] : s[2] \in Tokens
        /\ AtHand(r) \cap Entities \subseteq GivenAway(conv[r])

\* Within a conversation a token always stands for the same entity and an entity
\* is always shown under the same token, across requests, their races for the
\* same entity, their failures and restarts.
StableTokens ==
    \A q, r \in Requests : conv[q] = conv[r] =>
        \A s \in seen[q], t \in seen[r] :
            s[2] \in Tokens /\ t[2] \in Tokens => (s[1] = t[1] <=> s[2] = t[2])

\* Every token in an answer is resolved, and to the entity the LLM saw under it,
\* also when it comes from the reply of an earlier request of the conversation.
RoundTrip ==
    \A r \in Requests : pc[r] = "answered" /\ role[r] # "direccion" =>
        \A s \in shown[r] :
            \E q \in Requests : /\ conv[q] = conv[r]
                                /\ <<s[2][2], s[1]>> \in seen[q]
=============================================================================

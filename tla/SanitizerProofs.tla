--------------------------- MODULE SanitizerProofs ---------------------------
(***************************************************************************)
(* Proofs about Sanitizer, for any requests, conversations, entities and   *)
(* tokens: the type invariant, where every raw id the LLM finds comes from, *)
(* that tokens are stable, and that answers resolve to what the LLM saw.   *)
(***************************************************************************)
EXTENDS Sanitizer, TLAPS

-----------------------------------------------------------------------------
(* The invariant.  The table is the one truth: whatever a cache holds and  *)
(* whatever the LLM was shown is a row of it, and rows only come.          *)

IsRow(c, e, tok) ==
    \E row \in tokenMap : row.conv = c /\ row.entity = e /\ row.token = tok

\* The two unique indexes.
OneToOne ==
    \A x, y \in tokenMap : x.conv = y.conv => (x.entity = y.entity <=> x.token = y.token)

CacheIsRows ==
    \A r \in Requests, e \in Entities :
        cache[r][e] # Missing => IsRow(conv[r], e, cache[r][e])

SeenIsRows ==
    \A r \in Requests : \A s \in seen[r] :
        \/ role[r] = "direccion" /\ s[2] = s[1]
        \/ s[2] \in Tokens /\ IsRow(conv[r], s[1], s[2])

\* While a payload waits, what of it is not cached is still to be minted.
Covered ==
    \A r \in Requests : pc[r] \in {"find", "names", "mint"} =>
        /\ role[r] # "direccion"
        /\ \A e \in refs[r] : cache[r][e] = Missing => e \in missing[r]

\* What the tools of a conversation's requests have shown the LLM.
Given(c, v) ==
    \E q \in Requests : conv[q] = c /\ (v \in aside[q] \/ \E e \in Entities : <<e, v>> \in seen[q])

\* Stored replies pass on what they mention, and nothing else comes in.
TextsWereGiven ==
    /\ \A c \in Conversations : \A v \in memory[c] : Given(c, v)
    /\ \A r \in Requests : \A v \in history[r] \cup said[r] : Given(conv[r], v)

IInv ==
    /\ TypeOK
    /\ OneToOne
    /\ CacheIsRows
    /\ SeenIsRows
    /\ Covered
    /\ TextsWereGiven
    /\ RoundTrip

-----------------------------------------------------------------------------
(* Operators.                                                              *)

\* Rows stay.
LEMMA RowsStay ==
    ASSUME tokenMap \subseteq tokenMap', NEW c, NEW e, NEW tok, IsRow(c, e, tok)
    PROVE  IsRow(c, e, tok)'
  BY DEF IsRow

\* What every step keeps.
Keeps ==
    /\ conv' = conv /\ role' = role
    /\ tokenMap \subseteq tokenMap'
    /\ \A q \in Requests : seen[q] \subseteq seen'[q]
    /\ \A q \in Requests : aside[q] \subseteq aside'[q]

\* A payload that is delivered shows tokens only, and of rows only, if all of it
\* is known.
LEMMA DeliverSpec ==
    ASSUME TypeOK, SeenIsRows, conv' = conv, role' = role, tokenMap \subseteq tokenMap',
           \A q \in Requests : aside[q] \subseteq aside'[q],
           NEW r \in Requests, NEW payload \in SUBSET Entities,
           NEW known \in [Entities -> Tokens \cup {Missing}],
           Deliver(r, payload, known),
           \A e \in payload : known[e] # Missing /\ IsRow(conv[r], e, known[e])'
    PROVE  /\ Keeps /\ SeenIsRows'
           /\ seen' \in [Requests -> SUBSET (Entities \X Values)]
           /\ pc' = [pc EXCEPT ![r] = "llm"]
<1> DEFINE new == {<<e, Substitute(e, known)>> : e \in payload}
<1>1. seen' = [seen EXCEPT ![r] = @ \cup new] /\ pc' = [pc EXCEPT ![r] = "llm"]
  BY DEF Deliver, Goto
<1>2. seen \in [Requests -> SUBSET (Entities \X Values)]
  BY DEF TypeOK
<1>3. \A s \in new : /\ s \in Entities \X Values /\ s[2] \in Tokens
                     /\ IsRow(conv[r], s[1], s[2])'
  <2>1. SUFFICES ASSUME NEW e \in payload
                 PROVE  /\ Substitute(e, known) \in Tokens
                        /\ IsRow(conv[r], e, Substitute(e, known))'
    BY DEF Values
  <2>2. Substitute(e, known) = known[e] /\ known[e] \in Tokens
    BY DEF Substitute
  <2>3. QED
    BY <2>2
<1> HIDE DEF new
<1>4. \A q \in Requests : seen'[q] = IF q = r THEN seen[q] \cup new ELSE seen[q]
  BY <1>1, <1>2
<1>5. seen' \in [Requests -> SUBSET (Entities \X Values)]
  BY <1>1, <1>2, <1>3
<1>6. Keeps
  BY <1>2, <1>4, <1>5 DEF Keeps
<1>7. SeenIsRows'
  <2>1. SUFFICES ASSUME NEW q \in Requests, NEW s \in seen'[q]
                 PROVE  \/ role[q] = "direccion" /\ s[2] = s[1]
                        \/ s[2] \in Tokens /\ IsRow(conv[q], s[1], s[2])'
    BY DEF SeenIsRows
  <2>2. CASE s \in seen[q]
    <3>1. \/ role[q] = "direccion" /\ s[2] = s[1]
          \/ s[2] \in Tokens /\ IsRow(conv[q], s[1], s[2])
      BY <2>2 DEF SeenIsRows
    <3>2. QED
      BY <3>1, RowsStay
  <2>3. CASE s \notin seen[q]
    BY <1>3, <1>4, <2>1, <2>3
  <2>4. QED
    BY <2>2, <2>3
<1>8. QED
  BY <1>1, <1>5, <1>6, <1>7

\* Where that leaves the request.
Carries(r) ==
    /\ Keeps /\ SeenIsRows'
    /\ seen' \in [Requests -> SUBSET (Entities \X Values)]
    /\ \E step \in {"llm", "find", "names", "mint"} : pc' = [pc EXCEPT ![r] = step]

\* A payload either is delivered, when nothing of it is left, or waits.
LEMMA GoOnSpec ==
    ASSUME TypeOK, SeenIsRows, conv' = conv, role' = role, tokenMap \subseteq tokenMap',
           \A q \in Requests : aside[q] \subseteq aside'[q],
           NEW r \in Requests, NEW payload \in SUBSET Entities,
           NEW known \in [Entities -> Tokens \cup {Missing}], NEW rest \in SUBSET Entities,
           NEW next \in {"find", "names", "mint"},
           GoOn(r, payload, known, rest, next),
           \A f \in Entities : known[f] # Missing => IsRow(conv[r], f, known[f])',
           \A e \in payload : known[e] = Missing => e \in rest
    PROVE  Carries(r)
<1>1. CASE rest = {}
  BY <1>1, DeliverSpec DEF GoOn, Carries
<1>2. CASE rest # {}
  <2>1. seen' = seen /\ pc' = [pc EXCEPT ![r] = next]
    BY <1>2 DEF GoOn, Goto
  <2>2. SeenIsRows'
    BY <2>1, RowsStay DEF SeenIsRows
  <2>3. QED
    BY <1>2, <2>1, <2>2 DEF Keeps, TypeOK, Carries
<1>3. QED
  BY <1>1, <1>2

\* What was given stays given, and the texts with it.
LEMMA GivenStays ==
    ASSUME Keeps, NEW c, NEW v, Given(c, v)
    PROVE  Given(c, v)'
  BY DEF Given, Keeps

LEMMA TextsStay ==
    ASSUME TextsWereGiven, Keeps, UNCHANGED <<history, said, memory>>
    PROVE  TextsWereGiven'
<1>1. \A c \in Conversations : \A v \in memory'[c] : Given(c, v)'
  BY GivenStays DEF TextsWereGiven
<1>2. \A r \in Requests : \A v \in history'[r] \cup said'[r] : Given(conv[r], v)'
  <2>1. SUFFICES ASSUME NEW r \in Requests, NEW v \in history[r] \cup said[r]
                 PROVE  Given(conv[r], v)'
    OBVIOUS
  <2>2. Given(conv[r], v)
    BY DEF TextsWereGiven
  <2>3. QED
    BY <2>2 DEF Given, Keeps
<1>3. QED
  BY <1>1, <1>2 DEF TextsWereGiven

LEMMA RoundTripStays ==
    ASSUME RoundTrip, Keeps, shown' = shown,
           \A r \in Requests : pc'[r] = "answered" => pc[r] = "answered"
    PROVE  RoundTrip'
  BY DEF RoundTrip, Keeps

\* A cache that only changes in one entry, to a row.
LEMMA CacheStays ==
    ASSUME CacheIsRows, TypeOK, conv' = conv, tokenMap \subseteq tokenMap',
           NEW r \in Requests, NEW e \in Entities, NEW tok \in Tokens \cup {Missing},
           cache' = [cache EXCEPT ![r][e] = tok],
           tok # Missing => IsRow(conv[r], e, tok)'
    PROVE  /\ CacheIsRows'
           /\ cache' \in [Requests -> [Entities -> Tokens \cup {Missing}]]
           /\ \A q \in Requests, f \in Entities :
                  cache'[q][f] = IF q = r /\ f = e THEN tok ELSE cache[q][f]
           /\ \A q \in Requests \ {r} : cache'[q] = cache[q]
<1>1. \A q \in Requests, f \in Entities :
         cache'[q][f] = IF q = r /\ f = e THEN tok ELSE cache[q][f]
  BY DEF TypeOK
<1>2. CacheIsRows'
  BY <1>1, RowsStay DEF CacheIsRows
<1>3. cache' \in [Requests -> [Entities -> Tokens \cup {Missing}]]
  BY DEF TypeOK
<1>4. \A q \in Requests \ {r} : cache'[q] = cache[q]
  BY DEF TypeOK
<1>5. QED
  BY <1>1, <1>2, <1>3, <1>4

-----------------------------------------------------------------------------
(* Steps.                                                                  *)

\* A row that neither index rejects.
LEMMA RowAdded ==
    ASSUME TypeOK, OneToOne, NEW c \in Conversations, NEW e \in Entities, NEW tok \in Tokens,
           ~TokenTaken(c, tok), ~EntityTaken(c, e),
           tokenMap' = tokenMap \cup {MapRow(c, e, tok)}
    PROVE  /\ tokenMap' \subseteq MapRows /\ OneToOne' /\ IsRow(c, e, tok)'
           /\ tokenMap \subseteq tokenMap'
<1> DEFINE new == MapRow(c, e, tok)
<1>1. (e \in Named) \in BOOLEAN
  OBVIOUS
<1>2. new \in MapRows /\ new.conv = c /\ new.entity = e /\ new.token = tok
  BY <1>1 DEF MapRow, MapRows
<1> HIDE DEF new
<1>3. \A x \in tokenMap : x.conv = c => x.entity # e /\ x.token # tok
  BY DEF TokenTaken, EntityTaken
<1>4. OneToOne'
  <2>1. SUFFICES ASSUME NEW x \in tokenMap', NEW y \in tokenMap', x.conv = y.conv
                 PROVE  x.entity = y.entity <=> x.token = y.token
    BY DEF OneToOne
  <2>2. /\ x \in tokenMap \/ x = new
        /\ y \in tokenMap \/ y = new
    BY DEF new
  <2>3. CASE x \in tokenMap /\ y \in tokenMap
    BY <2>1, <2>3 DEF OneToOne
  <2>4. CASE x = new /\ y = new
    BY <2>4
  <2>5. CASE x \in tokenMap /\ y = new
    BY <1>2, <1>3, <2>1, <2>5
  <2>6. CASE x = new /\ y \in tokenMap
    BY <1>2, <1>3, <2>1, <2>6
  <2>7. QED
    BY <2>2, <2>3, <2>4, <2>5, <2>6
<1>5. tokenMap' \subseteq MapRows
  BY <1>2 DEF TypeOK, new
<1>6. new \in tokenMap' /\ tokenMap \subseteq tokenMap'
  BY DEF new
<1>7. IsRow(c, e, tok)'
  BY <1>2, <1>6 DEF IsRow
<1>8. QED
  BY <1>4, <1>5, <1>6, <1>7

\* A step that only moves requests, and to no wait and no answer they were not in.
LEMMA Moves ==
    ASSUME IInv,
           UNCHANGED <<conv, role, cache, refs, lookup, missing, seen, payloads>>,
           UNCHANGED <<aside, said, shown, memory>>, TextsWereGiven',
           history' \in [Requests -> SUBSET Values],
           tokenMap \subseteq tokenMap', tokenMap' \subseteq MapRows, OneToOne',
           pc' \in [Requests -> Working \cup {"new", "answered", "failed", "lost"}],
           faults' \in Nat,
           \A q \in Requests :
               /\ pc'[q] = "answered" => pc[q] = "answered"
               /\ pc'[q] \in {"find", "names", "mint"} => pc[q] \in {"find", "names", "mint"}
    PROVE  IInv'
<1>1. Keeps
  BY DEF Keeps, IInv, TypeOK
<1>2. TypeOK'
  BY DEF IInv, TypeOK
<1>3. CacheIsRows'
  BY RowsStay DEF IInv, CacheIsRows
<1>4. SeenIsRows'
  BY RowsStay DEF IInv, SeenIsRows
<1>5. Covered'
  BY DEF IInv, Covered
<1>7. RoundTrip'
  BY <1>1, RoundTripStays DEF IInv
<1>8. QED
  BY <1>2, <1>3, <1>4, <1>5, <1>7 DEF IInv

LEMMA InvInit == Init => IInv
<1>1. SUFFICES ASSUME Init PROVE IInv
  OBVIOUS
<1>2. TypeOK
  BY <1>1 DEF Init, TypeOK, NoCache, Working
<1>3. OneToOne /\ SeenIsRows /\ Covered /\ TextsWereGiven /\ RoundTrip
  BY <1>1 DEF Init, OneToOne, SeenIsRows, Covered, TextsWereGiven, RoundTrip
<1>4. CacheIsRows
  BY <1>1 DEF Init, CacheIsRows, NoCache
<1>5. QED
  BY <1>2, <1>3, <1>4 DEF IInv

\* Begin, FetchNames, MintClash, MintUnacknowledged, CallRaises and Crash.
LEMMA MovesInv ==
    ASSUME IInv,
           \/ \E r \in Requests : \/ Begin(r) \/ FetchNames(r) \/ CallRaises(r)
                                  \/ \E e \in Entities, tok \in Tokens :
                                         MintClash(r, e, tok) \/ MintUnacknowledged(r, e, tok)
           \/ Crash
    PROVE  IInv'
<1> USE DEF Working
<1>t. TypeOK /\ OneToOne /\ tokenMap \subseteq MapRows
  BY DEF IInv, TypeOK
<1>o. ASSUME tokenMap' = tokenMap
      PROVE  tokenMap \subseteq tokenMap' /\ tokenMap' \subseteq MapRows /\ OneToOne'
  BY <1>o, <1>t DEF OneToOne
<1>f. ASSUME Fault PROVE faults' \in Nat
  BY <1>f, <1>t DEF Fault, TypeOK
<1>p. pc \in [Requests -> Working \cup {"new", "answered", "failed", "lost"}] /\ faults \in Nat
  BY <1>t DEF TypeOK
<1>s. ASSUME UNCHANGED <<conv, role, seen, texts>>, tokenMap \subseteq tokenMap'
      PROVE  TextsWereGiven' /\ history' \in [Requests -> SUBSET Values]
  <2>1. Keeps
    BY <1>s DEF Keeps, texts
  <2>2. QED
    BY <1>s, <1>t, <2>1, TextsStay DEF IInv, texts, TypeOK
<1>1. ASSUME NEW r \in Requests, Begin(r) PROVE IInv'
  <2>1. pc' = [pc EXCEPT ![r] = "llm"] /\ tokenMap' = tokenMap /\ faults' = faults
    BY <1>1 DEF Begin, Goto
  <2>2. /\ UNCHANGED <<conv, role, work, seen, aside, said, shown, memory>>
        /\ history' = [history EXCEPT ![r] = memory[conv[r]]]
    BY <1>1 DEF Begin
  <2>3. history' \in [Requests -> SUBSET Values]
    BY <1>t, <2>2 DEF TypeOK
  <2>4. Keeps
    BY <2>1, <2>2 DEF Keeps
  <2>5. TextsWereGiven'
    <3>1. \A c \in Conversations : \A v \in memory'[c] : Given(c, v)'
      BY <2>2, <2>4, GivenStays DEF IInv, TextsWereGiven
    <3>2. ASSUME NEW q \in Requests, NEW v \in history'[q] \cup said'[q]
          PROVE  Given(conv[q], v)
      <4>1. CASE v \in history[q] \cup said[q]
        BY <4>1 DEF IInv, TextsWereGiven
      <4>2. CASE v \in memory[conv[r]] /\ q = r
        BY <1>t, <4>2 DEF IInv, TextsWereGiven, TypeOK
      <4>3. history'[q] = IF q = r THEN memory[conv[r]] ELSE history[q]
        BY <1>t, <2>2 DEF TypeOK
      <4>4. QED
        BY <2>2, <3>2, <4>1, <4>2, <4>3
    <3>3. \A q \in Requests : \A v \in history'[q] \cup said'[q] : Given(conv[q], v)'
      <4>1. SUFFICES ASSUME NEW q \in Requests, NEW v \in history'[q] \cup said'[q]
                     PROVE  Given(conv[q], v)'
        OBVIOUS
      <4>2. Given(conv[q], v)
        BY <3>2
      <4>3. QED
        BY <2>4, <4>2 DEF Given, Keeps
    <3>4. QED
      BY <3>1, <3>3 DEF TextsWereGiven
  <2>6. QED
    BY <2>1, <2>2, <2>3, <2>5, <1>o, <1>p, Moves DEF work
<1>2. ASSUME NEW r \in Requests, FetchNames(r) PROVE IInv'
  <2>1. /\ pc[r] = "names" /\ pc' = [pc EXCEPT ![r] = "mint"]
        /\ tokenMap' = tokenMap /\ faults' = faults
    BY <1>2 DEF FetchNames, Goto
  <2>2. UNCHANGED <<conv, role, work, seen, texts>>
    BY <1>2 DEF FetchNames
  <2>3. QED
    BY <2>1, <2>2, <1>o, <1>p, <1>s, Moves DEF work, texts
<1>3. ASSUME NEW r \in Requests, CallRaises(r) PROVE IInv'
  <2>1. pc' = [pc EXCEPT ![r] = "failed"] /\ tokenMap' = tokenMap /\ Fault
    BY <1>3 DEF CallRaises, Goto
  <2>2. UNCHANGED <<conv, role, work, seen, texts>>
    BY <1>3 DEF CallRaises
  <2>3. QED
    BY <2>1, <2>2, <1>o, <1>f, <1>p, <1>s, Moves DEF work, texts
<1>4. ASSUME NEW r \in Requests, NEW e \in Entities, NEW tok \in Tokens, MintClash(r, e, tok)
      PROVE  IInv'
  <2>1. pc' = [pc EXCEPT ![r] = "failed"] /\ tokenMap' = tokenMap /\ faults' = faults
    BY <1>4 DEF MintClash, Goto
  <2>2. UNCHANGED <<conv, role, work, seen, texts>>
    BY <1>4 DEF MintClash
  <2>3. QED
    BY <2>1, <2>2, <1>o, <1>p, <1>s, Moves DEF work, texts
<1>5. ASSUME NEW r \in Requests, NEW e \in Entities, NEW tok \in Tokens,
             MintUnacknowledged(r, e, tok)
      PROVE  IInv'
  <2>1. /\ pc' = [pc EXCEPT ![r] = "failed"] /\ Fault
        /\ ~TokenTaken(conv[r], tok) /\ ~EntityTaken(conv[r], e)
        /\ tokenMap' = tokenMap \cup {MapRow(conv[r], e, tok)}
    BY <1>5 DEF MintUnacknowledged, Goto
  <2>2. UNCHANGED <<conv, role, work, seen, texts>>
    BY <1>5 DEF MintUnacknowledged
  <2>3. conv[r] \in Conversations
    BY <1>t DEF TypeOK
  <2>4. tokenMap' \subseteq MapRows /\ OneToOne' /\ tokenMap \subseteq tokenMap'
    BY <1>t, <2>1, <2>3, RowAdded
  <2>5. QED
    BY <2>1, <2>2, <2>4, <1>f, <1>p, <1>s, Moves DEF work, texts
<1>6. ASSUME Crash PROVE IInv'
  <2>1. /\ pc' = [r \in Requests |-> IF pc[r] \in Working THEN "lost" ELSE pc[r]]
        /\ tokenMap' = tokenMap /\ Fault
    BY <1>6 DEF Crash
  <2>2. UNCHANGED <<conv, role, work, seen, texts>>
    BY <1>6 DEF Crash
  <2>3. QED
    BY <2>1, <2>2, <1>o, <1>f, <1>p, <1>s, Moves DEF work, texts
<1>7. QED
  BY <1>1, <1>2, <1>3, <1>4, <1>5, <1>6

\* A step of r's payload: the caches are rows, and what r waits with is covered.
LEMMA PayloadInv ==
    ASSUME IInv, NEW r \in Requests, Keeps, SeenIsRows', CacheIsRows', OneToOne',
           tokenMap' \subseteq MapRows,
           seen' \in [Requests -> SUBSET (Entities \X Values)],
           cache' \in [Requests -> [Entities -> Tokens \cup {Missing}]],
           refs' \in [Requests -> SUBSET Entities],
           lookup' \in [Requests -> SUBSET Entities],
           missing' \in [Requests -> SUBSET Entities],
           payloads' \in [Requests -> Nat],
           history' = history, said' = said, shown' = shown, memory' = memory,
           aside' \in [Requests -> SUBSET Entities], faults' = faults,
           NEW step \in {"llm", "find", "names", "mint"},
           pc' = [pc EXCEPT ![r] = step],
           step # "llm" => /\ role[r] # "direccion"
                           /\ \A e \in refs'[r] : cache'[r][e] = Missing => e \in missing'[r],
           \A q \in Requests \ {r} :
               cache'[q] = cache[q] /\ refs'[q] = refs[q] /\ missing'[q] = missing[q]
    PROVE  IInv'
<1>1. pc \in [Requests -> Working \cup {"new", "answered", "failed", "lost"}]
  BY DEF IInv, TypeOK
<1>2. \A q \in Requests : pc'[q] = IF q = r THEN step ELSE pc[q]
  BY <1>1
<1>3. pc' \in [Requests -> Working \cup {"new", "answered", "failed", "lost"}]
  BY <1>1 DEF Working
<1>4. TypeOK'
  BY <1>3 DEF IInv, TypeOK, Keeps
<1>5. Covered'
  <2>1. SUFFICES ASSUME NEW q \in Requests, pc'[q] \in {"find", "names", "mint"}
                 PROVE  /\ role[q] # "direccion"
                        /\ \A e \in refs'[q] : cache'[q][e] = Missing => e \in missing'[q]
    BY DEF Covered, Keeps
  <2>2. CASE q = r
    BY <1>2, <2>1, <2>2
  <2>3. CASE q # r
    BY <1>2, <2>1, <2>3 DEF IInv, Covered
  <2>4. QED
    BY <2>2, <2>3
<1>6. TextsWereGiven'
  BY TextsStay DEF IInv
<1>7. RoundTrip'
  BY <1>2, RoundTripStays DEF IInv
<1>8. QED
  BY <1>4, <1>5, <1>6, <1>7 DEF IInv

\* A tool result comes.
LEMMA ToolResultInv ==
    ASSUME IInv, NEW r \in Requests, NEW payload \in SUBSET Entities, NEW others \in SUBSET Entities,
           ToolResult(r, payload, others)
    PROVE  IInv'
<1> DEFINE new == {e \in payload : cache[r][e] = Missing}
<1>t. TypeOK /\ SeenIsRows /\ CacheIsRows /\ OneToOne
  BY DEF IInv
<1>1. /\ pc[r] = "llm" /\ payloads' = [payloads EXCEPT ![r] = @ + 1]
      /\ conv' = conv /\ role' = role /\ cache' = cache /\ history' = history
      /\ said' = said /\ shown' = shown /\ memory' = memory
      /\ tokenMap' = tokenMap /\ faults' = faults
      /\ aside' = [aside EXCEPT ![r] = @ \cup others]
  BY DEF ToolResult
<1>a. /\ aside' \in [Requests -> SUBSET Entities]
      /\ \A q \in Requests : aside[q] \subseteq aside'[q]
  BY <1>1, <1>t DEF TypeOK
<1>2. payloads' \in [Requests -> Nat]
  BY <1>1, <1>t DEF TypeOK
<1>3. CacheIsRows' /\ OneToOne' /\ tokenMap' \subseteq MapRows /\ tokenMap \subseteq tokenMap'
  BY <1>1, <1>t DEF TypeOK, CacheIsRows, OneToOne, IsRow
<1>4. cache' \in [Requests -> [Entities -> Tokens \cup {Missing}]]
  BY <1>1, <1>t DEF TypeOK
<1>p. pc \in [Requests -> Working \cup {"new", "answered", "failed", "lost"}]
  BY <1>t DEF TypeOK
<1>5. CASE role[r] = "direccion"
  <2> DEFINE raw == {<<e, e>> : e \in payload}
  <2>1. seen' = [seen EXCEPT ![r] = @ \cup raw] /\ UNCHANGED <<pc, refs, lookup, missing>>
    BY <1>5 DEF ToolResult
  <2>2. seen \in [Requests -> SUBSET (Entities \X Values)]
    BY <1>t DEF TypeOK
  <2>3. \A s \in raw : s \in Entities \X Values /\ s[2] = s[1]
    BY DEF Values
  <2> HIDE DEF raw
  <2>4. \A q \in Requests : seen'[q] = IF q = r THEN seen[q] \cup raw ELSE seen[q]
    BY <2>1, <2>2
  <2>5. seen' \in [Requests -> SUBSET (Entities \X Values)]
    BY <2>1, <2>2, <2>3
  <2>6. Keeps
    BY <1>1, <1>a, <2>2, <2>4, <2>5 DEF Keeps
  <2>7. SeenIsRows'
    <3>1. \A q \in Requests : \A s \in seen'[q] : s \in seen[q] \/ (q = r /\ s[2] = s[1])
      BY <2>3, <2>4
    <3>2. \A q \in Requests : \A s \in seen[q] :
             \/ role'[q] = "direccion" /\ s[2] = s[1]
             \/ s[2] \in Tokens /\ IsRow(conv[q], s[1], s[2])'
      BY <1>1, <1>t DEF SeenIsRows, IsRow
    <3>3. QED
      BY <1>1, <1>5, <3>1, <3>2 DEF SeenIsRows
  <2>8. pc' = [pc EXCEPT ![r] = "llm"]
    BY <1>1, <1>p, <2>1
  <2>9. /\ refs' \in [Requests -> SUBSET Entities] /\ lookup' \in [Requests -> SUBSET Entities]
        /\ missing' \in [Requests -> SUBSET Entities]
    BY <1>t, <2>1 DEF TypeOK
  <2>10. \A q \in Requests \ {r} :
            cache'[q] = cache[q] /\ refs'[q] = refs[q] /\ missing'[q] = missing[q]
    BY <1>1, <2>1
  <2>11. QED
    BY <1>1, <1>a, <1>2, <1>3, <1>4, <2>5, <2>6, <2>7, <2>8, <2>9, <2>10, PayloadInv
<1>6. CASE role[r] # "direccion"
  <2>1. /\ refs' = [refs EXCEPT ![r] = payload]
        /\ lookup' = [lookup EXCEPT ![r] = new]
        /\ missing' = [missing EXCEPT ![r] = new]
        /\ GoOn(r, payload, cache[r], new, "find")
    BY <1>6 DEF ToolResult
  <2>2. PICK known \in [Entities -> Tokens \cup {Missing}], rest \in SUBSET Entities :
            known = cache[r] /\ rest = new
    BY <1>t DEF TypeOK
  <2>3. /\ \A e \in Entities : known[e] # Missing => IsRow(conv[r], e, known[e])'
        /\ \A e \in payload : known[e] = Missing => e \in rest
    BY <1>1, <1>t, <2>2 DEF CacheIsRows, IsRow
  <2>r. GoOn(r, payload, known, rest, "find")
    BY <2>1, <2>2
  <2>4. Carries(r)
    BY <1>1, <1>a, <1>3, <1>t, <2>3, <2>r, GoOnSpec
  <2>5. /\ refs' \in [Requests -> SUBSET Entities] /\ lookup' \in [Requests -> SUBSET Entities]
        /\ missing' \in [Requests -> SUBSET Entities]
    BY <1>t, <2>1 DEF TypeOK
  <2>6. /\ \A e \in refs'[r] : cache'[r][e] = Missing => e \in missing'[r]
        /\ \A q \in Requests \ {r} :
               cache'[q] = cache[q] /\ refs'[q] = refs[q] /\ missing'[q] = missing[q]
    BY <1>1, <1>t, <2>1 DEF TypeOK
  <2>7. QED
    BY <1>1, <1>a, <1>2, <1>3, <1>4, <1>6, <2>4, <2>5, <2>6, PayloadInv DEF Carries
<1>7. QED
  BY <1>5, <1>6

\* One entry of r's cache is filled in, and the payload goes on.
Fills(r, e, tok, left) ==
    /\ pc[r] \in {"find", "mint"}
    /\ conv' = conv /\ role' = role /\ refs' = refs /\ payloads' = payloads
    /\ UNCHANGED texts /\ faults' = faults
    /\ tokenMap \subseteq tokenMap' /\ tokenMap' \subseteq MapRows /\ OneToOne'
    /\ IF tok = Missing THEN cache[r][e] = Missing ELSE IsRow(conv[r], e, tok)'
    /\ cache' = [cache EXCEPT ![r][e] = tok]
    /\ missing' = [missing EXCEPT ![r] = left]
    /\ \A f \in missing[r] \ left : f = e /\ tok # Missing
    /\ lookup' \in [Requests -> SUBSET Entities]
    /\ \/ \E next \in {"names", "mint"} : GoOn(r, refs[r], cache'[r], left, next)
       \/ pc[r] = "find" /\ UNCHANGED <<pc, seen>>

LEMMA FillsInv ==
    ASSUME IInv, NEW r \in Requests, NEW e \in Entities, NEW tok \in Tokens \cup {Missing},
           NEW left \in SUBSET Entities, Fills(r, e, tok, left)
    PROVE  IInv'
<1>t. TypeOK /\ SeenIsRows /\ CacheIsRows
  BY DEF IInv
<1>a. /\ conv' = conv /\ role' = role /\ tokenMap \subseteq tokenMap'
      /\ aside' = aside /\ aside' \in [Requests -> SUBSET Entities]
  BY <1>t DEF Fills, texts, TypeOK
<1>b. /\ IF tok = Missing THEN cache[r][e] = Missing ELSE IsRow(conv[r], e, tok)'
      /\ cache' = [cache EXCEPT ![r][e] = tok]
      /\ missing' = [missing EXCEPT ![r] = left]
      /\ \A f \in missing[r] \ left : f = e /\ tok # Missing
  BY DEF Fills
<1>1. /\ CacheIsRows'
      /\ cache' \in [Requests -> [Entities -> Tokens \cup {Missing}]]
      /\ \A q \in Requests, f \in Entities :
             cache'[q][f] = IF q = r /\ f = e THEN tok ELSE cache[q][f]
      /\ \A q \in Requests \ {r} : cache'[q] = cache[q]
  <2>1. cache' = [cache EXCEPT ![r][e] = tok] /\ (tok # Missing => IsRow(conv[r], e, tok)')
    BY <1>b
  <2>2. QED
    BY <1>t, <1>a, <2>1, CacheStays
<1>2. PICK known \in [Entities -> Tokens \cup {Missing}] : known = cache'[r]
  BY <1>1
<1>3. PICK payload \in SUBSET Entities : payload = refs[r]
  BY <1>t DEF TypeOK
<1>4. \A f \in Entities : known[f] # Missing => IsRow(conv[r], f, known[f])'
  BY <1>1, <1>2, <1>a DEF CacheIsRows, IsRow
<1>5. missing' \in [Requests -> SUBSET Entities] /\ missing'[r] = left
      /\ \A q \in Requests \ {r} : missing'[q] = missing[q]
  BY <1>t, <1>b DEF TypeOK
<1>6. role[r] # "direccion" /\ \A f \in payload : known[f] = Missing => f \in left
  <2>1. role[r] # "direccion" /\ \A f \in refs[r] : cache[r][f] = Missing => f \in missing[r]
    BY DEF IInv, Covered, Fills
  <2>2. ASSUME NEW f \in payload, known[f] = Missing PROVE f \in left
    <3>1. CASE f = e
      <4>1. tok = Missing
        BY <1>1, <1>2, <2>2, <3>1
      <4>2. e \in missing[r]
        BY <1>3, <1>b, <2>1, <2>2, <3>1, <4>1
      <4>3. QED
        BY <1>b, <3>1, <4>1, <4>2
    <3>2. CASE f # e
      BY <1>1, <1>2, <1>3, <1>b, <2>1, <2>2, <3>2
    <3>3. QED
      BY <3>1, <3>2
  <2>3. QED
    BY <2>1, <2>2
<1>7. Carries(r)
  <2>1. ASSUME NEW next \in {"find", "names", "mint"}, GoOn(r, refs[r], cache'[r], left, next)
        PROVE  Carries(r)
    <3>1. GoOn(r, payload, known, left, next)
      BY <1>2, <1>3, <2>1
    <3>2. \A f \in payload : known[f] = Missing => f \in left
      BY <1>6
    <3>3. QED
      BY <1>t, <1>a, <1>4, <3>1, <3>2, GoOnSpec
  <2>2. CASE \E next \in {"names", "mint"} : GoOn(r, refs[r], cache'[r], left, next)
    BY <2>1, <2>2
  <2>3. CASE pc[r] = "find" /\ UNCHANGED <<pc, seen>>
    <3>1. SeenIsRows'
      BY <1>t, <1>a, <2>3, RowsStay DEF SeenIsRows
    <3>2. Keeps /\ seen' \in [Requests -> SUBSET (Entities \X Values)]
      BY <1>t, <1>a, <2>3 DEF Keeps, TypeOK
    <3>3. pc' = [pc EXCEPT ![r] = "find"]
      BY <1>t, <2>3 DEF TypeOK
    <3>4. QED
      BY <3>1, <3>2, <3>3 DEF Carries
  <2>4. QED
    BY <2>2, <2>3 DEF Fills
<1>8. /\ refs' = refs /\ refs' \in [Requests -> SUBSET Entities]
      /\ payloads' \in [Requests -> Nat] /\ lookup' \in [Requests -> SUBSET Entities]
      /\ history' = history /\ said' = said /\ shown' = shown /\ memory' = memory
      /\ faults' = faults /\ tokenMap' \subseteq MapRows /\ OneToOne'
  BY <1>t DEF TypeOK, Fills, texts
<1>9. /\ \A f \in refs'[r] : cache'[r][f] = Missing => f \in missing'[r]
      /\ \A q \in Requests \ {r} :
             cache'[q] = cache[q] /\ refs'[q] = refs[q] /\ missing'[q] = missing[q]
  BY <1>1, <1>2, <1>3, <1>5, <1>6, <1>8
<1>10. QED
  BY <1>1, <1>a, <1>5, <1>6, <1>7, <1>8, <1>9, PayloadInv DEF Carries

\* A look-up either finds a row, or there is none and the entity was not cached.
LEMMA FindInv ==
    ASSUME IInv, NEW r \in Requests, NEW e \in Entities, Find(r, e)
    PROVE  IInv'
<1> DEFINE found == RowsFor(conv[r], e)
           atok == IF found = {} THEN Missing ELSE (CHOOSE row \in found : TRUE).token
           aleft == IF found = {} THEN missing[r] ELSE missing[r] \ {e}
<1>t. TypeOK /\ CacheIsRows /\ OneToOne
  BY DEF IInv
<1>1. /\ pc[r] = "find" /\ cache' = [cache EXCEPT ![r][e] = atok]
      /\ missing' = [missing EXCEPT ![r] = aleft]
      /\ lookup' = [lookup EXCEPT ![r] = @ \ {e}]
      /\ IF lookup[r] # {e} THEN UNCHANGED <<pc, seen>>
         ELSE GoOn(r, refs[r], cache'[r], aleft, "names")
      /\ conv' = conv /\ role' = role /\ refs' = refs /\ payloads' = payloads
      /\ UNCHANGED texts /\ faults' = faults /\ tokenMap' = tokenMap
  BY DEF Find
<1>2. \A row \in found : row \in tokenMap /\ row.token \in Tokens /\ IsRow(conv[r], e, row.token)
  BY <1>t DEF RowsFor, IsRow, TypeOK, MapRows
<1>3. found # {} => (CHOOSE row \in found : TRUE) \in found
  OBVIOUS
<1>4. /\ atok \in Tokens \cup {Missing}
      /\ atok # Missing => IsRow(conv[r], e, atok)
      /\ atok = Missing <=> found = {}
  BY <1>2, <1>3, SetsAssumption
<1>5. found = {} => cache[r][e] = Missing
  <2>1. SUFFICES ASSUME cache[r][e] # Missing PROVE found # {}
    OBVIOUS
  <2>2. IsRow(conv[r], e, cache[r][e])
    BY <1>t, <2>1 DEF CacheIsRows
  <2>3. QED
    BY <2>2 DEF IsRow, RowsFor
<1>6. aleft \in SUBSET Entities /\ \A f \in missing[r] \ aleft : f = e /\ found # {}
  BY <1>t DEF TypeOK
<1> HIDE DEF found, atok, aleft
<1>7. PICK tok \in Tokens \cup {Missing}, left \in SUBSET Entities : tok = atok /\ left = aleft
  BY <1>4, <1>6
<1>8. lookup' \in [Requests -> SUBSET Entities]
  BY <1>1, <1>t DEF TypeOK
<1>9. tokenMap \subseteq tokenMap' /\ tokenMap' \subseteq MapRows /\ OneToOne'
  BY <1>1, <1>t DEF TypeOK, OneToOne
<1>10. IF tok = Missing THEN cache[r][e] = Missing ELSE IsRow(conv[r], e, tok)'
  BY <1>1, <1>4, <1>5, <1>7 DEF IsRow
<1>11. \/ \E next \in {"names", "mint"} : GoOn(r, refs[r], cache'[r], left, next)
       \/ pc[r] = "find" /\ UNCHANGED <<pc, seen>>
  <2>1. CASE lookup[r] # {e}
    BY <1>1, <2>1
  <2>2. CASE lookup[r] = {e}
    <3>1. GoOn(r, refs[r], cache'[r], left, "names")
      BY <1>1, <1>7, <2>2
    <3>2. QED
      BY <3>1
  <2>3. QED
    BY <2>1, <2>2
<1>12. Fills(r, e, tok, left)
  BY <1>1, <1>4, <1>6, <1>7, <1>8, <1>9, <1>10, <1>11 DEF Fills
<1>13. QED
  BY <1>12, FillsInv

\* A mapping is inserted.
LEMMA MintInv ==
    ASSUME IInv, NEW r \in Requests, NEW e \in Entities, NEW tok \in Tokens, Mint(r, e, tok)
    PROVE  IInv'
<1>t. TypeOK /\ OneToOne
  BY DEF IInv
<1>1. /\ pc[r] = "mint" /\ ~TokenTaken(conv[r], tok) /\ ~EntityTaken(conv[r], e)
      /\ tokenMap' = tokenMap \cup {MapRow(conv[r], e, tok)}
      /\ cache' = [cache EXCEPT ![r][e] = tok]
      /\ missing' = [missing EXCEPT ![r] = @ \ {e}]
      /\ GoOn(r, refs[r], cache'[r], missing'[r], "mint")
      /\ conv' = conv /\ role' = role /\ refs' = refs /\ lookup' = lookup
      /\ payloads' = payloads /\ UNCHANGED texts /\ faults' = faults
  BY DEF Mint
<1>2. PICK c \in Conversations : c = conv[r]
  BY <1>t DEF TypeOK
<1>3. tokenMap' \subseteq MapRows /\ OneToOne' /\ IsRow(c, e, tok)' /\ tokenMap \subseteq tokenMap'
  BY <1>t, <1>1, <1>2, RowAdded
<1>4. PICK left \in SUBSET Entities : left = missing[r] \ {e}
  BY <1>t DEF TypeOK
<1>5. missing' = [missing EXCEPT ![r] = left] /\ missing'[r] = left
  BY <1>t, <1>1, <1>4 DEF TypeOK
<1>6. GoOn(r, refs[r], cache'[r], left, "mint")
  BY <1>1, <1>5
<1>7. \E next \in {"names", "mint"} : GoOn(r, refs[r], cache'[r], left, next)
  BY <1>6
<1>8. tok # Missing /\ IsRow(conv[r], e, tok)'
  BY <1>1, <1>2, <1>3, SetsAssumption DEF IsRow
<1>9. lookup' \in [Requests -> SUBSET Entities]
  BY <1>t, <1>1 DEF TypeOK
<1>10. \A f \in missing[r] \ left : f = e /\ tok # Missing
  BY <1>4, <1>8
<1>11. Fills(r, e, tok, left)
  BY <1>1, <1>3, <1>5, <1>7, <1>8, <1>9, <1>10 DEF Fills
<1>12. QED
  BY <1>11, FillsInv

\* What is at hand was given in the conversation.
LEMMA AtHandWasGiven ==
    ASSUME IInv, NEW r \in Requests, NEW v \in AtHand(r)
    PROVE  Given(conv[r], v)
<1>1. CASE v \in {s[2] : s \in seen[r]}
  <2>1. PICK s \in seen[r] : s[2] = v
    BY <1>1
  <2>2. s \in Entities \X Values
    BY DEF IInv, TypeOK
  <2>3. s[1] \in Entities /\ s = <<s[1], v>>
    BY <2>1, <2>2
  <2>4. QED
    BY <2>3 DEF Given
<1>2. CASE v \in aside[r]
  BY <1>2 DEF Given
<1>3. CASE v \in history[r]
  BY <1>3 DEF IInv, TextsWereGiven
<1>4. QED
  BY <1>1, <1>2, <1>3 DEF AtHand

\* What is given is a token of the map or an id that was given away.
LEMMA GivenIs ==
    ASSUME IInv, NEW c \in Conversations, NEW v, Given(c, v)
    PROVE  \/ v \in GivenAway(c)
           \/ v \in Tokens /\ \E q \in Requests :
                  conv[q] = c /\ \E e \in Entities : <<e, v>> \in seen[q]
<1>1. PICK q \in Requests :
          conv[q] = c /\ (v \in aside[q] \/ \E e \in Entities : <<e, v>> \in seen[q])
  BY DEF Given
<1>2. CASE v \in aside[q]
  BY <1>1, <1>2 DEF IInv, TypeOK, GivenAway
<1>3. ASSUME NEW e \in Entities, <<e, v>> \in seen[q]
      PROVE  v \in Tokens \/ (v = e /\ role[q] = "direccion")
  BY <1>3 DEF IInv, SeenIsRows
<1>4. CASE \E e \in Entities : <<e, v>> \in seen[q]
  BY <1>1, <1>3, <1>4 DEF GivenAway
<1>5. QED
  BY <1>1, <1>2, <1>4

\* The model answers.
LEMMA ReplyInv ==
    ASSUME IInv, NEW r \in Requests, NEW mentions \in SUBSET Values, Reply(r, mentions)
    PROVE  IInv'
<1>1. /\ mentions \subseteq AtHand(r)
      /\ said' = [said EXCEPT ![r] = mentions] /\ pc' = [pc EXCEPT ![r] = "store"]
      /\ UNCHANGED <<conv, role, work, seen, history, aside, shown, memory, tokenMap, faults>>
  BY DEF Reply, Goto
<1>2. /\ pc \in [Requests -> Working \cup {"new", "answered", "failed", "lost"}]
      /\ said \in [Requests -> SUBSET Values]
  BY DEF IInv, TypeOK
<1>3. /\ \A q \in Requests : pc'[q] = IF q = r THEN "store" ELSE pc[q]
      /\ \A q \in Requests : said'[q] = IF q = r THEN mentions ELSE said[q]
  BY <1>1, <1>2
<1>4. Keeps
  BY <1>1 DEF Keeps
<1>5. TypeOK'
  <2>1. pc' \in [Requests -> Working \cup {"new", "answered", "failed", "lost"}]
    BY <1>1, <1>2 DEF Working
  <2>2. said' \in [Requests -> SUBSET Values]
    BY <1>1, <1>2
  <2>3. QED
    BY <1>1, <2>1, <2>2 DEF IInv, TypeOK, work
<1>6. OneToOne' /\ CacheIsRows' /\ SeenIsRows'
  BY <1>1 DEF IInv, OneToOne, CacheIsRows, SeenIsRows, IsRow, work
<1>7. Covered'
  BY <1>1, <1>3 DEF IInv, Covered, work
<1>8. TextsWereGiven'
  <2>1. \A c \in Conversations : \A v \in memory'[c] : Given(c, v)'
    BY <1>1, <1>4, GivenStays DEF IInv, TextsWereGiven
  <2>2. \A q \in Requests : \A v \in history[q] \cup said[q] : Given(conv[q], v)
    BY DEF IInv, TextsWereGiven
  <2>3. \A v \in mentions : Given(conv[r], v)
    BY <1>1, AtHandWasGiven
  <2>4. \A q \in Requests : \A v \in history'[q] \cup said'[q] : Given(conv[q], v)
    BY <1>1, <1>3, <2>2, <2>3
  <2>5. \A q \in Requests : \A v \in history'[q] \cup said'[q] : Given(conv[q], v)'
    <3>1. SUFFICES ASSUME NEW q \in Requests, NEW v \in history'[q] \cup said'[q]
                   PROVE  Given(conv[q], v)'
      OBVIOUS
    <3>2. Given(conv[q], v)
      BY <2>4
    <3>3. QED
      BY <1>4, <3>2 DEF Given, Keeps
  <2>6. QED
    BY <2>1, <2>5 DEF TextsWereGiven
<1>9. RoundTrip'
  BY <1>1, <1>3, <1>4, RoundTripStays DEF IInv
<1>10. QED
  BY <1>5, <1>6, <1>7, <1>8, <1>9 DEF IInv

\* The reply is stored, whether the request learns of it or not.
LEMMA StoreInv ==
    ASSUME IInv, NEW r \in Requests, Store(r) \/ StoreUnacknowledged(r)
    PROVE  IInv'
<1>1. /\ memory' = [memory EXCEPT ![conv[r]] = @ \cup said[r]]
      /\ \E step \in {"detokenize", "failed"} : pc' = [pc EXCEPT ![r] = step]
      /\ faults' \in Nat
      /\ UNCHANGED <<conv, role, work, seen, history, aside, said, shown, tokenMap>>
  BY DEF Store, StoreUnacknowledged, Kept, Goto, Fault, IInv, TypeOK
<1>2. /\ pc \in [Requests -> Working \cup {"new", "answered", "failed", "lost"}]
      /\ said \in [Requests -> SUBSET Values] /\ conv[r] \in Conversations
      /\ memory \in [Conversations -> SUBSET Values]
  BY DEF IInv, TypeOK
<1>3. /\ \A q \in Requests : pc'[q] \in {pc[q], "detokenize", "failed"}
      /\ \A c \in Conversations : memory'[c] = IF c = conv[r] THEN memory[c] \cup said[r]
                                                                ELSE memory[c]
  BY <1>1, <1>2
<1>4. Keeps
  BY <1>1 DEF Keeps
<1>5. TypeOK'
  <2>1. pc' \in [Requests -> Working \cup {"new", "answered", "failed", "lost"}]
    BY <1>1, <1>2 DEF Working
  <2>2. memory' \in [Conversations -> SUBSET Values]
    BY <1>1, <1>2
  <2>3. QED
    BY <1>1, <2>1, <2>2 DEF IInv, TypeOK, work
<1>6. OneToOne' /\ CacheIsRows' /\ SeenIsRows'
  BY <1>1 DEF IInv, OneToOne, CacheIsRows, SeenIsRows, IsRow, work
<1>7. Covered'
  BY <1>1, <1>3 DEF IInv, Covered, work
<1>8. TextsWereGiven'
  <2>1. \A c \in Conversations : \A v \in memory'[c] : Given(c, v)
    <3>1. /\ \A c \in Conversations : \A v \in memory[c] : Given(c, v)
          /\ \A v \in said[r] : Given(conv[r], v)
      BY DEF IInv, TextsWereGiven
    <3>2. ASSUME NEW c \in Conversations, NEW v \in memory'[c] PROVE Given(c, v)
      <4>1. CASE v \in memory[c]
        BY <3>1, <4>1
      <4>2. CASE c = conv[r] /\ v \in said[r]
        <5>1. Given(conv[r], v)
          BY <3>1, <4>2
        <5>2. QED
          BY <4>2, <5>1 DEF Given
      <4>3. QED
        BY <1>3, <3>2, <4>1, <4>2
    <3>3. QED
      BY <3>2
  <2>2. \A c \in Conversations : \A v \in memory'[c] : Given(c, v)'
    BY <1>4, <2>1, GivenStays
  <2>3. \A q \in Requests : \A v \in history'[q] \cup said'[q] : Given(conv[q], v)'
    <3>1. SUFFICES ASSUME NEW q \in Requests, NEW v \in history[q] \cup said[q]
                   PROVE  Given(conv[q], v)'
      BY <1>1
    <3>2. Given(conv[q], v)
      BY DEF IInv, TextsWereGiven
    <3>3. QED
      BY <1>4, <3>2 DEF Given, Keeps
  <2>4. QED
    BY <2>2, <2>3 DEF TextsWereGiven
<1>9. RoundTrip'
  BY <1>1, <1>3, <1>4, RoundTripStays DEF IInv
<1>10. QED
  BY <1>5, <1>6, <1>7, <1>8, <1>9 DEF IInv

\* A token the conversation was shown has one label: that of the entity it was
\* shown for.
LEMMA LabelsSpec ==
    ASSUME IInv, NEW q \in Requests, NEW r \in Requests, conv[q] = conv[r],
           NEW e \in Entities, NEW tok \in Tokens, <<e, tok>> \in seen[q]
    PROVE  /\ Labels(r, tok) # {}
           /\ \A l \in Labels(r, tok) : l[2] = e
<1>1. IsRow(conv[r], e, tok)
  BY SetsAssumption DEF IInv, SeenIsRows
<1>2. PICK row \in tokenMap : row.conv = conv[r] /\ row.entity = e /\ row.token = tok
  BY <1>1 DEF IsRow
<1>3. Label(row) \in Labels(r, tok)
  BY <1>2 DEF Labels
<1>4. ASSUME NEW l \in Labels(r, tok) PROVE l[2] = e
  <2>1. PICK x \in tokenMap : x.conv = conv[r] /\ x.token = tok /\ l = Label(x)
    BY DEF Labels
  <2>2. x.entity = e
    BY <1>2, <2>1 DEF IInv, OneToOne
  <2>3. QED
    BY <2>1, <2>2 DEF Label
<1>5. QED
  BY <1>3, <1>4

\* The answer is de-tokenised.
LEMMA DetokenizeInv ==
    ASSUME IInv, NEW r \in Requests, Detokenize(r)
    PROVE  IInv'
<1> DEFINE reads(tok) == IF role[r] = "direccion" \/ Labels(r, tok) = {}
                         THEN <<tok, <<"token", tok>>>>
                         ELSE <<tok, CHOOSE l \in Labels(r, tok) : TRUE>>
           text == {reads(tok) : tok \in said[r] \cap Tokens}
<1>1. /\ shown' = [shown EXCEPT ![r] = text] /\ pc' = [pc EXCEPT ![r] = "answered"]
      /\ UNCHANGED <<conv, role, work, seen, history, aside, said, memory, tokenMap, faults>>
  BY DEF Detokenize, Goto
<1>2. /\ pc \in [Requests -> Working \cup {"new", "answered", "failed", "lost"}]
      /\ said \in [Requests -> SUBSET Values] /\ DOMAIN shown = Requests
  BY DEF IInv, TypeOK
<1>3. role[r] # "direccion" => \A s \in text :
         \E q \in Requests : conv[q] = conv[r] /\ <<s[2][2], s[1]>> \in seen[q]
  <2>1. SUFFICES ASSUME role[r] # "direccion", NEW tok \in said[r] \cap Tokens
                 PROVE  \E q \in Requests :
                            conv[q] = conv[r] /\ <<reads(tok)[2][2], reads(tok)[1]>> \in seen[q]
    OBVIOUS
  <2> tok \in Tokens
    OBVIOUS
  <2>g. Given(conv[r], tok) /\ conv[r] \in Conversations /\ tok \notin GivenAway(conv[r])
    BY SetsAssumption DEF IInv, TypeOK, TextsWereGiven, GivenAway
  <2>2. PICK q \in Requests, e \in Entities : conv[q] = conv[r] /\ <<e, tok>> \in seen[q]
    BY <2>g, GivenIs
  <2>3. Labels(r, tok) # {} /\ \A l \in Labels(r, tok) : l[2] = e
    BY <2>2, LabelsSpec
  <2>4. (CHOOSE l \in Labels(r, tok) : TRUE) \in Labels(r, tok)
    BY <2>3
  <2>5. reads(tok) = <<tok, CHOOSE l \in Labels(r, tok) : TRUE>>
    BY <2>1, <2>3
  <2>6. reads(tok)[1] = tok /\ reads(tok)[2][2] = e
    BY <2>3, <2>4, <2>5
  <2>7. QED
    BY <2>2, <2>6
<1> HIDE DEF text
<1>4. Keeps
  BY <1>1 DEF Keeps
<1>5. \A q \in Requests : /\ pc'[q] = IF q = r THEN "answered" ELSE pc[q]
                          /\ shown'[q] = IF q = r THEN text ELSE shown[q]
  BY <1>1, <1>2
<1>6. TypeOK'
  <2>1. pc' \in [Requests -> Working \cup {"new", "answered", "failed", "lost"}]
    BY <1>1, <1>2 DEF Working
  <2>2. DOMAIN shown' = Requests
    BY <1>1, <1>2
  <2>3. QED
    BY <1>1, <2>1, <2>2 DEF IInv, TypeOK, work
<1>7. OneToOne' /\ CacheIsRows' /\ SeenIsRows'
  BY <1>1 DEF IInv, OneToOne, CacheIsRows, SeenIsRows, IsRow, work
<1>8. Covered'
  BY <1>1, <1>5 DEF IInv, Covered, work
<1>9. TextsWereGiven'
  BY <1>1, <1>4, TextsStay DEF IInv
<1>10. RoundTrip'
  <2>1. SUFFICES ASSUME NEW q \in Requests, pc'[q] = "answered", role[q] # "direccion",
                        NEW s \in shown'[q]
                 PROVE  \E x \in Requests : conv[x] = conv[q] /\ <<s[2][2], s[1]>> \in seen[x]
    BY <1>1 DEF RoundTrip
  <2>2. CASE q = r
    BY <1>3, <1>5, <2>1, <2>2
  <2>3. CASE q # r
    BY <1>5, <2>1, <2>3 DEF IInv, RoundTrip
  <2>4. QED
    BY <2>2, <2>3
<1>11. QED
  BY <1>6, <1>7, <1>8, <1>9, <1>10 DEF IInv

-----------------------------------------------------------------------------
(* Theorems.                                                               *)

LEMMA InvNext == IInv /\ [Next]_vars => IInv'
<1> SUFFICES ASSUME IInv, [Next]_vars PROVE IInv'
  OBVIOUS
<1>1. ASSUME NEW r \in Requests, Request(r) PROVE IInv'
  <2>1. CASE \E payload \in SUBSET Entities, others \in SUBSET Loose : ToolResult(r, payload, others)
    BY <2>1, SetsAssumption, ToolResultInv
  <2>2. QED
    BY <1>1, <2>1, MovesInv, FindInv, MintInv, ReplyInv, StoreInv, DetokenizeInv DEF Request
<1>2. CASE Crash
  BY <1>2, MovesInv
<1>3. CASE UNCHANGED vars
  <2>1. /\ UNCHANGED <<conv, role, cache, refs, lookup, missing, seen, payloads>>
        /\ UNCHANGED <<history, aside, said, shown, memory>>
        /\ tokenMap' = tokenMap /\ pc' = pc /\ faults' = faults
    BY <1>3 DEF vars, work, texts
  <2>t. TextsWereGiven' /\ history' \in [Requests -> SUBSET Values]
    BY <2>1, TextsStay DEF IInv, TypeOK, Keeps
  <2>2. tokenMap \subseteq tokenMap' /\ tokenMap' \subseteq MapRows /\ OneToOne'
    BY <2>1 DEF IInv, TypeOK, OneToOne
  <2>3. /\ pc' \in [Requests -> Working \cup {"new", "answered", "failed", "lost"}]
        /\ faults' \in Nat
    BY <2>1 DEF IInv, TypeOK
  <2>4. QED
    BY <2>1, <2>t, <2>2, <2>3, Moves
<1>4. QED
  BY <1>1, <1>2, <1>3 DEF Next, Finished

LEMMA InvHolds == Spec => []IInv
  BY InvInit, InvNext, PTL DEF Spec

\* TypeOK of Sanitizer.
THEOREM TypeCorrect == Spec => []TypeOK
<1>1. IInv => TypeOK
  BY DEF IInv
<1>2. QED
  BY <1>1, InvHolds, PTL

\* The LLM of a role other than direccion finds no raw id under the three keys, and
\* every raw id it has at hand was given away in its own conversation.
THEOREM RawIdsAreAccountedFor == Spec => []RawIdsHaveASource
<1>1. ASSUME IInv PROVE RawIdsHaveASource
  <2>1. SUFFICES ASSUME NEW r \in Requests, role[r] # "direccion"
                 PROVE  /\ \A s \in seen[r] : s[2] \in Tokens
                        /\ AtHand(r) \cap Entities \subseteq GivenAway(conv[r])
    BY DEF RawIdsHaveASource
  <2>2. \A s \in seen[r] : s[2] \in Tokens
    BY <1>1, <2>1 DEF IInv, SeenIsRows
  <2>3. ASSUME NEW v \in AtHand(r) \cap Entities PROVE v \in GivenAway(conv[r])
    <3>1. Given(conv[r], v) /\ conv[r] \in Conversations
      BY <1>1, AtHandWasGiven DEF IInv, TypeOK
    <3>2. v \notin Tokens
      BY SetsAssumption
    <3>3. QED
      BY <1>1, <3>1, <3>2, GivenIs
  <2>4. QED
    BY <2>2, <2>3
<1>2. QED
  BY <1>1, InvHolds, PTL

\* In a conversation an entity is always shown under the same token and a token
\* always stands for the same entity, whatever its requests race for.
THEOREM TokensAreStable == Spec => []StableTokens
<1>1. ASSUME IInv PROVE StableTokens
  <2>1. SUFFICES ASSUME NEW q \in Requests, NEW r \in Requests, conv[q] = conv[r],
                        NEW s \in seen[q], NEW t \in seen[r],
                        s[2] \in Tokens, t[2] \in Tokens
                 PROVE  s[1] = t[1] <=> s[2] = t[2]
    BY DEF StableTokens
  <2>e. s[1] \in Entities /\ t[1] \in Entities
    BY <1>1 DEF IInv, TypeOK
  <2>2. IsRow(conv[q], s[1], s[2]) /\ IsRow(conv[r], t[1], t[2])
    BY <1>1, <2>1, <2>e, SetsAssumption DEF IInv, SeenIsRows
  <2>3. PICK x \in tokenMap : x.conv = conv[q] /\ x.entity = s[1] /\ x.token = s[2]
    BY <2>2 DEF IsRow
  <2>4. PICK y \in tokenMap : y.conv = conv[r] /\ y.entity = t[1] /\ y.token = t[2]
    BY <2>2 DEF IsRow
  <2>5. QED
    BY <1>1, <2>1, <2>3, <2>4 DEF IInv, OneToOne
<1>2. QED
  BY <1>1, InvHolds, PTL

\* Every token of an answer is resolved, to an entity the conversation's LLM saw
\* under it.
THEOREM AnswersResolve == Spec => []RoundTrip
<1>1. IInv => RoundTrip
  BY DEF IInv
<1>2. QED
  BY <1>1, InvHolds, PTL

=============================================================================

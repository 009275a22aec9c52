------------------------- MODULE RateLimiterProofs -------------------------
(***************************************************************************)
(* Proofs about RateLimiter, for any tenants, users, coroutines, limits    *)
(* and window lengths: the hourly quotas, the promise of SlidingQuota, the *)
(* daily token budget and the agreement of the two deques.                 *)
(***************************************************************************)
EXTENDS RateLimiter, SequenceTheorems, FiniteSetTheorems, WellFoundedInduction, TLAPS

\* A nonempty set of naturals has a least element.
LEMMA LeastNat ==
    ASSUME NEW T \in SUBSET Nat, T # {}
    PROVE  \E x \in T : \A y \in T : x <= y
<1>1. PICK x \in T : \A y \in T : <<y, x>> \notin OpToRel(<, Nat)
  BY NatLessThanWellFounded, WFMin
<1>2. \A y \in T : ~(y < x)
  BY <1>1 DEF OpToRel
<1>3. QED
  BY <1>2

-----------------------------------------------------------------------------
(* The loop of _trim.                                                      *)

\* The while loop of _trim stops, and what it pops is exactly the longest
\* prefix of entries older than the cutoff.
LEMMA ExpiredPrefixSpec ==
    ASSUME NEW q, NEW c \in Int, Len(q) \in Nat, \A i \in 1..Len(q) : q[i] \in Nat
    PROVE  /\ ExpiredPrefix(q, c) \in 0..Len(q)
           /\ \A i \in 1..ExpiredPrefix(q, c) : q[i] < c
           /\ ExpiredPrefix(q, c) < Len(q) => q[ExpiredPrefix(q, c) + 1] >= c
<1> DEFINE Young == {i \in 1..Len(q) : q[i] >= c}
<1>1. \E n \in 0..Len(q) : /\ \A i \in 1..n : q[i] < c
                           /\ n < Len(q) => q[n + 1] >= c
  <2>1. CASE Young = {}
    <3>1. \A i \in 1..Len(q) : q[i] < c
      BY <2>1
    <3>2. QED
      BY <3>1
  <2>2. CASE Young # {}
    <3>1. Young \in SUBSET Nat
      OBVIOUS
    <3> HIDE DEF Young
    <3>2. PICK x \in Young : \A y \in Young : x <= y
      BY <2>2, <3>1, LeastNat
    <3> USE DEF Young
    <3>3. x - 1 \in 0..Len(q) /\ x - 1 + 1 = x
      BY <3>2
    <3>4. \A i \in 1..(x - 1) : q[i] < c
      BY <3>2
    <3>5. QED
      BY <3>2, <3>3, <3>4
  <2>3. QED
    BY <2>1, <2>2
<1>2. QED
  BY <1>1 DEF ExpiredPrefix

\* Trimming a deque of hits drops a prefix of it.
LEMMA TrimSpec ==
    ASSUME NEW q \in Seq(Nat), NEW c \in Int
    PROVE  /\ Trim(q, c) \in Seq(Nat)
           /\ Len(Trim(q, c)) <= Len(q)
           /\ \A i \in 1..Len(Trim(q, c)) :
                  Trim(q, c)[i] = q[Len(q) - Len(Trim(q, c)) + i]
           /\ \A i \in 1..(Len(q) - Len(Trim(q, c))) : q[i] < c
           /\ Trim(q, c) # <<>> => Trim(q, c)[1] >= c
<1> DEFINE n == ExpiredPrefix(q, c)
<1>1. Len(q) \in Nat /\ \A i \in 1..Len(q) : q[i] \in Nat
  BY ElementOfSeq, LenProperties
<1>2. /\ n \in 0..Len(q)
      /\ \A i \in 1..n : q[i] < c
      /\ n < Len(q) => q[n + 1] >= c
  BY <1>1, ExpiredPrefixSpec
<1>3. n + 1 \in Int /\ Len(q) \in Int /\ \A i \in (n + 1)..Len(q) : q[i] \in Nat
  BY <1>1, <1>2
<1> HIDE DEF n
<1>4. /\ SubSeq(q, n + 1, Len(q)) \in Seq(Nat)
      /\ Len(SubSeq(q, n + 1, Len(q))) =
             IF n + 1 <= Len(q) THEN Len(q) - (n + 1) + 1 ELSE 0
      /\ \A i \in 1..(Len(q) - (n + 1) + 1) :
             SubSeq(q, n + 1, Len(q))[i] = q[n + 1 + i - 1]
  BY <1>3, SubSeqProperties
<1>5. Trim(q, c) = SubSeq(q, n + 1, Len(q))
  BY DEF Trim, n
<1> DEFINE r == Trim(q, c)
<1>6. r \in Seq(Nat) /\ Len(r) = Len(q) - n
  BY <1>1, <1>2, <1>4, <1>5
<1>7. \A i \in 1..Len(r) : r[i] = q[n + i]
  BY <1>1, <1>2, <1>4, <1>5, <1>6
<1> HIDE DEF r
<1>8. r # <<>> => r[1] >= c
  <2>1. SUFFICES ASSUME r # <<>> PROVE r[1] >= c
    OBVIOUS
  <2>2. Len(r) > 0
    BY <1>6, <2>1, EmptySeq
  <2>3. r[1] = q[n + 1]
    BY <1>6, <1>7, <2>2
  <2>4. n < Len(q)
    BY <1>1, <1>2, <1>6, <2>2
  <2>5. QED
    BY <1>2, <2>3, <2>4
<1>9. Len(q) - Len(r) = n
  BY <1>1, <1>2, <1>6
<1>10. QED
  BY <1>1, <1>2, <1>6, <1>7, <1>8, <1>9 DEF r

-----------------------------------------------------------------------------
(* A deque beside the history it is the end of.                            *)

\* What ties a deque to the full history of its hits: it is the end of that
\* history, what it lost is older than an hour, and no window overflows.
Follows(q, log, limit, clock) ==
    /\ q \in Seq(Nat) /\ log \in Seq(Nat)
    /\ Len(q) <= Len(log) /\ Len(q) <= limit
    /\ \A i \in 1..Len(q) : q[i] = log[Len(log) - Len(q) + i]
    /\ \A i \in 1..(Len(log) - Len(q)) : log[i] < clock - Hour
    /\ \A i \in 1..Len(log) : log[i] <= clock
    /\ \A i, j \in 1..Len(log) : i <= j => log[i] <= log[j]
    /\ Spaced(log, limit)

\* A deque and a history that are both empty agree.
LEMMA FollowsEmpty ==
    ASSUME NEW limit \in Nat, NEW clock \in Nat
    PROVE  Follows(<<>>, <<>>, limit, clock)
BY EmptySeq DEF Follows, Spaced

\* Time may pass.
LEMMA FollowsTick ==
    ASSUME NEW limit \in Nat, NEW clock \in Nat, NEW later \in Nat, clock <= later,
           NEW q, NEW log, Follows(q, log, limit, clock)
    PROVE  Follows(q, log, limit, later)
<1> Hour \in Nat
  BY LimitsAssumption
<1>1. \A i \in 1..Len(log) : log[i] \in Nat
  BY ElementOfSeq DEF Follows
<1>2. Len(q) \in Nat /\ Len(log) \in Nat
  BY LenProperties DEF Follows
<1>3. \A i \in 1..(Len(log) - Len(q)) : log[i] < later - Hour
  BY <1>1, <1>2 DEF Follows
<1>4. \A i \in 1..Len(log) : log[i] <= later
  BY <1>1, <1>2 DEF Follows
<1>5. QED
  BY <1>3, <1>4 DEF Follows

\* The deque may be trimmed at any time, and afterwards holds no expired hit.
LEMMA FollowsTrim ==
    ASSUME NEW limit \in Nat, NEW clock \in Nat, NEW q, NEW log,
           Follows(q, log, limit, clock)
    PROVE  /\ Follows(Trim(q, clock - Hour), log, limit, clock)
           /\ \A i \in 1..Len(Trim(q, clock - Hour)) :
                  Trim(q, clock - Hour)[i] >= clock - Hour
<1> DEFINE r == Trim(q, clock - Hour)
<1>1. Hour \in Nat /\ clock - Hour \in Int
  BY LimitsAssumption
<1>2. q \in Seq(Nat) /\ log \in Seq(Nat)
  BY DEF Follows
<1>3. /\ r \in Seq(Nat)
      /\ Len(r) <= Len(q)
      /\ \A i \in 1..Len(r) : r[i] = q[Len(q) - Len(r) + i]
      /\ \A i \in 1..(Len(q) - Len(r)) : q[i] < clock - Hour
      /\ r # <<>> => r[1] >= clock - Hour
  BY <1>1, <1>2, TrimSpec
<1> HIDE DEF r
<1>4. Len(q) \in Nat /\ Len(log) \in Nat /\ Len(r) \in Nat
  BY <1>2, <1>3, LenProperties
<1>5. \A i \in 1..Len(log) : log[i] \in Nat
  BY <1>2, ElementOfSeq
<1>6. \A i \in 1..Len(r) : r[i] = log[Len(log) - Len(r) + i]
  <2>1. TAKE i \in 1..Len(r)
  <2>2. r[i] = q[Len(q) - Len(r) + i] /\ Len(q) - Len(r) + i \in 1..Len(q)
    BY <1>3, <1>4
  <2>3. q[Len(q) - Len(r) + i] = log[Len(log) - Len(q) + (Len(q) - Len(r) + i)]
    BY <2>2 DEF Follows
  <2>4. QED
    BY <1>4, <2>2, <2>3
<1>7. \A i \in 1..(Len(log) - Len(r)) : log[i] < clock - Hour
  <2>1. TAKE i \in 1..(Len(log) - Len(r))
  <2>2. CASE i <= Len(log) - Len(q)
    BY <1>4, <2>2 DEF Follows
  <2>3. CASE i > Len(log) - Len(q)
    <3> DEFINE j == i - (Len(log) - Len(q))
    <3>1. j \in 1..(Len(q) - Len(r)) /\ j \in 1..Len(q) /\ Len(log) - Len(q) + j = i
      BY <1>3, <1>4, <2>3
    <3>2. q[j] < clock - Hour /\ q[j] = log[Len(log) - Len(q) + j]
      BY <1>3, <3>1 DEF Follows
    <3>3. QED
      BY <3>1, <3>2
  <2>4. QED
    BY <1>4, <2>2, <2>3
<1>8. Follows(r, log, limit, clock)
  BY <1>2, <1>3, <1>4, <1>6, <1>7 DEF Follows
<1>9. \A i \in 1..Len(r) : r[i] >= clock - Hour
  <2>1. TAKE i \in 1..Len(r)
  <2>2. r # <<>>
    BY <1>4, EmptySeq
  <2>3. r[1] >= clock - Hour
    BY <1>3, <2>2
  <2>4. r[1] = log[Len(log) - Len(r) + 1] /\ r[i] = log[Len(log) - Len(r) + i]
    BY <1>4, <1>6
  <2>5. Len(r) <= Len(log)
    BY <1>8 DEF Follows
  <2>6. Len(log) - Len(r) + 1 \in 1..Len(log) /\ Len(log) - Len(r) + i \in 1..Len(log)
    BY <1>4, <2>5
  <2>7. log[Len(log) - Len(r) + 1] <= log[Len(log) - Len(r) + i]
    <3>1. Len(log) - Len(r) + 1 <= Len(log) - Len(r) + i
      BY <1>4
    <3>2. \A a, b \in 1..Len(log) : a <= b => log[a] <= log[b]
      BY DEF Follows
    <3>3. QED
      BY <2>6, <3>1, <3>2
  <2>8. log[Len(log) - Len(r) + 1] \in Nat /\ log[Len(log) - Len(r) + i] \in Nat
    BY <1>5, <2>6
  <2>9. QED
    BY <1>1, <2>3, <2>4, <2>7, <2>8
<1>10. QED
  BY <1>8, <1>9 DEF r

\* A trimmed deque with room may take the present hit.
LEMMA FollowsAppend ==
    ASSUME NEW limit \in Nat \ {0}, NEW clock \in Nat, NEW q, NEW log,
           Follows(q, log, limit, clock), Len(q) < limit
    PROVE  Follows(Append(q, clock), Append(log, clock), limit, clock)
<1> DEFINE r == Append(q, clock)
           h == Append(log, clock)
<1>1. Hour \in Nat /\ limit \in Nat /\ limit >= 1
  BY LimitsAssumption
<1>2. q \in Seq(Nat) /\ log \in Seq(Nat) /\ Len(q) \in Nat /\ Len(log) \in Nat
      /\ Len(q) <= Len(log)
  BY LenProperties DEF Follows
<1>3. /\ r \in Seq(Nat) /\ Len(r) = Len(q) + 1
      /\ \A i \in 1..Len(q) : r[i] = q[i]
      /\ r[Len(q) + 1] = clock
  BY <1>2, AppendProperties
<1>4. /\ h \in Seq(Nat) /\ Len(h) = Len(log) + 1
      /\ \A i \in 1..Len(log) : h[i] = log[i]
      /\ h[Len(log) + 1] = clock
  BY <1>2, AppendProperties
<1> HIDE DEF r, h
<1>5. \A i \in 1..Len(log) : log[i] \in Nat
  BY <1>2, ElementOfSeq
<1>6. \A i \in 1..Len(r) : r[i] = h[Len(h) - Len(r) + i]
  <2>1. TAKE i \in 1..Len(r)
  <2>2. CASE i = Len(q) + 1
    BY <1>2, <1>3, <1>4, <2>2
  <2>3. CASE i \in 1..Len(q)
    <3>1. r[i] = q[i] /\ q[i] = log[Len(log) - Len(q) + i]
      BY <1>3, <2>3 DEF Follows
    <3>2. Len(log) - Len(q) + i \in 1..Len(log) /\ Len(h) - Len(r) + i = Len(log) - Len(q) + i
      BY <1>2, <1>3, <1>4, <2>3
    <3>3. QED
      BY <1>4, <3>1, <3>2
  <2>4. QED
    BY <1>2, <1>3, <2>2, <2>3
<1>7. \A i \in 1..(Len(h) - Len(r)) : h[i] < clock - Hour
  <2>1. TAKE i \in 1..(Len(h) - Len(r))
  <2>2. i \in 1..(Len(log) - Len(q)) /\ i \in 1..Len(log)
    <3>1. Len(h) - Len(r) = Len(log) - Len(q)
      BY <1>2, <1>3, <1>4
    <3>2. Len(log) - Len(q) \in 0..Len(log) /\ Len(log) \in Nat
      BY <1>2
    <3>3. QED
      BY <3>1, <3>2
  <2>3. log[i] < clock - Hour
    BY <2>2 DEF Follows
  <2>4. QED
    BY <1>4, <2>2, <2>3
<1>8. \A i \in 1..Len(h) : h[i] \in Nat /\ h[i] <= clock
  <2>1. TAKE i \in 1..Len(h)
  <2>2. CASE i \in 1..Len(log)
    <3>1. log[i] <= clock
      BY <2>2 DEF Follows
    <3>2. QED
      BY <1>4, <1>5, <2>2, <3>1
  <2>3. CASE i = Len(log) + 1
    BY <1>4, <2>3
  <2>4. QED
    BY <1>2, <1>4, <2>2, <2>3
<1>9. \A i, j \in 1..Len(h) : i <= j => h[i] <= h[j]
  <2>1. SUFFICES ASSUME NEW i \in 1..Len(h), NEW j \in 1..Len(h), i <= j
                 PROVE  h[i] <= h[j]
    OBVIOUS
  <2>2. CASE j \in 1..Len(log)
    <3>1. i \in 1..Len(log)
      BY <1>2, <1>4, <2>1, <2>2
    <3>2. log[i] <= log[j]
      BY <2>1, <2>2, <3>1 DEF Follows
    <3>3. QED
      BY <1>4, <2>2, <3>1, <3>2
  <2>3. CASE j = Len(log) + 1
    BY <1>4, <1>8, <2>3
  <2>4. QED
    BY <1>2, <1>4, <2>2, <2>3
<1>10. Spaced(h, limit)
  <2>1. SUFFICES ASSUME NEW i \in 1..Len(h), i + limit <= Len(h)
                 PROVE  h[i + limit] - h[i] > Hour
    BY DEF Spaced
  <2>2. CASE i + limit <= Len(log)
    <3>1. i \in 1..Len(log) /\ i + limit \in 1..Len(log)
      BY <1>2, <1>4, <2>2
    <3>2. log[i + limit] - log[i] > Hour
      BY <2>2, <3>1 DEF Follows, Spaced
    <3>3. QED
      BY <1>4, <3>1, <3>2
  <2>3. CASE i + limit = Len(log) + 1
    <3>1. i \in 1..(Len(log) - Len(q)) /\ i \in 1..Len(log)
      BY <1>2, <1>4, <2>3
    <3>2. log[i] < clock - Hour
      BY <3>1 DEF Follows
    <3>3. h[i + limit] = clock /\ h[i] = log[i]
      BY <1>4, <2>3, <3>1
    <3>4. QED
      BY <1>1, <1>5, <3>1, <3>2, <3>3
  <2>4. i + limit <= Len(log) \/ i + limit = Len(log) + 1
    <3>1. i \in Int /\ limit \in Int /\ Len(log) \in Int
      BY <1>1, <1>2, <1>4
    <3>2. i + limit <= Len(log) + 1
      BY <1>4, <2>1
    <3>3. QED
      BY <3>1, <3>2
  <2>5. QED
    BY <2>2, <2>3, <2>4
<1>11. Len(r) <= Len(h) /\ Len(r) <= limit
  BY <1>2, <1>3, <1>4
<1>12. Follows(r, h, limit, clock)
  BY <1>3, <1>4, <1>6, <1>7, <1>8, <1>9, <1>10, <1>11 DEF Follows
<1>13. QED
  BY <1>12 DEF r, h

\* Once trimmed, the length of a deque is the number of hits of the whole
\* history that fall in the last hour.
LEMMA FollowsCount ==
    ASSUME NEW limit \in Nat, NEW clock \in Nat, NEW q, NEW log,
           Follows(q, log, limit, clock)
    PROVE  LET live == {i \in 1..Len(log) : log[i] >= clock - Hour}
           IN  Len(Trim(q, clock - Hour)) = Cardinality(live)
<1> DEFINE r == Trim(q, clock - Hour)
           live == {i \in 1..Len(log) : log[i] >= clock - Hour}
<1>1. Follows(r, log, limit, clock) /\ \A i \in 1..Len(r) : r[i] >= clock - Hour
  BY FollowsTrim
<1> HIDE DEF r
<1>2. Len(r) \in Nat /\ Len(log) \in Nat /\ Len(r) <= Len(log)
  BY <1>1, LenProperties DEF Follows
<1>3. Hour \in Nat /\ \A i \in 1..Len(log) : log[i] \in Nat
  BY <1>1, ElementOfSeq, LimitsAssumption DEF Follows
<1>4. live = (Len(log) - Len(r) + 1)..Len(log)
  <2>1. ASSUME NEW i \in 1..(Len(log) - Len(r)) PROVE i \notin live
    BY <1>1, <1>2, <1>3, <2>1 DEF Follows
  <2>2. ASSUME NEW i \in (Len(log) - Len(r) + 1)..Len(log) PROVE i \in live
    <3> DEFINE j == i - (Len(log) - Len(r))
    <3>1. j \in 1..Len(r) /\ Len(log) - Len(r) + j = i /\ i \in 1..Len(log)
      BY <1>2
    <3>2. r[j] = log[i] /\ r[j] >= clock - Hour
      BY <1>1, <3>1 DEF Follows
    <3>3. QED
      BY <3>1, <3>2
  <2>3. QED
    BY <1>2, <2>1, <2>2
<1>5. Cardinality((Len(log) - Len(r) + 1)..Len(log)) = Len(r)
  <2>1. Len(log) - Len(r) + 1 \in Int /\ Len(log) \in Int
    BY <1>2
  <2>2. Cardinality((Len(log) - Len(r) + 1)..Len(log)) =
            IF Len(log) - Len(r) + 1 > Len(log) THEN 0
            ELSE Len(log) - (Len(log) - Len(r) + 1) + 1
    BY <2>1, FS_Interval
  <2>3. QED
    BY <1>2, <2>2
<1>6. QED
  BY <1>4, <1>5 DEF r

-----------------------------------------------------------------------------
(* sum(n for _, n in q).  The provers have no induction over the length of a *)
(* deque; the least index at which two partial sums part takes its place.    *)

Pair == [time : Nat, tokens : Nat]

\* g adds up the tokens of q, one entry after the other.
AddsUp(g, q) ==
    /\ g \in [0..Len(q) -> Nat]
    /\ g[0] = 0
    /\ \A i \in 1..Len(q) : g[i] = g[i - 1] + q[i].tokens

\* Deques are functions of their indices.
LEMMA PairsAre ==
    ASSUME NEW q \in Seq(Pair)
    PROVE  /\ Len(q) \in Nat /\ DOMAIN q = 1..Len(q)
           /\ \A i \in 1..Len(q) : q[i] \in Pair /\ q[i].time \in Nat /\ q[i].tokens \in Nat
<1>1. Len(q) \in Nat /\ DOMAIN q = 1..Len(q) /\ \A i \in 1..Len(q) : q[i] \in Pair
  BY LenProperties, ElementOfSeq
<1>2. QED
  BY <1>1 DEF Pair

\* What holds at 0 and passes on from each index to the next holds at them all.
LEMMA UpTo ==
    ASSUME NEW n \in Nat, NEW S, 0 \in S, \A i \in 1..n : i - 1 \in S => i \in S
    PROVE  0..n \subseteq S
<1> DEFINE Bad == {i \in 0..n : i \notin S}
<1>1. SUFFICES ASSUME Bad # {} PROVE FALSE
  OBVIOUS
<1>2. Bad \in SUBSET Nat
  OBVIOUS
<1> HIDE DEF Bad
<1>3. PICK i \in Bad : \A j \in Bad : i <= j
  BY <1>1, <1>2, LeastNat
<1>4. i \in 1..n /\ i \notin S
  BY <1>3 DEF Bad
<1>5. i - 1 \notin Bad
  BY <1>2, <1>3, <1>4
<1>6. QED
  BY <1>4, <1>5 DEF Bad

\* The partial sums of a deque exist.
LEMMA SumsExist ==
    ASSUME NEW q \in Seq(Pair)
    PROVE  \E g : AddsUp(g, q)
<1> DEFINE n == Len(q)
           Upto(g, i) == /\ g \in [0..i -> Nat] /\ g[0] = 0
                         /\ \A j \in 1..i : g[j] = g[j - 1] + q[j].tokens
           S == {i \in 0..n : \E g : Upto(g, i)}
<1>1. n \in Nat /\ \A i \in 1..n : q[i].tokens \in Nat
  BY PairsAre
<1>2. 0 \in S
  <2>1. PICK g : g = [i \in 0..0 |-> 0]
    OBVIOUS
  <2>2. Upto(g, 0)
    BY <2>1
  <2>3. QED
    BY <1>1, <2>2
<1>3. ASSUME NEW i \in 1..n, i - 1 \in S PROVE i \in S
  <2>1. PICK g : Upto(g, i - 1)
    BY <1>3
  <2> DEFINE h == [j \in 0..i |-> IF j = i THEN g[i - 1] + q[i].tokens ELSE g[j]]
  <2>2. i \in 0..n /\ i - 1 \in 0..(i - 1) /\ 0 \in 0..i
    BY <1>1
  <2>3. h \in [0..i -> Nat]
    BY <1>1, <2>1, <2>2
  <2>4. h[0] = 0
    BY <2>1, <2>2
  <2>5. ASSUME NEW j \in 1..i PROVE h[j] = h[j - 1] + q[j].tokens
    BY <1>1, <2>1, <2>2, <2>5
  <2>6. Upto(h, i)
    BY <2>3, <2>4, <2>5
  <2>7. QED
    BY <2>2, <2>6
<1> HIDE DEF S
<1>4. 0..n \subseteq S
  BY <1>1, <1>2, <1>3, UpTo
<1>5. n \in S
  BY <1>1, <1>4
<1>6. QED
  BY <1>5 DEF S, AddsUp

\* Larger charges add up to larger sums.
LEMMA SumsGrow ==
    ASSUME NEW q \in Seq(Pair), NEW r \in Seq(Pair), Len(q) = Len(r),
           \A i \in 1..Len(q) : q[i].tokens <= r[i].tokens,
           NEW g, NEW h, AddsUp(g, q), AddsUp(h, r)
    PROVE  \A i \in 0..Len(q) : g[i] <= h[i]
<1> DEFINE S == {i \in 0..Len(q) : g[i] <= h[i]}
<1>1. Len(q) \in Nat /\ \A i \in 1..Len(q) : q[i].tokens \in Nat /\ r[i].tokens \in Nat
  BY PairsAre
<1>2. 0 \in S
  BY <1>1 DEF AddsUp
<1>3. ASSUME NEW i \in 1..Len(q), i - 1 \in S PROVE i \in S
  <2>1. i - 1 \in 0..Len(q) /\ i \in 0..Len(q)
    BY <1>1
  <2>2. g[i - 1] \in Nat /\ h[i - 1] \in Nat /\ g[i - 1] <= h[i - 1]
    BY <1>3, <2>1 DEF AddsUp
  <2>3. g[i] = g[i - 1] + q[i].tokens /\ h[i] = h[i - 1] + r[i].tokens
    BY DEF AddsUp
  <2>4. QED
    BY <1>1, <2>1, <2>2, <2>3
<1> HIDE DEF S
<1>4. 0..Len(q) \subseteq S
  BY <1>1, <1>2, <1>3, UpTo
<1>5. QED
  BY <1>4 DEF S

\* TokenSum is the last of the partial sums.
LEMMA TokenSumIs ==
    ASSUME NEW q \in Seq(Pair), NEW g, AddsUp(g, q)
    PROVE  TokenSum(q) = g[Len(q)] /\ TokenSum(q) \in Nat
<1> DEFINE Step(s) == [i \in 0..Len(q) |-> IF i = 0 THEN 0 ELSE s[i - 1] + q[i].tokens]
           sum == CHOOSE s : s = Step(s)
           S == {i \in 0..Len(q) : sum[i] = g[i]}
<1>1. Len(q) \in Nat /\ TokenSum(q) = sum[Len(q)]
  BY PairsAre DEF TokenSum
<1>2. g = Step(g)
  <2>1. g = [i \in 0..Len(q) |-> g[i]]
    BY DEF AddsUp
  <2>2. \A i \in 0..Len(q) : g[i] = IF i = 0 THEN 0 ELSE g[i - 1] + q[i].tokens
    BY <1>1 DEF AddsUp
  <2>3. QED
    BY <2>1, <2>2
<1>3. sum = Step(sum)
  BY <1>2
<1> HIDE DEF sum
<1>4. 0 \in S
  BY <1>1, <1>3 DEF AddsUp
<1>5. ASSUME NEW i \in 1..Len(q), i - 1 \in S PROVE i \in S
  <2>1. i \in 0..Len(q) /\ i # 0
    BY <1>1
  <2>2. sum[i] = sum[i - 1] + q[i].tokens
    BY <1>3, <2>1
  <2>3. QED
    BY <1>5, <2>1, <2>2 DEF AddsUp
<1> HIDE DEF S
<1>6. 0..Len(q) \subseteq S
  BY <1>1, <1>4, <1>5, UpTo
<1>7. Len(q) \in 0..Len(q)
  BY <1>1
<1>8. QED
  BY <1>1, <1>6, <1>7 DEF S, AddsUp

\* A sum is a natural number, nothing adds up to zero, and a new charge is added.
LEMMA TokenSumFacts ==
    ASSUME NEW q \in Seq(Pair)
    PROVE  /\ TokenSum(q) \in Nat
           /\ Len(q) = 0 => TokenSum(q) = 0
           /\ \A e \in Pair : TokenSum(Append(q, e)) = TokenSum(q) + e.tokens
<1>1. PICK g : AddsUp(g, q)
  BY SumsExist
<1>2. TokenSum(q) = g[Len(q)] /\ TokenSum(q) \in Nat
  BY <1>1, TokenSumIs
<1>3. Len(q) = 0 => TokenSum(q) = 0
  BY <1>1, <1>2 DEF AddsUp
<1>4. ASSUME NEW e \in Pair PROVE TokenSum(Append(q, e)) = TokenSum(q) + e.tokens
  <2> DEFINE n == Len(q)
             r == Append(q, e)
             h == [i \in 0..(n + 1) |-> IF i = n + 1 THEN g[n] + e.tokens ELSE g[i]]
  <2>1. n \in Nat /\ e.tokens \in Nat
    BY PairsAre DEF Pair
  <2>2. r \in Seq(Pair) /\ Len(r) = n + 1 /\ r[n + 1] = e /\ \A i \in 1..n : r[i] = q[i]
    BY <2>1, AppendProperties
  <2> HIDE DEF r
  <2>3. g \in [0..n -> Nat] /\ g[0] = 0 /\ \A i \in 1..n : g[i] = g[i - 1] + q[i].tokens
    BY <1>1 DEF AddsUp
  <2> HIDE DEF n
  <2>4. h \in [0..(n + 1) -> Nat] /\ h[0] = 0
    BY <2>1, <2>3
  <2>5. ASSUME NEW i \in 1..(n + 1) PROVE h[i] = h[i - 1] + r[i].tokens
    <3>1. CASE i = n + 1
      BY <2>1, <2>2, <3>1
    <3>2. CASE i \in 1..n
      <4>1. i # n + 1 /\ i - 1 # n + 1 /\ i \in 0..(n + 1) /\ i - 1 \in 0..(n + 1)
        BY <2>1, <3>2
      <4>2. h[i] = g[i] /\ h[i - 1] = g[i - 1]
        BY <4>1
      <4>3. QED
        BY <2>2, <2>3, <3>2, <4>2
    <3>3. QED
      BY <2>1, <3>1, <3>2
  <2>6. AddsUp(h, r)
    BY <2>2, <2>4, <2>5 DEF AddsUp
  <2>7. TokenSum(r) = h[n + 1]
    BY <2>2, <2>6, TokenSumIs
  <2>8. QED
    BY <1>2, <2>1, <2>7 DEF r, n
<1>5. QED
  BY <1>2, <1>3, <1>4

\* Larger charges add up to more.
LEMMA TokenSumGrows ==
    ASSUME NEW q \in Seq(Pair), NEW r \in Seq(Pair), Len(q) = Len(r),
           \A i \in 1..Len(q) : q[i].tokens <= r[i].tokens
    PROVE  TokenSum(q) <= TokenSum(r)
<1>1. PICK g : AddsUp(g, q)
  BY SumsExist
<1>2. PICK h : AddsUp(h, r)
  BY SumsExist
<1>3. TokenSum(q) = g[Len(q)] /\ TokenSum(r) = h[Len(q)]
  BY <1>1, <1>2, TokenSumIs
<1>4. Len(q) \in 0..Len(q)
  BY PairsAre
<1>5. QED
  BY <1>1, <1>2, <1>3, <1>4, SumsGrow

\* Charges of nothing at the front make no difference.
LEMMA TokenSumOfEnd ==
    ASSUME NEW q \in Seq(Pair), NEW r \in Seq(Pair), NEW d \in Nat, Len(r) = d + Len(q),
           \A i \in 1..d : r[i].tokens = 0,
           \A i \in 1..Len(q) : r[d + i].tokens = q[i].tokens
    PROVE  TokenSum(r) = TokenSum(q)
<1> DEFINE n == Len(q)
<1>1. n \in Nat
  BY PairsAre
<1> HIDE DEF n
<1>2. PICK h : AddsUp(h, r)
  BY SumsExist
<1>3. /\ h \in [0..(d + n) -> Nat] /\ h[0] = 0
      /\ \A i \in 1..(d + n) : h[i] = h[i - 1] + r[i].tokens
  BY <1>2 DEF AddsUp, n
<1> DEFINE S == {i \in 0..d : h[i] = 0}
<1>4. 0 \in S
  BY <1>3
<1>5. ASSUME NEW i \in 1..d, i - 1 \in S PROVE i \in S
  <2>1. i \in 1..(d + n) /\ i \in 0..d
    BY <1>1
  <2>2. h[i] = h[i - 1] + r[i].tokens /\ h[i - 1] = 0 /\ r[i].tokens = 0
    BY <1>3, <1>5, <2>1
  <2>3. QED
    BY <2>1, <2>2
<1> HIDE DEF S
<1>6. 0..d \subseteq S
  BY <1>4, <1>5, UpTo
<1>7. h[d] = 0
  BY <1>6 DEF S
<1> DEFINE g == [i \in 0..n |-> h[d + i]]
<1>8. g \in [0..n -> Nat] /\ g[0] = 0
  BY <1>1, <1>3, <1>7
<1>9. ASSUME NEW i \in 1..n PROVE g[i] = g[i - 1] + q[i].tokens
  <2>1. d + i \in 1..(d + n) /\ i \in 0..n /\ i - 1 \in 0..n /\ d + i - 1 = d + (i - 1)
    BY <1>1
  <2>2. h[d + i] = h[d + i - 1] + r[d + i].tokens /\ r[d + i].tokens = q[i].tokens
    BY <1>3, <2>1 DEF n
  <2>3. QED
    BY <2>1, <2>2
<1>10. g[n] = h[d + n]
  BY <1>1
<1> HIDE DEF g
<1>11. AddsUp(g, q)
  BY <1>8, <1>9 DEF AddsUp, n
<1>12. QED
  BY <1>2, <1>10, <1>11, TokenSumIs DEF n

\* Trimming the token deque drops a prefix of it.
LEMMA TrimPairsSpec ==
    ASSUME NEW q \in Seq(Pair), NEW c \in Int
    PROVE  LET r == TrimPairs(q, c)
           IN  /\ r \in Seq(Pair)
               /\ Len(r) \in 0..Len(q)
               /\ \A i \in 1..Len(r) : r[i] = q[Len(q) - Len(r) + i]
               /\ \A i \in 1..(Len(q) - Len(r)) : q[i].time < c
               /\ Len(r) > 0 => r[1].time >= c
<1> DEFINE times == [i \in DOMAIN q |-> q[i].time]
           n == ExpiredPrefix(times, c)
           r == TrimPairs(q, c)
<1>1. Len(q) \in Nat /\ DOMAIN q = 1..Len(q) /\ \A i \in 1..Len(q) : q[i] \in Pair /\ q[i].time \in Nat
  BY PairsAre
<1>2. times \in [1..Len(q) -> Nat]
  BY <1>1
<1>3. times \in Seq(Nat)
  BY <1>1, <1>2, SeqDef
<1>4. Len(times) \in Nat /\ Len(times) = Len(q)
  BY <1>1, <1>2, <1>3, LenProperties
<1>5. \A i \in 1..Len(times) : times[i] \in Nat /\ times[i] = q[i].time
  BY <1>1, <1>2, <1>4
<1> HIDE DEF times
<1>6. /\ n \in 0..Len(q)
      /\ \A i \in 1..n : times[i] < c
      /\ n < Len(q) => times[n + 1] >= c
  BY <1>4, <1>5, ExpiredPrefixSpec
<1>7. r = SubSeq(q, n + 1, Len(q))
  BY DEF TrimPairs, times
<1> HIDE DEF n, r
<1>8. /\ \A i \in 1..n : q[i].time < c
      /\ n < Len(q) => q[n + 1].time >= c
  <2>1. ASSUME NEW i \in 1..n PROVE q[i].time < c
    <3>1. i \in 1..Len(times)
      BY <1>1, <1>4, <1>6
    <3>2. QED
      BY <1>5, <1>6, <3>1
  <2>2. ASSUME n < Len(q) PROVE q[n + 1].time >= c
    <3>1. n + 1 \in 1..Len(times)
      BY <1>1, <1>4, <1>6, <2>2
    <3>2. QED
      BY <1>5, <1>6, <2>2, <3>1
  <2>3. QED
    BY <2>1, <2>2
<1>9. n + 1 \in Int /\ Len(q) \in Int /\ \A i \in (n + 1)..Len(q) : q[i] \in Pair
  BY <1>1, <1>6
<1>10. /\ r \in Seq(Pair)
       /\ Len(r) = IF n + 1 <= Len(q) THEN Len(q) - (n + 1) + 1 ELSE 0
       /\ \A i \in 1..(Len(q) - (n + 1) + 1) : r[i] = q[n + 1 + i - 1]
  BY <1>7, <1>9, SubSeqProperties
<1>11. Len(r) = Len(q) - n /\ Len(q) - Len(r) = n /\ Len(r) \in 0..Len(q)
  <2>1. Len(q) \in Nat /\ n \in 0..Len(q)
    BY <1>1, <1>6
  <2>2. Len(r) = IF n + 1 <= Len(q) THEN Len(q) - (n + 1) + 1 ELSE 0
    BY <1>10
  <2>3. ASSUME NEW m \in Nat, NEW k \in 0..m
        PROVE  (IF k + 1 <= m THEN m - (k + 1) + 1 ELSE 0) = m - k /\ m - (m - k) = k /\ m - k \in 0..m
    OBVIOUS
  <2>4. QED
    BY <2>1, <2>2, <2>3
<1>12. \A i \in 1..Len(r) : r[i] = q[n + i]
  <2>1. TAKE i \in 1..Len(r)
  <2>2. Len(q) \in Nat /\ n \in 0..Len(q)
    BY <1>1, <1>6
  <2>3. i \in 1..(Len(q) - (n + 1) + 1) /\ n + 1 + i - 1 = n + i
    BY <1>11, <2>2
  <2>4. QED
    BY <1>10, <2>3
<1>13. Len(r) > 0 => r[1].time >= c
  <2>1. SUFFICES ASSUME Len(r) > 0 PROVE r[1].time >= c
    OBVIOUS
  <2>2. n < Len(q) /\ 1 \in 1..Len(r)
    BY <1>1, <1>6, <1>11, <2>1
  <2>3. QED
    BY <1>8, <1>12, <2>2
<1>14. QED
  BY <1>8, <1>10, <1>11, <1>12, <1>13 DEF r

\* The log of the last day is a log, with the old charges struck out.
LEMMA LastDayIs ==
    ASSUME NEW log \in Seq(Pair), NEW clock
    PROVE  /\ LastDay(log, clock) \in Seq(Pair) /\ Len(LastDay(log, clock)) = Len(log)
           /\ \A i \in 1..Len(log) :
                 /\ LastDay(log, clock)[i].tokens = IF log[i].time >= clock - Day THEN log[i].tokens ELSE 0
                 /\ LastDay(log, clock)[i].tokens <= log[i].tokens
<1> DEFINE h == LastDay(log, clock)
<1>1. Len(log) \in Nat /\ DOMAIN log = 1..Len(log)
      /\ \A i \in 1..Len(log) : log[i] \in Pair /\ log[i].tokens \in Nat
  BY PairsAre
<1>2. h = [i \in 1..Len(log) |-> IF log[i].time >= clock - Day THEN log[i] ELSE [log[i] EXCEPT !.tokens = 0]]
  BY <1>1 DEF LastDay
<1>3. ASSUME NEW i \in 1..Len(log)
      PROVE  /\ h[i] \in Pair
             /\ h[i].tokens = IF log[i].time >= clock - Day THEN log[i].tokens ELSE 0
             /\ h[i].tokens <= log[i].tokens
  <2>1. CASE log[i].time >= clock - Day
    BY <1>1, <1>2, <2>1
  <2>2. CASE ~(log[i].time >= clock - Day)
    <3>1. h[i] = [log[i] EXCEPT !.tokens = 0]
      BY <1>2, <2>2
    <3>2. QED
      BY <1>1, <2>2, <3>1 DEF Pair
  <2>3. QED
    BY <2>1, <2>2
<1>4. h \in [1..Len(log) -> Pair]
  BY <1>2, <1>3
<1> HIDE DEF h
<1>5. h \in Seq(Pair)
  BY <1>1, <1>4, SeqDef
<1>6. Len(h) = Len(log)
  BY <1>1, <1>4, <1>5, LenProperties
<1>7. QED
  BY <1>3, <1>5, <1>6 DEF h

-----------------------------------------------------------------------------
(* The token deque beside the log of all charges.                           *)

\* The token deque is the end of the log, and what it lost is a day old.
ChargesFollow(q, log, clock) ==
    /\ q \in Seq(Pair) /\ log \in Seq(Pair)
    /\ Len(q) <= Len(log)
    /\ \A i \in 1..Len(q) : q[i] = log[Len(log) - Len(q) + i]
    /\ \A i \in 1..(Len(log) - Len(q)) : log[i].time < clock - Day
    /\ \A i \in 1..Len(log) : log[i].time <= clock
    /\ \A i, j \in 1..Len(log) : i <= j => log[i].time <= log[j].time

\* What the formula says of the numbers in it.
LEMMA ChargesAre ==
    ASSUME NEW q, NEW log, NEW clock, ChargesFollow(q, log, clock)
    PROVE  /\ q \in Seq(Pair) /\ log \in Seq(Pair)
           /\ Len(q) \in Nat /\ Len(log) \in Nat /\ Len(q) <= Len(log) /\ Len(log) - Len(q) \in Nat
           /\ \A i \in 1..Len(log) : log[i].time \in Nat /\ log[i].tokens \in Nat
<1>1. q \in Seq(Pair) /\ log \in Seq(Pair) /\ Len(q) <= Len(log)
  BY DEF ChargesFollow
<1>2. Len(q) \in Nat /\ Len(log) \in Nat
  BY <1>1, PairsAre
<1>3. \A i \in 1..Len(log) : log[i].time \in Nat /\ log[i].tokens \in Nat
  BY <1>1, PairsAre
<1>4. QED
  BY <1>1, <1>2, <1>3

\* Time may pass.
LEMMA ChargesTick ==
    ASSUME NEW clock \in Nat, NEW later \in Nat, clock <= later,
           NEW q, NEW log, ChargesFollow(q, log, clock)
    PROVE  ChargesFollow(q, log, later)
<1> Day \in Nat
  BY LimitsAssumption
<1>1. /\ Len(log) \in Nat /\ Len(log) - Len(q) \in Nat /\ Len(q) \in Nat
      /\ \A i \in 1..Len(log) : log[i].time \in Nat
  BY ChargesAre
<1>2. \A i \in 1..(Len(log) - Len(q)) : log[i].time < later - Day
  <2>1. TAKE i \in 1..(Len(log) - Len(q))
  <2>2. log[i].time < clock - Day
    BY DEF ChargesFollow
  <2>3. i \in 1..Len(log)
    BY <1>1
  <2>4. QED
    BY <1>1, <2>2, <2>3
<1>3. \A i \in 1..Len(log) : log[i].time <= later
  <2>1. TAKE i \in 1..Len(log)
  <2>2. log[i].time <= clock
    BY DEF ChargesFollow
  <2>3. QED
    BY <1>1, <2>2
<1>4. QED
  BY <1>2, <1>3 DEF ChargesFollow

\* The deque may be trimmed at any time, and afterwards holds no expired charge.
LEMMA ChargesTrim ==
    ASSUME NEW clock \in Nat, NEW q, NEW log, ChargesFollow(q, log, clock)
    PROVE  /\ ChargesFollow(TrimPairs(q, clock - Day), log, clock)
           /\ LET r == TrimPairs(q, clock - Day)
              IN  \A i \in 1..Len(r) : r[i].time >= clock - Day
<1> DEFINE r == TrimPairs(q, clock - Day)
           a == Len(log) - Len(q)
           b == Len(log) - Len(r)
<1>1. Day \in Nat /\ clock - Day \in Int
  BY LimitsAssumption
<1>2. /\ q \in Seq(Pair) /\ log \in Seq(Pair)
      /\ Len(q) \in Nat /\ Len(log) \in Nat /\ a \in Nat
      /\ \A i \in 1..Len(log) : log[i].time \in Nat
  BY ChargesAre
<1>3. /\ r \in Seq(Pair)
      /\ Len(r) \in 0..Len(q)
      /\ \A i \in 1..Len(r) : r[i] = q[Len(q) - Len(r) + i]
      /\ \A i \in 1..(Len(q) - Len(r)) : q[i].time < clock - Day
      /\ Len(r) > 0 => r[1].time >= clock - Day
  BY <1>1, <1>2, TrimPairsSpec DEF Pair
<1> HIDE DEF r
<1>4. /\ \A i \in 1..Len(q) : q[i] = log[a + i]
      /\ \A i \in 1..a : log[i].time < clock - Day
      /\ \A i \in 1..Len(log) : log[i].time <= clock
      /\ \A i, j \in 1..Len(log) : i <= j => log[i].time <= log[j].time
  BY DEF ChargesFollow
<1>5. a + Len(q) = Len(log) /\ b + Len(r) = Len(log) /\ b \in Nat /\ b - a = Len(q) - Len(r)
  BY <1>2, <1>3
<1> HIDE DEF a, b
<1>6. \A i \in 1..Len(r) : r[i] = log[b + i] /\ b + i \in 1..Len(log)
  <2>1. TAKE i \in 1..Len(r)
  <2>2. b - a + i \in 1..Len(q) /\ a + (b - a + i) = b + i /\ b + i \in 1..Len(log)
    BY <1>2, <1>3, <1>5
  <2>3. r[i] = q[b - a + i]
    BY <1>3, <1>5
  <2>4. QED
    BY <1>4, <2>2, <2>3
<1>7. \A i \in 1..b : log[i].time < clock - Day
  <2>1. TAKE i \in 1..b
  <2>2. CASE i \in 1..a
    BY <1>4, <2>2
  <2>3. CASE i - a \in 1..(b - a)
    <3>1. q[i - a].time < clock - Day
      BY <1>3, <1>5, <2>3
    <3>2. i - a \in 1..Len(q) /\ a + (i - a) = i
      BY <1>2, <1>3, <1>5, <2>3
    <3>3. QED
      BY <1>4, <3>1, <3>2
  <2>4. QED
    BY <1>2, <1>5, <2>2, <2>3
<1>8. \A i \in 1..Len(r) : r[i].time >= clock - Day
  <2>1. TAKE i \in 1..Len(r)
  <2>2. Len(r) > 0 /\ 1 \in 1..Len(r) /\ b + 1 <= b + i
    BY <1>3, <1>5
  <2>3. r[1] = log[b + 1] /\ r[i] = log[b + i] /\ b + 1 \in 1..Len(log) /\ b + i \in 1..Len(log)
    BY <1>6, <2>2
  <2>4. log[b + 1].time <= log[b + i].time
    BY <1>4, <2>2, <2>3
  <2>5. log[b + 1].time \in Nat /\ log[b + i].time \in Nat
    BY <1>2, <2>3
  <2>6. QED
    BY <1>1, <1>3, <2>2, <2>3, <2>4, <2>5
<1>9. Len(r) <= Len(log)
  BY <1>2, <1>3, <1>5
<1>10. ChargesFollow(r, log, clock)
  BY <1>2, <1>3, <1>4, <1>6, <1>7, <1>9 DEF ChargesFollow, b
<1>11. QED
  BY <1>8, <1>10 DEF r

\* A charge of the present goes to both.
LEMMA ChargesAppend ==
    ASSUME NEW clock \in Nat, NEW n \in Nat, NEW q, NEW log, ChargesFollow(q, log, clock)
    PROVE  LET e == [time |-> clock, tokens |-> n]
           IN  ChargesFollow(Append(q, e), Append(log, e), clock)
<1> DEFINE e == [time |-> clock, tokens |-> n]
           r == Append(q, e)
           h == Append(log, e)
           a == Len(log) - Len(q)
<1>1. /\ q \in Seq(Pair) /\ log \in Seq(Pair)
      /\ Len(q) \in Nat /\ Len(log) \in Nat /\ a \in Nat
      /\ \A i \in 1..Len(log) : log[i].time \in Nat
  BY ChargesAre
<1>2. e \in Pair /\ e.time = clock
  BY DEF Pair
<1> HIDE DEF e
<1>3. /\ r \in Seq(Pair) /\ Len(r) = Len(q) + 1
      /\ r[Len(q) + 1] = e /\ \A i \in 1..Len(q) : r[i] = q[i]
  BY <1>1, <1>2, AppendProperties
<1>4. /\ h \in Seq(Pair) /\ Len(h) = Len(log) + 1
      /\ h[Len(log) + 1] = e /\ \A i \in 1..Len(log) : h[i] = log[i]
  BY <1>1, <1>2, AppendProperties
<1> HIDE DEF r, h
<1>5. /\ \A i \in 1..Len(q) : q[i] = log[a + i]
      /\ \A i \in 1..a : log[i].time < clock - Day
      /\ \A i \in 1..Len(log) : log[i].time <= clock
      /\ \A i, j \in 1..Len(log) : i <= j => log[i].time <= log[j].time
  BY DEF ChargesFollow
<1>6. Len(h) - Len(r) = a /\ a + Len(q) = Len(log) /\ Len(r) <= Len(h)
  BY <1>1, <1>3, <1>4
<1> HIDE DEF a
<1>7. \A i \in 1..Len(r) : r[i] = h[a + i]
  <2>1. TAKE i \in 1..Len(r)
  <2>2. CASE i = Len(q) + 1
    <3>1. a \in Nat /\ Len(q) \in Nat
      BY <1>1
    <3>2. a + i = Len(log) + 1
      BY <1>6, <2>2, <3>1
    <3>3. QED
      BY <1>3, <1>4, <2>2, <3>2
  <2>3. CASE i \in 1..Len(q)
    <3>1. a + i \in 1..Len(log)
      BY <1>1, <1>6, <2>3
    <3>2. QED
      BY <1>3, <1>4, <1>5, <2>3, <3>1
  <2>4. QED
    BY <1>1, <1>3, <2>2, <2>3
<1>8. \A i \in 1..a : h[i].time < clock - Day
  <2>1. TAKE i \in 1..a
  <2>2. i \in 1..Len(log)
    BY <1>1, <1>6
  <2>3. QED
    BY <1>4, <1>5, <2>2
<1>9. \A i \in 1..Len(h) : h[i].time <= clock
  <2>1. TAKE i \in 1..Len(h)
  <2>2. i \in 1..Len(log) \/ i = Len(log) + 1
    BY <1>1, <1>4
  <2>3. QED
    BY <1>2, <1>4, <1>5, <2>2
<1>10. \A i, j \in 1..Len(h) : i <= j => h[i].time <= h[j].time
  <2>1. SUFFICES ASSUME NEW i \in 1..Len(h), NEW j \in 1..Len(h), i <= j
                 PROVE  h[i].time <= h[j].time
    OBVIOUS
  <2>2. CASE j \in 1..Len(log)
    <3>1. i \in 1..Len(log)
      BY <1>1, <1>4, <2>1, <2>2
    <3>2. QED
      BY <1>4, <1>5, <2>1, <2>2, <3>1
  <2>3. CASE j = Len(log) + 1
    BY <1>2, <1>4, <1>9, <2>3
  <2>4. QED
    BY <1>1, <1>4, <2>2, <2>3
<1>11. ChargesFollow(r, h, clock)
  BY <1>3, <1>4, <1>6, <1>7, <1>8, <1>9, <1>10 DEF ChargesFollow
<1>12. QED
  BY <1>11 DEF r, h, e

\* After its trim the deque adds up to what the log holds of the last day.
LEMMA LiveSum ==
    ASSUME NEW clock \in Nat, NEW q, NEW log, ChargesFollow(q, log, clock)
    PROVE  TokenSum(TrimPairs(q, clock - Day)) = TokenSum(LastDay(log, clock))
<1> DEFINE r == TrimPairs(q, clock - Day)
           d == Len(log) - Len(r)
<1>1. ChargesFollow(r, log, clock) /\ \A i \in 1..Len(r) : r[i].time >= clock - Day
  BY ChargesTrim
<1> HIDE DEF r
<1>2. /\ r \in Seq(Pair) /\ log \in Seq(Pair)
      /\ Len(r) \in Nat /\ Len(log) \in Nat /\ d \in Nat
      /\ \A i \in 1..Len(log) : log[i].time \in Nat
  BY <1>1, ChargesAre
<1>3. LastDay(log, clock) \in Seq(Pair) /\ Len(LastDay(log, clock)) = Len(log)
  BY <1>2, LastDayIs
<1>4. d + Len(r) = Len(log)
  BY <1>2
<1>5. /\ \A i \in 1..Len(r) : r[i] = log[d + i]
      /\ \A i \in 1..d : log[i].time < clock - Day
  BY <1>1 DEF ChargesFollow
<1> HIDE DEF d
<1>6. \A i \in 1..d : LastDay(log, clock)[i].tokens = 0
  <2>1. TAKE i \in 1..d
  <2>2. i \in 1..Len(log) /\ log[i].time < clock - Day
    BY <1>2, <1>4, <1>5
  <2>3. ~(log[i].time >= clock - Day)
    <3>1. log[i].time \in Nat /\ Day \in Nat
      BY <1>2, <2>2, LimitsAssumption
    <3>2. QED
      BY <2>2, <3>1
  <2>4. QED
    BY <1>2, <2>2, <2>3, LastDayIs
<1>7. \A i \in 1..Len(r) : LastDay(log, clock)[d + i].tokens = r[i].tokens
  <2>1. TAKE i \in 1..Len(r)
  <2>2. d + i \in 1..Len(log) /\ r[i] = log[d + i] /\ log[d + i].time >= clock - Day
    BY <1>1, <1>2, <1>4, <1>5
  <2>3. QED
    BY <1>2, <2>2, LastDayIs
<1>8. TokenSum(LastDay(log, clock)) = TokenSum(r)
  BY <1>2, <1>3, <1>4, <1>6, <1>7, TokenSumOfEnd
<1>9. QED
  BY <1>8 DEF r

\* A charge of the present adds to the last day what it costs.
LEMMA DayOfCharge ==
    ASSUME NEW clock \in Nat, NEW n \in Nat, NEW log \in Seq(Pair)
    PROVE  LET e == [time |-> clock, tokens |-> n]
           IN  TokenSum(LastDay(Append(log, e), clock)) <= TokenSum(LastDay(log, clock)) + n
<1> DEFINE e == [time |-> clock, tokens |-> n]
           h == Append(log, e)
           q == LastDay(h, clock)
           r == Append(LastDay(log, clock), e)
<1>1. e \in Pair /\ e.tokens = n
  BY DEF Pair
<1> HIDE DEF e
<1>2. Len(log) \in Nat
  BY PairsAre
<1>3. /\ h \in Seq(Pair) /\ Len(h) = Len(log) + 1
      /\ h[Len(log) + 1] = e /\ \A i \in 1..Len(log) : h[i] = log[i]
  BY <1>1, AppendProperties
<1> HIDE DEF h
<1>4. /\ LastDay(log, clock) \in Seq(Pair) /\ Len(LastDay(log, clock)) = Len(log)
      /\ \A i \in 1..Len(log) :
            LastDay(log, clock)[i].tokens = IF log[i].time >= clock - Day THEN log[i].tokens ELSE 0
  BY LastDayIs
<1>5. /\ q \in Seq(Pair) /\ Len(q) = Len(log) + 1
      /\ \A i \in 1..(Len(log) + 1) :
            /\ q[i].tokens = IF h[i].time >= clock - Day THEN h[i].tokens ELSE 0
            /\ q[i].tokens <= h[i].tokens
  BY <1>3, LastDayIs
<1>6. /\ r \in Seq(Pair) /\ Len(r) = Len(log) + 1
      /\ r[Len(log) + 1] = e /\ \A i \in 1..Len(log) : r[i] = LastDay(log, clock)[i]
  BY <1>1, <1>4, AppendProperties
<1>7. TokenSum(r) = TokenSum(LastDay(log, clock)) + n
  BY <1>1, <1>4, TokenSumFacts
<1> HIDE DEF q, r
<1>8. \A i \in 1..Len(q) : q[i].tokens <= r[i].tokens
  <2>1. TAKE i \in 1..Len(q)
  <2>2. CASE i \in 1..Len(log)
    <3>1. q[i].tokens = r[i].tokens /\ r[i] \in Pair /\ i \in 1..Len(r)
      BY <1>2, <1>3, <1>4, <1>5, <1>6, <2>2, PairsAre
    <3>2. r[i].tokens \in Nat
      BY <1>6, <3>1, PairsAre
    <3>3. QED
      BY <3>1, <3>2
  <2>3. CASE i = Len(log) + 1
    BY <1>3, <1>5, <1>6, <2>3
  <2>4. QED
    BY <1>2, <1>5, <2>2, <2>3
<1>9. TokenSum(q) <= TokenSum(r)
  BY <1>5, <1>6, <1>8, TokenSumGrows
<1>10. QED
  BY <1>7, <1>9 DEF q, h, e

\* As time passes a log has less of the last day.
LEMMA DayPasses ==
    ASSUME NEW clock \in Nat, NEW later \in Nat, clock <= later, NEW log \in Seq(Pair)
    PROVE  TokenSum(LastDay(log, later)) <= TokenSum(LastDay(log, clock))
<1>1. Day \in Nat /\ Len(log) \in Nat
      /\ \A i \in 1..Len(log) : log[i].time \in Nat /\ log[i].tokens \in Nat
  BY PairsAre, LimitsAssumption
<1>2. LastDay(log, later) \in Seq(Pair) /\ Len(LastDay(log, later)) = Len(log)
  BY LastDayIs
<1>3. LastDay(log, clock) \in Seq(Pair) /\ Len(LastDay(log, clock)) = Len(log)
  BY LastDayIs
<1>4. ASSUME NEW i \in 1..Len(log)
      PROVE  LastDay(log, later)[i].tokens <= LastDay(log, clock)[i].tokens
  <2>1. LastDay(log, later)[i].tokens = IF log[i].time >= later - Day THEN log[i].tokens ELSE 0
    BY LastDayIs
  <2>2. LastDay(log, clock)[i].tokens = IF log[i].time >= clock - Day THEN log[i].tokens ELSE 0
    BY LastDayIs
  <2>3. log[i].time >= later - Day => log[i].time >= clock - Day
    BY <1>1
  <2>4. QED
    BY <1>1, <2>1, <2>2, <2>3
<1>5. QED
  BY <1>2, <1>3, <1>4, TokenSumGrows

-----------------------------------------------------------------------------
(* The specification.                                                      *)

\* The inductive invariant: every deque is the live end of its history.
HitsFollow ==
    /\ \A t \in Tenants : Follows(tenantHits[t], tenantLog[t], TenantPerHour, now)
    /\ \A k \in Keys : Follows(userHits[k], userLog[k], UserPerHour, now)

IInv == TypeOK /\ HitsFollow

\* What the two deques a request looks at are after their trim.
LEMMA LiveHits ==
    ASSUME IInv, NEW t \in Tenants, NEW u \in Users
    PROVE  /\ Follows(LiveTenantHits(t), tenantLog[t], TenantPerHour, now)
           /\ LiveTenantHits(t) \in Seq(Nat)
           /\ Len(LiveTenantHits(t)) = Cardinality(Quota!InLastHour(tenantLog[t]))
           /\ Len(LiveTenantHits(t)) \in Nat
           /\ Follows(LiveUserHits(<<t, u>>), userLog[<<t, u>>], UserPerHour, now)
           /\ LiveUserHits(<<t, u>>) \in Seq(Nat)
           /\ Len(LiveUserHits(<<t, u>>)) = Cardinality(Quota!InLastHour(userLog[<<t, u>>]))
           /\ Len(LiveUserHits(<<t, u>>)) \in Nat
<1>1. TenantPerHour \in Nat /\ UserPerHour \in Nat /\ now \in Nat
  BY LimitsAssumption DEF IInv, TypeOK
<1>2. <<t, u>> \in Keys
  BY DEF Keys
<1>3. Follows(tenantHits[t], tenantLog[t], TenantPerHour, now)
  BY DEF IInv, HitsFollow
<1>4. Follows(userHits[<<t, u>>], userLog[<<t, u>>], UserPerHour, now)
  BY <1>2 DEF IInv, HitsFollow
<1>5. Follows(LiveTenantHits(t), tenantLog[t], TenantPerHour, now)
  BY <1>1, <1>3, FollowsTrim DEF LiveTenantHits
<1>6. Len(LiveTenantHits(t)) = Cardinality(Quota!InLastHour(tenantLog[t]))
  BY <1>1, <1>3, FollowsCount DEF LiveTenantHits, Quota!InLastHour
<1>7. Follows(LiveUserHits(<<t, u>>), userLog[<<t, u>>], UserPerHour, now)
  BY <1>1, <1>4, FollowsTrim DEF LiveUserHits
<1>8. Len(LiveUserHits(<<t, u>>)) = Cardinality(Quota!InLastHour(userLog[<<t, u>>]))
  BY <1>1, <1>4, FollowsCount DEF LiveUserHits, Quota!InLastHour
<1>9. LiveTenantHits(t) \in Seq(Nat) /\ LiveUserHits(<<t, u>>) \in Seq(Nat)
  BY <1>5, <1>7 DEF Follows
<1>10. QED
  BY <1>5, <1>6, <1>7, <1>8, <1>9, LenProperties

\* The token deque after its trim.
LEMMA LiveTokensType ==
    ASSUME TypeOK, NEW t \in Tenants
    PROVE  LiveTokens(t) \in Seq([time : Nat, tokens : Nat])
<1>1. tenantTokens[t] \in Seq([time : Nat, tokens : Nat]) /\ now - Day \in Int
  BY LimitsAssumption DEF TypeOK
<1>2. QED
  BY <1>1, TrimPairsSpec DEF LiveTokens, Pair

LEMMA InitInv == Init => IInv
<1> SUFFICES ASSUME Init PROVE IInv
  OBVIOUS
<1>1. now \in Nat /\ TenantPerHour \in Nat /\ UserPerHour \in Nat
  BY LimitsAssumption DEF Init
<1>2. TypeOK
  BY EmptySeq DEF Init, Empty, TypeOK, Call
<1>3. HitsFollow
  BY <1>1, FollowsEmpty DEF Init, Empty, HitsFollow
<1>4. QED
  BY <1>2, <1>3 DEF IInv

\* What a coroutine may be doing.
LEMMA CallMembers ==
    /\ Idle \in Call
    /\ \A t \in Tenants : Running(t) \in Call
    /\ \A t \in Tenants, u \in Users, sc \in Scopes : Refused(t, u, sc) \in Call
BY DEF Call

\* A coroutine moves on to another of its states.
LEMMA CallUpdate ==
    ASSUME TypeOK, NEW s \in Slots, NEW c \in Call, call' = [call EXCEPT ![s] = c]
    PROVE  call' \in [Slots -> Call]
BY DEF TypeOK

\* A refused request leaves both deques trimmed.
LEMMA RefuseInv ==
    ASSUME IInv, NEW s \in Slots, NEW t \in Tenants, NEW u \in Users,
           NEW scope \in {"tenant", "user"}, RefuseRequest(s, t, u, scope)
    PROVE  IInv'
<1> DEFINE k == <<t, u>>
<1>1. k \in Keys
  BY DEF Keys
<1>2. /\ Follows(LiveTenantHits(t), tenantLog[t], TenantPerHour, now)
      /\ LiveTenantHits(t) \in Seq(Nat)
      /\ Follows(LiveUserHits(k), userLog[k], UserPerHour, now)
      /\ LiveUserHits(k) \in Seq(Nat)
  BY LiveHits
<1> HIDE DEF k
<1>3. /\ tenantHits' = [tenantHits EXCEPT ![t] = LiveTenantHits(t)]
      /\ userHits' = [userHits EXCEPT ![k] = LiveUserHits(k)]
      /\ UNCHANGED <<now, tenantTokens, tenantLog, userLog, tokenLog>>
  BY DEF RefuseRequest, k
<1>4. TypeOK'
  <2>1. call' \in [Slots -> Call]
    <3>1. Refused(t, u, scope) \in Call
      BY CallMembers DEF Scopes
    <3>2. call' = [call EXCEPT ![s] = Refused(t, u, scope)]
      BY DEF RefuseRequest
    <3>3. QED
      BY <3>1, <3>2, CallUpdate DEF IInv
  <2>2. QED
    BY <1>1, <1>2, <1>3, <2>1 DEF IInv, TypeOK
<1>5. HitsFollow'
  <2>1. ASSUME NEW x \in Tenants PROVE Follows(tenantHits'[x], tenantLog'[x], TenantPerHour, now')
    BY <1>2, <1>3 DEF IInv, TypeOK, HitsFollow
  <2>2. ASSUME NEW x \in Keys PROVE Follows(userHits'[x], userLog'[x], UserPerHour, now')
    BY <1>1, <1>2, <1>3 DEF IInv, TypeOK, HitsFollow
  <2>3. QED
    BY <2>1, <2>2 DEF HitsFollow
<1>6. QED
  BY <1>4, <1>5 DEF IInv

\* An accepted request adds the present to two trimmed deques that have room.
LEMMA AcceptInv ==
    ASSUME IInv, NEW s \in Slots, NEW t \in Tenants, NEW u \in Users,
           AcceptRequest(s, t, u)
    PROVE  IInv'
<1> DEFINE k == <<t, u>>
<1>1. k \in Keys
  BY DEF Keys
<1>2. /\ Follows(LiveTenantHits(t), tenantLog[t], TenantPerHour, now)
      /\ LiveTenantHits(t) \in Seq(Nat)
      /\ Follows(LiveUserHits(k), userLog[k], UserPerHour, now)
      /\ LiveUserHits(k) \in Seq(Nat)
  BY LiveHits
<1> HIDE DEF k
<1>3. /\ Len(LiveTenantHits(t)) < TenantPerHour
      /\ Len(LiveUserHits(k)) < UserPerHour
      /\ tenantHits' = [tenantHits EXCEPT ![t] = Append(LiveTenantHits(t), now)]
      /\ userHits' = [userHits EXCEPT ![k] = Append(LiveUserHits(k), now)]
      /\ tenantLog' = [tenantLog EXCEPT ![t] = Append(tenantLog[t], now)]
      /\ userLog' = [userLog EXCEPT ![k] = Append(userLog[k], now)]
      /\ tenantTokens' = [tenantTokens EXCEPT ![t] = LiveTokens(t)]
      /\ now' = now /\ tokenLog' = tokenLog
  BY DEF AcceptRequest, RecordRequest, Record, k
<1>4. now \in Nat /\ TenantPerHour \in Nat \ {0} /\ UserPerHour \in Nat \ {0}
  BY LimitsAssumption DEF IInv, TypeOK
<1>5. Follows(Append(LiveTenantHits(t), now), Append(tenantLog[t], now), TenantPerHour, now)
  BY <1>2, <1>3, <1>4, FollowsAppend
<1>6. Follows(Append(LiveUserHits(k), now), Append(userLog[k], now), UserPerHour, now)
  BY <1>2, <1>3, <1>4, FollowsAppend
<1>7. /\ Append(LiveTenantHits(t), now) \in Seq(Nat) /\ Append(tenantLog[t], now) \in Seq(Nat)
      /\ Append(LiveUserHits(k), now) \in Seq(Nat) /\ Append(userLog[k], now) \in Seq(Nat)
  BY <1>5, <1>6 DEF Follows
<1>8. TypeOK'
  <2>1. call' \in [Slots -> Call]
    <3>1. TokenVerdict(t, u) \in Call
      BY CallMembers DEF Scopes, TokenVerdict
    <3>2. call' = [call EXCEPT ![s] = TokenVerdict(t, u)]
      BY DEF AcceptRequest
    <3>3. QED
      BY <3>1, <3>2, CallUpdate DEF IInv
  <2>2. LiveTokens(t) \in Seq([time : Nat, tokens : Nat])
    BY LiveTokensType DEF IInv
  <2>3. QED
    BY <1>1, <1>3, <1>7, <2>1, <2>2 DEF IInv, TypeOK
<1>9. HitsFollow'
  <2>1. ASSUME NEW x \in Tenants PROVE Follows(tenantHits'[x], tenantLog'[x], TenantPerHour, now')
    BY <1>3, <1>5 DEF IInv, TypeOK, HitsFollow
  <2>2. ASSUME NEW x \in Keys PROVE Follows(userHits'[x], userLog'[x], UserPerHour, now')
    BY <1>1, <1>3, <1>6 DEF IInv, TypeOK, HitsFollow
  <2>3. QED
    BY <2>1, <2>2 DEF HitsFollow
<1>10. QED
  BY <1>8, <1>9 DEF IInv

\* Every step preserves the invariant.
LEMMA NextInv == IInv /\ [Next]_vars => IInv'
<1> SUFFICES ASSUME IInv, [Next]_vars PROVE IInv'
  OBVIOUS
<1>1. ASSUME NEW s \in Slots, NEW t \in Tenants, NEW u \in Users, StartRequest(s, t, u)
      PROVE  IInv'
  BY <1>1, RefuseInv, AcceptInv DEF StartRequest
<1>2. ASSUME NEW s \in Slots, NEW n \in Costs, RecordTokens(s, n)
      PROVE  IInv'
  <2>1. n \in Nat /\ now \in Nat
    BY LimitsAssumption DEF IInv, TypeOK
  <2>2. call[s] \in Call /\ call[s].at = "running"
    BY <1>2 DEF RecordTokens, IInv, TypeOK
  <2>3. call[s].tenant \in Tenants
    BY <2>2 DEF Call, Idle, Running, Refused, Scopes
  <2>4. ASSUME NEW queues \in [Tenants -> Seq([time : Nat, tokens : Nat])]
        PROVE  Charge(queues, call[s].tenant, n)
                   \in [Tenants -> Seq([time : Nat, tokens : Nat])]
    <3>1. Append(queues[call[s].tenant], [time |-> now, tokens |-> n])
              \in Seq([time : Nat, tokens : Nat])
      BY <2>1, <2>3, AppendProperties
    <3>2. QED
      BY <2>3, <3>1 DEF Charge
  <2>5. /\ tenantTokens' \in [Tenants -> Seq([time : Nat, tokens : Nat])]
        /\ tokenLog' \in [Tenants -> Seq([time : Nat, tokens : Nat])]
    BY <1>2, <2>4 DEF RecordTokens, IInv, TypeOK
  <2>6. call' \in [Slots -> Call]
    BY <1>2, CallMembers, CallUpdate DEF RecordTokens, IInv
  <2>7. QED
    BY <1>2, <2>5, <2>6 DEF RecordTokens, IInv, TypeOK, HitsFollow
<1>3. ASSUME NEW s \in Slots, FailRequest(s) \/ AnswerRefusal(s)
      PROVE  IInv'
  <2>1. call' = [call EXCEPT ![s] = Idle]
    BY <1>3 DEF FailRequest, AnswerRefusal
  <2>2. call' \in [Slots -> Call]
    BY <2>1, CallMembers, CallUpdate DEF IInv
  <2>3. QED
    BY <1>3, <2>2 DEF FailRequest, AnswerRefusal, IInv, TypeOK, HitsFollow
<1>4. ASSUME NEW t \in Tenants, Snapshot(t)
      PROVE  IInv'
  <2>1. now \in Nat /\ TenantPerHour \in Nat
    BY LimitsAssumption DEF IInv, TypeOK
  <2>2. Follows(tenantHits[t], tenantLog[t], TenantPerHour, now)
    BY DEF IInv, HitsFollow
  <2>3. Follows(LiveTenantHits(t), tenantLog[t], TenantPerHour, now)
    BY <2>1, <2>2, FollowsTrim DEF LiveTenantHits
  <2>4. LiveTenantHits(t) \in Seq(Nat)
    BY <2>3 DEF Follows
  <2>5. LiveTokens(t) \in Seq([time : Nat, tokens : Nat])
    BY LiveTokensType DEF IInv
  <2>6. TypeOK'
    BY <1>4, <2>4, <2>5 DEF Snapshot, IInv, TypeOK
  <2>7. HitsFollow'
    BY <1>4, <2>3 DEF Snapshot, IInv, TypeOK, HitsFollow
  <2>8. QED
    BY <2>6, <2>7 DEF IInv
<1>5. CASE Restart
  <2>1. now \in Nat /\ TenantPerHour \in Nat /\ UserPerHour \in Nat
    BY LimitsAssumption DEF IInv, TypeOK
  <2>2. TypeOK'
    BY <1>5, EmptySeq DEF Restart, IInv, TypeOK, Call
  <2>3. HitsFollow'
    BY <1>5, <2>1, FollowsEmpty DEF Restart, HitsFollow
  <2>4. QED
    BY <2>2, <2>3 DEF IInv
<1>6. CASE Tick
  <2>1. now \in Nat /\ now + 1 \in Nat /\ now <= now + 1
        /\ TenantPerHour \in Nat /\ UserPerHour \in Nat
    BY LimitsAssumption DEF IInv, TypeOK
  <2>2. TypeOK'
    BY <1>6, <2>1 DEF Tick, IInv, TypeOK
  <2>3. HitsFollow'
    BY <1>6, <2>1, FollowsTick DEF Tick, IInv, HitsFollow
  <2>4. QED
    BY <2>2, <2>3 DEF IInv
<1>7. CASE UNCHANGED vars
  BY <1>7 DEF vars, IInv, TypeOK, HitsFollow
<1>8. QED
  BY <1>1, <1>2, <1>3, <1>4, <1>5, <1>6, <1>7 DEF Next

-----------------------------------------------------------------------------
(* Theorems.                                                               *)

\* The deques never lose a hit that still counts, in any reachable state.
THEOREM LimiterInvariant == Spec => []IInv
BY InitInv, NextInv, PTL DEF Spec

\* Every variable of the limiter keeps its type.
THEOREM TypeCorrect == Spec => []TypeOK
<1>1. IInv => TypeOK
  BY DEF IInv
<1>2. QED
  BY <1>1, LimiterInvariant, PTL

\* No hour ever sees more than tenant_per_hour recorded requests of a tenant,
\* for any number of users, coroutines and limits.
THEOREM TenantQuotaHolds == Spec => []TenantQuota
<1>1. IInv => TenantQuota
  BY DEF IInv, HitsFollow, Follows, TenantQuota
<1>2. QED
  BY <1>1, LimiterInvariant, PTL

\* No hour ever sees more than user_per_hour recorded requests of a user.
THEOREM UserQuotaHolds == Spec => []UserQuota
<1>1. IInv => UserQuota
  BY DEF IInv, HitsFollow, Follows, UserQuota
<1>2. QED
  BY <1>1, LimiterInvariant, PTL

\* The instance counts as this module does.
LEMMA SameCardinality == \A S : Quota!Cardinality(S) = Cardinality(S)
BY DEF Quota!Cardinality, Cardinality

\* The initial state of the limiter is one of the promise.
LEMMA QuotaInit == Init => Quota!Init
BY DEF Init, Empty, Quota!Init, Quota!NoHistory, Keys, Quota!Keys, Idle, Quota!Idle

\* Every step of the limiter is a step of the promise, or changes none of it.
LEMMA QuotaStep == IInv /\ [Next]_vars => [Quota!Next]_(Quota!qvars)
<1> SUFFICES ASSUME IInv, [Next]_vars PROVE [Quota!Next]_(Quota!qvars)
  OBVIOUS
<1> USE DEF Quota!Keys, Quota!Idle, Quota!Running, Quota!Refused
<1>0. TenantPerHour \in Nat /\ UserPerHour \in Nat
  BY LimitsAssumption
<1>1. ASSUME NEW s \in Slots, NEW t \in Tenants, NEW u \in Users, StartRequest(s, t, u)
      PROVE  Quota!Next
  <2>1. /\ Len(LiveTenantHits(t)) = Cardinality(Quota!InLastHour(tenantLog[t]))
        /\ Len(LiveTenantHits(t)) \in Nat
        /\ Len(LiveUserHits(<<t, u>>)) = Cardinality(Quota!InLastHour(userLog[<<t, u>>]))
        /\ Len(LiveUserHits(<<t, u>>)) \in Nat
    BY LiveHits
  <2>2. CASE RefuseRequest(s, t, u, "tenant")
    <3>1. Quota!TenantFull(t)
      BY <1>0, <2>1, <2>2, SameCardinality DEF RefuseRequest, Quota!TenantFull
    <3>2. call[s] = Idle /\ call' = [call EXCEPT ![s] = Refused(t, u, "tenant")]
          /\ UNCHANGED <<now, tenantLog, userLog>>
      BY <1>1, <2>2 DEF StartRequest, RefuseRequest
    <3>3. Quota!TurnAway(s, t, u)
      BY <3>1, <3>2 DEF Quota!TurnAway, Idle, Refused
    <3>4. QED
      BY <3>3 DEF Quota!Next
  <2>3. CASE RefuseRequest(s, t, u, "user")
    <3>1. Quota!UserFull(<<t, u>>)
      BY <1>0, <2>1, <2>3, SameCardinality DEF RefuseRequest, Quota!UserFull
    <3>2. call[s] = Idle /\ call' = [call EXCEPT ![s] = Refused(t, u, "user")]
          /\ UNCHANGED <<now, tenantLog, userLog>>
      BY <1>1, <2>3 DEF StartRequest, RefuseRequest
    <3>3. Quota!TurnAway(s, t, u)
      BY <3>1, <3>2 DEF Quota!TurnAway, Idle, Refused
    <3>4. QED
      BY <3>3 DEF Quota!Next
  <2>4. CASE AcceptRequest(s, t, u)
    <3>1. ~Quota!TenantFull(t)
      BY <1>0, <2>1, <2>4, SameCardinality DEF AcceptRequest, RecordRequest, Quota!TenantFull
    <3>2. ~Quota!UserFull(<<t, u>>)
      BY <1>0, <2>1, <2>4, SameCardinality DEF AcceptRequest, RecordRequest, Quota!UserFull
    <3>3. Quota!Admit(s, t, u)
      BY <1>1, <2>4, <3>1, <3>2 DEF StartRequest, AcceptRequest, RecordRequest, Record, TokenVerdict,
                              Quota!Admit, Idle, Refused, Running
    <3>4. QED
      BY <3>3 DEF Quota!Next
  <2>5. QED
    BY <1>1, <2>2, <2>3, <2>4 DEF StartRequest
<1>2. ASSUME NEW s \in Slots, NEW n \in Costs, RecordTokens(s, n)
      PROVE  Quota!Next
  <2>1. Quota!Leave(s)
    BY <1>2 DEF RecordTokens, Quota!Leave, Idle
  <2>2. QED
    BY <2>1 DEF Quota!Next
<1>3. ASSUME NEW s \in Slots, FailRequest(s) \/ AnswerRefusal(s)
      PROVE  Quota!Next
  <2>1. Quota!Leave(s)
    BY <1>3 DEF FailRequest, AnswerRefusal, Quota!Leave, Idle
  <2>2. QED
    BY <2>1 DEF Quota!Next
<1>4. ASSUME NEW t \in Tenants, Snapshot(t)
      PROVE  UNCHANGED Quota!qvars
  BY <1>4 DEF Snapshot, Quota!qvars
<1>5. CASE Restart
  BY <1>5 DEF Restart, Quota!Forget, Quota!Next, Keys, Idle
<1>6. CASE Tick
  BY <1>6 DEF Tick, Quota!Tick, Quota!Next
<1>7. CASE UNCHANGED vars
  BY <1>7 DEF vars, Quota!qvars
<1>8. QED
  BY <1>1, <1>2, <1>3, <1>4, <1>5, <1>6, <1>7 DEF Next

\* The limiter implements the promise: every decision it takes from its lazily
\* trimmed deques is the one the whole history of requests calls for.
THEOREM LimiterImplementsQuota == Spec => ImplementsQuota
<1>1. IInv /\ [Next]_vars => [Quota!Next]_(Quota!qvars)
  BY QuotaStep
<1>2. QED
  BY <1>1, QuotaInit, LimiterInvariant, PTL DEF Spec, Quota!Spec, ImplementsQuota

-----------------------------------------------------------------------------
(* The token budget.                                                        *)

TokensFollow == \A t \in Tenants : ChargesFollow(tenantTokens[t], tokenLog[t], now)

\* The coroutines that have no charge for t to come.
Others(t) == {s \in Slots : call[s] # Running(t)}

Affordable(t) == UsedLastDay(t) < TokensPerDay + Cardinality(Others(t)) * MaxCost

\* The inductive invariant: what is used fits the budget and one charge of each
\* coroutine that is not in flight for the tenant, which has had its turn.
BudgetInv == IInv /\ TokensFollow /\ \A t \in Tenants : Affordable(t)

\* What a step needs to know of the sums.
LEMMA UsedIs ==
    ASSUME IInv, TokensFollow, NEW t \in Tenants
    PROVE  /\ tokenLog[t] \in Seq(Pair)
           /\ UsedLastDay(t) \in Nat
           /\ TokenSum(LiveTokens(t)) = UsedLastDay(t)
<1>1. now \in Nat /\ ChargesFollow(tenantTokens[t], tokenLog[t], now)
  BY DEF IInv, TypeOK, TokensFollow
<1>2. tokenLog[t] \in Seq(Pair)
  BY <1>1 DEF ChargesFollow
<1>3. LastDay(tokenLog[t], now) \in Seq(Pair)
  BY <1>2, LastDayIs
<1>4. UsedLastDay(t) \in Nat
  BY <1>3, TokenSumFacts DEF UsedLastDay
<1>5. TokenSum(LiveTokens(t)) = UsedLastDay(t)
  BY <1>1, LiveSum DEF LiveTokens, UsedLastDay
<1>6. QED
  BY <1>2, <1>4, <1>5

\* Arithmetic of one more coroutine.
LEMMA OneMore ==
    ASSUME NEW a \in Nat, NEW b \in Nat, NEW m \in Nat
    PROVE  /\ a * m \in Nat
           /\ (a + 1) * m = a * m + m
           /\ a <= b => a * m <= b * m
  OBVIOUS

\* A tenant stays within its means when it has used no more and no coroutine
\* has turned to it.
LEMMA StaysAffordable ==
    ASSUME IsFiniteSet(Slots), MaxCost \in Nat, NEW t \in Tenants, Affordable(t),
           NEW x \in Nat, x = UsedLastDay(t), NEW y \in Nat, y = UsedLastDay(t)', y <= x,
           NEW O, O = Others(t), NEW P, P = Others(t)', O \subseteq P
    PROVE  Affordable(t)'
<1>1. IsFiniteSet(P) /\ Cardinality(P) \in Nat /\ Cardinality(O) \in Nat
      /\ Cardinality(O) <= Cardinality(P)
  <2>1. P \subseteq Slots
    BY DEF Others
  <2>2. IsFiniteSet(P)
    BY <2>1, FS_Subset
  <2>3. IsFiniteSet(O) /\ Cardinality(O) <= Cardinality(P)
    BY <2>2, FS_Subset
  <2>4. QED
    BY <2>2, <2>3, FS_CardinalityType
<1>2. PICK a \in Nat, b \in Nat : a = Cardinality(O) * MaxCost /\ b = Cardinality(P) * MaxCost /\ a <= b
  BY <1>1, OneMore
<1>3. x < TokensPerDay + a
  BY <1>2 DEF Affordable
<1>4. y < TokensPerDay + b
  BY <1>2, <1>3, LimitsAssumption
<1>5. QED
  BY <1>2, <1>4 DEF Affordable

\* The same of a step that moves one coroutine on and charges nothing.
LEMMA Uncharged ==
    ASSUME IsFiniteSet(Slots), MaxCost \in Nat, BudgetInv,
           now' \in Nat, now <= now', tokenLog' = tokenLog, NEW t \in Tenants,
           \A s \in Slots : call'[s] = Running(t) => call[s] = Running(t)
    PROVE  Affordable(t)'
<1>1. now \in Nat /\ tokenLog[t] \in Seq(Pair)
  BY UsedIs DEF BudgetInv, IInv, TypeOK
<1>2. PICK l \in Seq(Pair), c \in Nat, d \in Nat : l = tokenLog[t] /\ c = now /\ d = now' /\ c <= d
  BY <1>1
<1>3. PICK x, y : x = TokenSum(LastDay(l, c)) /\ y = TokenSum(LastDay(l, d))
  OBVIOUS
<1>4. x \in Nat /\ y \in Nat /\ y <= x
  BY <1>3, LastDayIs, TokenSumFacts, DayPasses, <1>2
<1>5. x = UsedLastDay(t) /\ y = UsedLastDay(t)'
  BY <1>2, <1>3 DEF UsedLastDay
<1>6. PICK O, P : O = Others(t) /\ P = Others(t)'
  OBVIOUS
<1>7. O \subseteq P
  BY <1>6 DEF Others
<1>8. QED
  BY <1>4, <1>5, <1>6, <1>7, StaysAffordable DEF BudgetInv

\* A request that may run finds less used than the budget.
LEMMA AdmittedIsAffordable ==
    ASSUME IsFiniteSet(Slots), MaxCost \in Nat, BudgetInv, NEW t \in Tenants,
           now' = now, tokenLog' = tokenLog, TokenSum(LiveTokens(t)) < TokensPerDay
    PROVE  Affordable(t)'
<1>1. UsedLastDay(t)' = UsedLastDay(t) /\ UsedLastDay(t) \in Nat /\ UsedLastDay(t) < TokensPerDay
  BY UsedIs DEF BudgetInv, UsedLastDay
<1>2. PICK P : P = Others(t)' /\ P \subseteq Slots
  BY DEF Others
<1>3. Cardinality(P) \in Nat
  BY <1>2, FS_Subset, FS_CardinalityType
<1>4. PICK a \in Nat : a = Cardinality(P) * MaxCost
  BY <1>3, OneMore
<1>5. UsedLastDay(t) < TokensPerDay + a
  BY <1>1, LimitsAssumption
<1>6. QED
  BY <1>1, <1>2, <1>4, <1>5 DEF Affordable

\* What coroutines are in flight for.
LEMMA InFlight ==
    ASSUME TypeOK, NEW s \in Slots
    PROVE  /\ call[s].at = "running" => call[s].tenant \in Tenants /\ call[s] = Running(call[s].tenant)
           /\ \A t, u, w, scope : Refused(t, u, scope) # Running(w) /\ Idle # Running(w)
           /\ \A t, w : Running(t) = Running(w) => t = w
<1>1. call[s] \in Call
  BY DEF TypeOK
<1>2. QED
  BY <1>1 DEF Call, Idle, Running, Refused, Scopes

\* A charge is paid by the coroutine that leaves.
LEMMA ChargeAffordable ==
    ASSUME IsFiniteSet(Slots), MaxCost \in Nat, \A n \in Costs : n <= MaxCost, BudgetInv,
           NEW s \in Slots, NEW n \in Costs, RecordTokens(s, n), n > 0, NEW t \in Tenants,
           call[s] = Running(t)
    PROVE  Affordable(t)'
<1>1. n \in Nat /\ n <= MaxCost /\ now \in Nat /\ tokenLog[t] \in Seq(Pair)
      /\ tokenLog \in [Tenants -> Seq(Pair)] /\ call[s].tenant = t
  BY UsedIs, LimitsAssumption DEF BudgetInv, IInv, TypeOK, Pair, Running
<1>2. PICK l \in Seq(Pair), c \in Nat : l = tokenLog[t] /\ c = now
  BY <1>1
<1>3. tokenLog'[t] = Append(l, [time |-> c, tokens |-> n]) /\ now' = c
  BY <1>1, <1>2 DEF RecordTokens, Charge
<1>4. PICK m : m = Append(l, [time |-> c, tokens |-> n])
  OBVIOUS
<1>5. m \in Seq(Pair)
  BY <1>1, <1>4, AppendProperties DEF Pair
<1>6. PICK x, y : x = TokenSum(LastDay(l, c)) /\ y = TokenSum(LastDay(m, c))
  OBVIOUS
<1>7. x \in Nat /\ y \in Nat
  BY <1>5, <1>6, LastDayIs, TokenSumFacts
<1>8. y <= x + n
  BY <1>1, <1>4, <1>6, DayOfCharge
<1>9. x = UsedLastDay(t) /\ y = UsedLastDay(t)'
  BY <1>2, <1>3, <1>4, <1>6 DEF UsedLastDay
<1>10. PICK O, P : O = Others(t) /\ P = Others(t)' /\ O \subseteq Slots
  BY DEF Others
<1>11. P = O \cup {s} /\ s \notin O
  <2>1. call' = [call EXCEPT ![s] = Idle] /\ call \in [Slots -> Call]
    BY DEF RecordTokens, BudgetInv, IInv, TypeOK
  <2>2. Idle # Running(t)
    BY InFlight DEF BudgetInv, IInv
  <2>3. QED
    BY <1>10, <2>1, <2>2 DEF Others
<1>12. IsFiniteSet(O) /\ Cardinality(O) \in Nat /\ Cardinality(P) = Cardinality(O) + 1
  <2>1. IsFiniteSet(O)
    BY <1>10, FS_Subset
  <2>2. QED
    BY <1>11, <2>1, FS_AddElement, FS_CardinalityType
<1>13. PICK a \in Nat : a = Cardinality(O) * MaxCost /\ Cardinality(P) * MaxCost = a + MaxCost
  <2>1. PICK k \in Nat : k = Cardinality(O) /\ k + 1 = Cardinality(P)
    BY <1>12
  <2>2. k * MaxCost \in Nat /\ (k + 1) * MaxCost = k * MaxCost + MaxCost
    BY OneMore
  <2>3. QED
    BY <2>1, <2>2
<1>14. x < TokensPerDay + a
  BY <1>9, <1>10, <1>13 DEF BudgetInv, Affordable
<1>15. y < TokensPerDay + (a + MaxCost)
  BY <1>1, <1>7, <1>8, <1>14, LimitsAssumption
<1>16. QED
  BY <1>9, <1>10, <1>13, <1>15 DEF Affordable

\* An empty limiter has nothing used.
LEMMA RestartAffordable ==
    ASSUME IsFiniteSet(Slots), MaxCost \in Nat, Restart, now' \in Nat, IInv'
    PROVE  BudgetInv'
<1>1. <<>> \in Seq(Pair) /\ Len(<<>>) = 0
  BY EmptySeq
<1>2. TokensFollow'
  BY <1>1 DEF Restart, TokensFollow, ChargesFollow
<1>3. ASSUME NEW t \in Tenants PROVE Affordable(t)'
  <2>1. tokenLog'[t] = <<>>
    BY DEF Restart
  <2>2. UsedLastDay(t)' = 0
    <3>1. PICK c : c = now'
      OBVIOUS
    <3>2. LastDay(<<>>, c) \in Seq(Pair) /\ Len(LastDay(<<>>, c)) = 0
      BY <1>1, LastDayIs
    <3>3. QED
      BY <2>1, <3>1, <3>2, TokenSumFacts DEF UsedLastDay
  <2>3. PICK O : O = Others(t)' /\ O \subseteq Slots
    BY DEF Others
  <2>4. Cardinality(O) \in Nat
    BY <2>3, FS_Subset, FS_CardinalityType
  <2>5. PICK a \in Nat : a = Cardinality(O) * MaxCost
    BY <2>4, OneMore
  <2>6. QED
    BY <2>2, <2>3, <2>5, LimitsAssumption DEF Affordable
<1>4. QED
  BY <1>2, <1>3 DEF BudgetInv

LEMMA BudgetInit ==
    ASSUME IsFiniteSet(Slots), MaxCost \in Nat, now \in Nat, Empty, IInv
    PROVE  BudgetInv
<1>1. <<>> \in Seq(Pair) /\ Len(<<>>) = 0
  BY EmptySeq
<1>2. TokensFollow
  BY <1>1 DEF Empty, TokensFollow, ChargesFollow
<1>3. ASSUME NEW t \in Tenants PROVE Affordable(t)
  <2>1. tokenLog[t] = <<>>
    BY DEF Empty
  <2>2. UsedLastDay(t) = 0
    <3>1. LastDay(<<>>, now) \in Seq(Pair) /\ Len(LastDay(<<>>, now)) = 0
      BY <1>1, LastDayIs
    <3>2. QED
      BY <2>1, <3>1, TokenSumFacts DEF UsedLastDay
  <2>3. PICK O : O = Others(t) /\ O \subseteq Slots
    BY DEF Others
  <2>4. Cardinality(O) \in Nat
    BY <2>3, FS_Subset, FS_CardinalityType
  <2>5. PICK a \in Nat : a = Cardinality(O) * MaxCost
    BY <2>4, OneMore
  <2>6. QED
    BY <2>2, <2>3, <2>5, LimitsAssumption DEF Affordable
<1>4. QED
  BY <1>2, <1>3 DEF BudgetInv

\* Every step keeps each tenant within its means.
LEMMA BudgetStep ==
    ASSUME IsFiniteSet(Slots), MaxCost \in Nat, \A n \in Costs : n <= MaxCost,
           BudgetInv, [Next]_vars
    PROVE  BudgetInv'
<1>1. IInv' /\ TypeOK /\ TypeOK' /\ now \in Nat /\ now' \in Nat
  BY NextInv DEF BudgetInv, IInv, TypeOK
<1>2. \A t \in Tenants : ChargesFollow(tenantTokens[t], tokenLog[t], now)
  BY DEF BudgetInv, TokensFollow
<1>3. /\ tenantTokens \in [Tenants -> Seq(Pair)] /\ tokenLog \in [Tenants -> Seq(Pair)]
      /\ call \in [Slots -> Call]
  BY <1>1 DEF TypeOK, Pair
<1>4. \A t \in Tenants : ChargesFollow(LiveTokens(t), tokenLog[t], now)
  BY <1>1, <1>2, ChargesTrim DEF LiveTokens
<1>5. \A s \in Slots : /\ call[s].at = "running" => /\ call[s].tenant \in Tenants
                                                   /\ call[s] = Running(call[s].tenant)
                       /\ \A t, u, w, scope : Refused(t, u, scope) # Running(w) /\ Idle # Running(w)
                       /\ \A t, w : Running(t) = Running(w) => t = w
  BY <1>1, InFlight
\* Steps that charge nothing, and move coroutines on to no other tenant.
<1>6. ASSUME tokenLog' = tokenLog, now <= now', TokensFollow',
             \A s \in Slots, t \in Tenants : call'[s] = Running(t) => call[s] = Running(t)
      PROVE  BudgetInv'
  <2>1. \A t \in Tenants : Affordable(t)'
    BY <1>1, <1>6, Uncharged
  <2>2. QED
    BY <1>1, <1>6, <2>1 DEF BudgetInv
<1>7. ASSUME NEW s \in Slots, NEW t \in Tenants, NEW u \in Users, StartRequest(s, t, u)
      PROVE  BudgetInv'
  <2>1. CASE \E scope \in {"tenant", "user"} : RefuseRequest(s, t, u, scope)
    <3>1. PICK scope : RefuseRequest(s, t, u, scope)
      BY <2>1
    <3>2. /\ call' = [call EXCEPT ![s] = Refused(t, u, scope)]
          /\ UNCHANGED <<now, tenantTokens, tokenLog>>
      BY <3>1 DEF RefuseRequest
    <3>3. TokensFollow'
      BY <1>2, <3>2 DEF TokensFollow
    <3>4. QED
      BY <1>1, <1>3, <1>5, <1>6, <3>2, <3>3
  <2>2. CASE AcceptRequest(s, t, u)
    <3>1. /\ tenantTokens' = [tenantTokens EXCEPT ![t] = LiveTokens(t)]
          /\ call' = [call EXCEPT ![s] = TokenVerdict(t, u)]
          /\ UNCHANGED <<now, tokenLog>>
      BY <2>2 DEF AcceptRequest
    <3>2. TokensFollow'
      BY <1>2, <1>3, <1>4, <3>1 DEF TokensFollow
    <3>3. CASE TokenSum(LiveTokens(t)) >= TokensPerDay
      <4>1. call' = [call EXCEPT ![s] = Refused(t, u, "tokens")]
        BY <3>1, <3>3 DEF TokenVerdict
      <4>2. QED
        BY <1>1, <1>3, <1>5, <1>6, <3>1, <3>2, <4>1
    <3>4. CASE ~(TokenSum(LiveTokens(t)) >= TokensPerDay)
      <4>1. call' = [call EXCEPT ![s] = Running(t)]
        BY <3>1, <3>4 DEF TokenVerdict
      <4>2. TokenSum(LiveTokens(t)) < TokensPerDay
        BY <3>4, UsedIs, LimitsAssumption DEF BudgetInv
      <4>3. Affordable(t)'
        BY <3>1, <4>2, AdmittedIsAffordable
      <4>4. ASSUME NEW w \in Tenants, w # t PROVE Affordable(w)'
        <5>1. \A r \in Slots : call'[r] = Running(w) => call[r] = Running(w)
          BY <1>3, <1>5, <4>1, <4>4
        <5>2. QED
          BY <1>1, <3>1, <5>1, Uncharged
      <4>5. QED
        BY <1>1, <3>2, <4>3, <4>4 DEF BudgetInv
    <3>5. QED
      BY <3>3, <3>4
  <2>3. QED
    BY <1>7, <2>1, <2>2 DEF StartRequest
<1>8. ASSUME NEW s \in Slots, NEW n \in Costs, RecordTokens(s, n)
      PROVE  BudgetInv'
  <2>1. /\ call[s].at = "running" /\ call' = [call EXCEPT ![s] = Idle] /\ now' = now
        /\ n \in Nat
    BY <1>8, LimitsAssumption DEF RecordTokens
  <2>2. PICK t \in Tenants : call[s] = Running(t) /\ call[s].tenant = t
    BY <1>5, <2>1
  <2>3. CASE n <= 0
    <3>1. UNCHANGED <<tenantTokens, tokenLog>>
      BY <1>8, <2>3 DEF RecordTokens
    <3>2. TokensFollow'
      BY <1>2, <2>1, <3>1 DEF TokensFollow
    <3>3. \A r \in Slots, w \in Tenants : call'[r] = Running(w) => call[r] = Running(w)
      BY <1>3, <1>5, <2>1
    <3>4. QED
      BY <1>1, <1>6, <2>1, <3>1, <3>2, <3>3
  <2>4. CASE ~(n <= 0)
    <3>1. n > 0
      BY <2>1, <2>4
    <3>2. /\ tenantTokens' = [tenantTokens EXCEPT ![t] = Append(@, [time |-> now, tokens |-> n])]
          /\ tokenLog' = [tokenLog EXCEPT ![t] = Append(@, [time |-> now, tokens |-> n])]
      BY <1>8, <2>2, <2>4 DEF RecordTokens, Charge
    <3>3. ChargesFollow(Append(tenantTokens[t], [time |-> now, tokens |-> n]),
                        Append(tokenLog[t], [time |-> now, tokens |-> n]), now)
      BY <1>1, <1>2, <2>1, ChargesAppend
    <3>4. TokensFollow'
      BY <1>2, <1>3, <2>1, <3>2, <3>3 DEF TokensFollow
    <3>5. Affordable(t)'
      BY <1>8, <2>2, <3>1, ChargeAffordable
    <3>6. ASSUME NEW w \in Tenants, w # t PROVE Affordable(w)'
      <4>1. tokenLog'[w] = tokenLog[w]
        BY <1>3, <3>2, <3>6
      <4>2. UsedLastDay(w)' = UsedLastDay(w) /\ UsedLastDay(w) \in Nat
        BY <2>1, <4>1, UsedIs DEF UsedLastDay, BudgetInv
      <4>3. Others(w)' = Others(w)
        BY <1>3, <1>5, <2>1, <2>2, <3>6 DEF Others
      <4>4. QED
        BY <4>2, <4>3 DEF Affordable, BudgetInv
    <3>7. QED
      BY <1>1, <3>4, <3>5, <3>6 DEF BudgetInv
  <2>5. QED
    BY <2>3, <2>4
<1>9. ASSUME NEW s \in Slots, FailRequest(s) \/ AnswerRefusal(s)
      PROVE  BudgetInv'
  <2>1. /\ call' = [call EXCEPT ![s] = Idle]
        /\ UNCHANGED <<now, tenantTokens, tokenLog>>
    BY <1>9 DEF FailRequest, AnswerRefusal
  <2>2. TokensFollow'
    BY <1>2, <2>1 DEF TokensFollow
  <2>3. \A r \in Slots, w \in Tenants : call'[r] = Running(w) => call[r] = Running(w)
    BY <1>3, <1>5, <2>1
  <2>4. QED
    BY <1>1, <1>6, <2>1, <2>2, <2>3
<1>10. ASSUME NEW t \in Tenants, Snapshot(t)
       PROVE  BudgetInv'
  <2>1. /\ tenantTokens' = [tenantTokens EXCEPT ![t] = LiveTokens(t)]
        /\ UNCHANGED <<now, call, tokenLog>>
    BY <1>10 DEF Snapshot
  <2>2. TokensFollow'
    BY <1>2, <1>3, <1>4, <2>1 DEF TokensFollow
  <2>3. QED
    BY <1>1, <1>6, <2>1, <2>2
<1>11. CASE Restart
  BY <1>1, <1>11, RestartAffordable
<1>12. CASE Tick
  <2>1. now' = now + 1 /\ UNCHANGED <<tenantTokens, call, tokenLog>>
    BY <1>12 DEF Tick
  <2>2. TokensFollow'
    BY <1>1, <1>2, <2>1, ChargesTick DEF TokensFollow
  <2>3. QED
    BY <1>1, <1>6, <2>1, <2>2
<1>13. CASE UNCHANGED vars
  <2>1. UNCHANGED <<now, tenantTokens, call, tokenLog>>
    BY <1>13 DEF vars
  <2>2. TokensFollow'
    BY <1>2, <2>1 DEF TokensFollow
  <2>3. QED
    BY <1>1, <1>6, <2>1, <2>2
<1>14. QED
  BY <1>7, <1>8, <1>9, <1>10, <1>11, <1>12, <1>13 DEF Next

\* The budget is overshot by less than one full charge per coroutine, for any
\* tenants, limits and costs: the requests in flight together are all that
\* escapes a check made before the tokens are known.
THEOREM OvershootIsBounded ==
    ASSUME IsFiniteSet(Slots), \E n \in Costs : \A m \in Costs : m <= n
    PROVE  Spec => []TokenOvershootBounded
<1>1. MaxCost \in Nat /\ \A n \in Costs : n <= MaxCost
  BY LimitsAssumption DEF MaxCost
<1>2. Init => BudgetInv
  BY <1>1, InitInv, BudgetInit DEF Init, IInv, TypeOK
<1>3. BudgetInv /\ [Next]_vars => BudgetInv'
  BY <1>1, BudgetStep
<1>4. BudgetInv => TokenOvershootBounded
  <2>1. SUFFICES ASSUME BudgetInv, NEW t \in Tenants
                 PROVE  UsedLastDay(t) < TokensPerDay + Cardinality(Slots) * MaxCost
    BY DEF TokenOvershootBounded
  <2>2. PICK O : O = Others(t) /\ O \subseteq Slots
    BY DEF Others
  <2>3. Cardinality(O) \in Nat /\ Cardinality(Slots) \in Nat /\ Cardinality(O) <= Cardinality(Slots)
    BY <2>2, FS_Subset, FS_CardinalityType
  <2>4. PICK a \in Nat, b \in Nat :
            a = Cardinality(O) * MaxCost /\ b = Cardinality(Slots) * MaxCost /\ a <= b
    BY <1>1, <2>3, OneMore
  <2>5. UsedLastDay(t) \in Nat /\ UsedLastDay(t) < TokensPerDay + a
    BY <2>1, <2>2, <2>4, UsedIs DEF BudgetInv, Affordable
  <2>6. UsedLastDay(t) < TokensPerDay + b
    BY <2>4, <2>5, LimitsAssumption
  <2>7. QED
    BY <2>4, <2>6
<1>5. QED
  BY <1>2, <1>3, <1>4, PTL DEF Spec

-----------------------------------------------------------------------------
(* The two deques of a hit.                                                 *)

\* The entries of a deque or a log that are not older than c.
Since(log, c) == {i \in 1..Len(log) : log[i] >= c}

\* Those of all users of a tenant.
UsersSince(logs, t, c) == UNION {{u} \X Since(logs[<<t, u>>], c) : u \in Users}

\* A hit of a tenant is a hit of one of its users.
LEMMA InUsersSince ==
    ASSUME NEW logs, NEW t, NEW c
    PROVE  /\ \A h : h \in UsersSince(logs, t, c) <=>
                        \E u \in Users : \E i \in Since(logs[<<t, u>>], c) : h = <<u, i>>
           /\ \A u, i : <<u, i>> \in UsersSince(logs, t, c) <=>
                        u \in Users /\ i \in Since(logs[<<t, u>>], c)
<1>1. ASSUME NEW h
      PROVE  h \in UsersSince(logs, t, c) <=>
                \E u \in Users : \E i \in Since(logs[<<t, u>>], c) : h = <<u, i>>
  <2> DEFINE Of(u) == {u} \X Since(logs[<<t, u>>], c)
  <2>1. h \in UsersSince(logs, t, c) <=> \E u \in Users : h \in Of(u)
    BY DEF UsersSince
  <2>2. \A u : h \in Of(u) <=> \E i \in Since(logs[<<t, u>>], c) : h = <<u, i>>
    OBVIOUS
  <2> HIDE DEF Of
  <2>3. QED
    BY <2>1, <2>2
<1>2. ASSUME NEW u, NEW i
      PROVE  <<u, i>> \in UsersSince(logs, t, c) <=> u \in Users /\ i \in Since(logs[<<t, u>>], c)
  <2>1. \A v, j : <<u, i>> = <<v, j>> <=> u = v /\ i = j
    OBVIOUS
  <2>2. QED
    BY <1>1, <2>1
<1>3. QED
  BY <1>1, <1>2

\* The same, with the user named.
LEMMA OfSomeUser ==
    ASSUME NEW logs, NEW t, NEW c, NEW h \in UsersSince(logs, t, c)
    PROVE  \E u, i : u \in Users /\ i \in Since(logs[<<t, u>>], c) /\ h = <<u, i>>
<1>1. PICK u \in Users : h \in {u} \X Since(logs[<<t, u>>], c)
  BY DEF UsersSince
<1>2. QED
  BY <1>1

\* The invariant of the logs, which nothing is dropped from: from any moment on,
\* a tenant has as many hits as its users have.
LogsAgree ==
    \A t \in Tenants, c \in Int :
        /\ IsFiniteSet(UsersSince(userLog, t, c))
        /\ Cardinality(UsersSince(userLog, t, c)) = Cardinality(Since(tenantLog[t], c))

\* A hit of the present is one more from any moment of the past on.
LEMMA SinceAppend ==
    ASSUME NEW log \in Seq(Nat), NEW n \in Nat, NEW c \in Int
    PROVE  /\ Since(Append(log, n), c) =
                 Since(log, c) \cup IF n >= c THEN {Len(log) + 1} ELSE {}
           /\ Len(log) + 1 \notin Since(log, c)
           /\ IsFiniteSet(Since(log, c))
<1> DEFINE h == Append(log, n)
<1>1. Len(log) \in Nat /\ Len(log) + 1 \notin Since(log, c)
  BY LenProperties DEF Since
<1>2. /\ Len(h) = Len(log) + 1 /\ h[Len(log) + 1] = n
      /\ \A i \in 1..Len(log) : h[i] = log[i]
  BY AppendProperties
<1> HIDE DEF h
<1>3. 1..Len(h) = 1..Len(log) \cup {Len(log) + 1}
  BY <1>1, <1>2
<1>4. Since(h, c) = Since(log, c) \cup IF n >= c THEN {Len(log) + 1} ELSE {}
  BY <1>2, <1>3 DEF Since
<1>5. IsFiniteSet(Since(log, c))
  <2>1. IsFiniteSet(1..Len(log))
    BY <1>1, FS_Interval
  <2>2. QED
    BY <2>1, FS_Subset DEF Since
<1>6. QED
  BY <1>1, <1>4, <1>5 DEF h

\* Nothing recorded, nothing to compare.
LEMMA NoLogsAgree ==
    ASSUME NEW logs, NEW t \in Tenants, NEW c \in Int, \A u \in Users : logs[<<t, u>>] = <<>>
    PROVE  UsersSince(logs, t, c) = {} /\ Since(<<>>, c) = {}
<1>1. Since(<<>>, c) = {}
  BY EmptySeq DEF Since
<1>2. QED
  BY <1>1 DEF UsersSince

\* The hits of q not older than c are those of log, d places further on.
Shifted(q, log, c, d) ==
    /\ \A i \in Since(log, c) : i \in Nat /\ i - d \in Since(q, c)
    /\ \A i \in Since(q, c) : i \in Nat /\ i + d \in Since(log, c)

\* The index of a hit in the log is the one in the deque, and what was dropped.
LEMMA FollowsShift ==
    ASSUME NEW limit, NEW clock \in Nat, NEW q, NEW log, Follows(q, log, limit, clock)
    PROVE  \E d \in Nat : Shifted(q, log, clock - Hour, d)
<1> DEFINE d == Len(log) - Len(q)
<1>1. /\ Len(q) \in Nat /\ Len(log) \in Nat /\ d \in Nat
      /\ \A i \in 1..Len(log) : log[i] \in Nat
  BY LenProperties, ElementOfSeq DEF Follows
<1>2. /\ d + Len(q) = Len(log)
      /\ \A i \in 1..Len(q) : q[i] = log[d + i]
      /\ \A i \in 1..d : log[i] < clock - Hour
  BY <1>1 DEF Follows
<1> HIDE DEF d
<1>3. ASSUME NEW i \in Since(log, clock - Hour) PROVE i \in Nat /\ i - d \in Since(q, clock - Hour)
  <2>1. i \in 1..Len(log) /\ log[i] >= clock - Hour
    BY DEF Since
  <2>2. i \notin 1..d
    BY <1>1, <1>2, <2>1, LimitsAssumption
  <2>3. i - d \in 1..Len(q) /\ d + (i - d) = i /\ i \in Nat
    BY <1>1, <1>2, <2>1, <2>2
  <2>4. QED
    BY <1>2, <2>1, <2>3 DEF Since
<1>4. ASSUME NEW i \in Since(q, clock - Hour) PROVE i \in Nat /\ i + d \in Since(log, clock - Hour)
  <2>1. i \in 1..Len(q) /\ q[i] >= clock - Hour
    BY DEF Since
  <2>2. i + d \in 1..Len(log) /\ i + d = d + i /\ i \in Nat
    BY <1>1, <1>2, <2>1
  <2>3. QED
    BY <1>2, <2>1, <2>2 DEF Since
<1>5. QED
  BY <1>1, <1>3, <1>4 DEF Shifted

\* So a deque has as many hits of the last hour as its log.
LEMMA FollowsSameCount ==
    ASSUME NEW limit, NEW clock \in Nat, NEW q, NEW log, Follows(q, log, limit, clock),
           NEW c \in Int, c = clock - Hour
    PROVE  Cardinality(Since(q, c)) = Cardinality(Since(log, c))
<1>1. PICK d \in Nat : /\ \A i \in Since(log, c) : i \in Nat /\ i - d \in Since(q, c)
                       /\ \A i \in Since(q, c) : i \in Nat /\ i + d \in Since(log, c)
  BY FollowsShift DEF Shifted
<1> DEFINE f == [i \in Since(log, c) |-> i - d]
<1>2. f \in [Since(log, c) -> Since(q, c)]
  BY <1>1
<1>3. \A i, j \in Since(log, c) : f[i] = f[j] => i = j
  BY <1>1
<1>4. \A i \in Since(q, c) : i + d \in Since(log, c) /\ f[i + d] = i
  BY <1>1
<1>5. f \in Bijection(Since(log, c), Since(q, c))
  <2> HIDE DEF f
  <2>1. QED
    BY <1>2, <1>3, <1>4 DEF Bijection, Injection, Surjection, IsInjective
<1>6. IsFiniteSet(Since(log, c))
  BY SinceAppend DEF Follows
<1>7. QED
  BY <1>5, <1>6, FS_Bijection DEF ExistsBijection

AllShifted(qs, logs, t, c) ==
    \A u \in Users : \E d \in Nat : Shifted(qs[<<t, u>>], logs[<<t, u>>], c, d)

\* And so have the deques of all users of a tenant.
LEMMA UsersSameCount ==
    ASSUME NEW qs, NEW logs, NEW t, NEW c \in Int,
           AllShifted(qs, logs, t, c)
    PROVE  IsFiniteSet(UsersSince(logs, t, c)) =>
              Cardinality(UsersSince(qs, t, c)) = Cardinality(UsersSince(logs, t, c))
<1> DEFINE Shift(u, d) == Shifted(qs[<<t, u>>], logs[<<t, u>>], c, d)
           by == [u \in Users |-> CHOOSE d \in Nat : Shift(u, d)]
           S == UsersSince(logs, t, c)
           T == UsersSince(qs, t, c)
           f == [h \in S |-> <<h[1], h[2] - by[h[1]]>>]
<1>1. \A u \in Users : \E d \in Nat : Shift(u, d)
  BY DEF AllShifted
<1>2. \A u \in Users : by[u] \in Nat /\ Shift(u, by[u])
  <2> HIDE DEF Shift
  <2>1. QED
    BY <1>1
<1> HIDE DEF by
<1>3. ASSUME NEW h \in S
      PROVE  /\ h = <<h[1], h[2]>> /\ h[1] \in Users /\ h[2] \in Nat
             /\ f[h] = <<h[1], h[2] - by[h[1]]>> /\ f[h] \in T
  <2>1. PICK u, i : u \in Users /\ i \in Since(logs[<<t, u>>], c) /\ h = <<u, i>>
    <3>1. h \in UsersSince(logs, t, c)
      BY <1>3
    <3>2. QED
      BY <3>1, OfSomeUser
  <2>2. i \in Nat /\ i - by[u] \in Since(qs[<<t, u>>], c)
    BY <1>2, <2>1 DEF Shifted
  <2>3. <<h[1], h[2] - by[h[1]]>> \in T
    BY <2>1, <2>2, InUsersSince
  <2>4. QED
    BY <1>3, <2>1, <2>2, <2>3
<1>4. ASSUME NEW h \in S, NEW k \in S, f[h] = f[k] PROVE h = k
  <2>1. h[1] = k[1] /\ h[2] - by[h[1]] = k[2] - by[k[1]]
    BY <1>3, <1>4
  <2>2. h[2] \in Nat /\ k[2] \in Nat /\ by[h[1]] \in Nat
    BY <1>2, <1>3
  <2>3. h[2] = k[2]
    BY <2>1, <2>2
  <2>4. QED
    BY <1>3, <2>1, <2>3
<1>5. ASSUME NEW h \in T PROVE \E k \in S : f[k] = h
  <2>1. PICK u, i : u \in Users /\ i \in Since(qs[<<t, u>>], c) /\ h = <<u, i>>
    <3>1. h \in UsersSince(qs, t, c)
      BY <1>5
    <3>2. QED
      BY <3>1, OfSomeUser
  <2>2. i \in Nat /\ by[u] \in Nat /\ i + by[u] \in Since(logs[<<t, u>>], c)
    BY <1>2, <2>1 DEF Shifted
  <2>3. PICK k \in S : k = <<u, i + by[u]>>
    BY <2>1, <2>2, InUsersSince
  <2>4. f[k] = <<u, (i + by[u]) - by[u]>>
    BY <1>3, <2>3
  <2>5. QED
    BY <2>1, <2>2, <2>3, <2>4
<1>6. f \in [S -> T]
  BY <1>3
<1> HIDE DEF f, S, T
<1>7. f \in Bijection(S, T)
  BY <1>4, <1>5, <1>6 DEF Bijection, Injection, Surjection, IsInjective
<1>8. QED
  BY <1>7, FS_Bijection DEF ExistsBijection, S, T

\* A hit is recorded for the tenant and its user in one step.
LEMMA LogsAgreeStep ==
    ASSUME IInv, LogsAgree, [Next]_vars
    PROVE  LogsAgree'
<1>1. /\ now \in Nat
      /\ tenantLog \in [Tenants -> Seq(Nat)] /\ userLog \in [Keys -> Seq(Nat)]
  BY DEF IInv, TypeOK
<1>2. CASE UNCHANGED <<tenantLog, userLog>>
  BY <1>2 DEF LogsAgree
<1>3. ASSUME NEW s \in Slots, NEW t \in Tenants, NEW u \in Users, AcceptRequest(s, t, u)
      PROVE  LogsAgree'
  <2> DEFINE k == <<t, u>>
             l == userLog[k]
  <2>1. /\ tenantLog' = [tenantLog EXCEPT ![t] = Append(tenantLog[t], now)]
        /\ userLog' = [userLog EXCEPT ![k] = Append(l, now)]
    BY <1>3 DEF AcceptRequest, RecordRequest, Record
  <2>2. k \in Keys /\ l \in Seq(Nat) /\ tenantLog[t] \in Seq(Nat)
    BY <1>1 DEF Keys
  <2>3. SUFFICES ASSUME NEW w \in Tenants, NEW c \in Int
                 PROVE  /\ IsFiniteSet(UsersSince(userLog', w, c))
                        /\ Cardinality(UsersSince(userLog', w, c)) =
                              Cardinality(Since(tenantLog'[w], c))
    BY DEF LogsAgree
  <2>4. /\ IsFiniteSet(UsersSince(userLog, w, c))
        /\ Cardinality(UsersSince(userLog, w, c)) = Cardinality(Since(tenantLog[w], c))
    BY DEF LogsAgree
  <2>5. CASE w # t
    <3>1. tenantLog'[w] = tenantLog[w] /\ \A v \in Users : userLog'[<<w, v>>] = userLog[<<w, v>>]
      BY <1>1, <2>1, <2>5 DEF Keys
    <3>2. UsersSince(userLog', w, c) = UsersSince(userLog, w, c)
      BY <3>1 DEF UsersSince
    <3>3. QED
      BY <2>4, <3>1, <3>2
  <2>6. CASE w = t
    <3>1. tenantLog'[t] = Append(tenantLog[t], now) /\ userLog'[k] = Append(l, now)
          /\ \A v \in Users : v # u => userLog'[<<t, v>>] = userLog[<<t, v>>]
      BY <1>1, <2>1, <2>2 DEF Keys
    <3>2. /\ Since(tenantLog'[t], c) =
                Since(tenantLog[t], c) \cup IF now >= c THEN {Len(tenantLog[t]) + 1} ELSE {}
          /\ Len(tenantLog[t]) + 1 \notin Since(tenantLog[t], c)
          /\ IsFiniteSet(Since(tenantLog[t], c))
      BY <1>1, <2>2, <3>1, SinceAppend
    <3>3. /\ Since(userLog'[k], c) = Since(l, c) \cup IF now >= c THEN {Len(l) + 1} ELSE {}
          /\ Len(l) + 1 \notin Since(l, c)
      BY <1>1, <2>2, <3>1, SinceAppend
    <3>4. <<u, Len(l) + 1>> \notin UsersSince(userLog, t, c)
      BY <3>3, InUsersSince
    <3>5. CASE now >= c
      <4>1. UsersSince(userLog', t, c) = UsersSince(userLog, t, c) \cup {<<u, Len(l) + 1>>}
        <5>1. ASSUME NEW v \in Users
              PROVE  {v} \X Since(userLog'[<<t, v>>], c) =
                        ({v} \X Since(userLog[<<t, v>>], c)) \cup
                           IF v = u THEN {<<u, Len(l) + 1>>} ELSE {}
          <6>1. CASE v = u
            <7>1. Since(userLog'[k], c) = Since(l, c) \cup {Len(l) + 1}
              BY <3>3, <3>5
            <7>2. QED
              BY <6>1, <7>1
          <6>2. CASE v # u
            BY <3>1, <6>2
          <6>3. QED
            BY <6>1, <6>2
        <5>2. PICK Old, New, one :
                  /\ one = <<u, Len(l) + 1>>
                  /\ Old = [v \in Users |-> {v} \X Since(userLog[<<t, v>>], c)]
                  /\ New = [v \in Users |-> {v} \X Since(userLog'[<<t, v>>], c)]
          OBVIOUS
        <5>3. /\ UsersSince(userLog, t, c) = UNION {Old[v] : v \in Users}
              /\ UsersSince(userLog', t, c) = UNION {New[v] : v \in Users}
          BY <5>2 DEF UsersSince
        <5>4. \A v \in Users : New[v] = Old[v] \cup IF v = u THEN {one} ELSE {}
          BY <5>1, <5>2
        <5>5. UNION {New[v] : v \in Users} = (UNION {Old[v] : v \in Users}) \cup {one}
          <6>1. ASSUME NEW x PROVE x \in UNION {New[v] : v \in Users} <=> \E v \in Users : x \in New[v]
            OBVIOUS
          <6>2. ASSUME NEW x PROVE x \in UNION {Old[v] : v \in Users} <=> \E v \in Users : x \in Old[v]
            OBVIOUS
          <6>3. one \in New[u] /\ \A v \in Users : Old[v] \subseteq New[v]
            BY <5>4
          <6>4. \A v \in Users : New[v] \subseteq Old[v] \cup {one}
            BY <5>4
          <6>5. QED
            BY <6>1, <6>2, <6>3, <6>4
        <5>6. QED
          BY <5>2, <5>3, <5>5
      <4>2. Since(tenantLog'[t], c) = Since(tenantLog[t], c) \cup {Len(tenantLog[t]) + 1}
        BY <3>2, <3>5
      <4>3. /\ IsFiniteSet(UsersSince(userLog', t, c))
            /\ Cardinality(UsersSince(userLog', t, c)) = Cardinality(UsersSince(userLog, t, c)) + 1
        BY <2>4, <2>6, <3>4, <4>1, FS_AddElement
      <4>4. Cardinality(Since(tenantLog'[t], c)) = Cardinality(Since(tenantLog[t], c)) + 1
        BY <3>2, <4>2, FS_AddElement
      <4>5. QED
        BY <2>4, <2>6, <4>3, <4>4
    <3>6. CASE ~(now >= c)
      <4>1. \A v \in Users : Since(userLog'[<<t, v>>], c) = Since(userLog[<<t, v>>], c)
        BY <3>1, <3>3, <3>6
      <4>2. UsersSince(userLog', t, c) = UsersSince(userLog, t, c)
        BY <4>1 DEF UsersSince
      <4>3. Since(tenantLog'[t], c) = Since(tenantLog[t], c)
        BY <3>2, <3>6
      <4>4. QED
        BY <2>4, <2>6, <4>2, <4>3
    <3>7. QED
      BY <3>5, <3>6
  <2>7. QED
    BY <2>5, <2>6
<1>4. CASE Restart
  <2>1. SUFFICES ASSUME NEW t \in Tenants, NEW c \in Int
                 PROVE  /\ IsFiniteSet(UsersSince(userLog', t, c))
                        /\ Cardinality(UsersSince(userLog', t, c)) =
                              Cardinality(Since(tenantLog'[t], c))
    BY DEF LogsAgree
  <2>2. tenantLog'[t] = <<>> /\ \A u \in Users : userLog'[<<t, u>>] = <<>>
    BY <1>4 DEF Restart, Keys
  <2>3. QED
    BY <2>2, NoLogsAgree, FS_EmptySet
<1>5. QED
  BY <1>2, <1>3, <1>4
  DEF Next, StartRequest, RefuseRequest, RecordTokens, FailRequest, AnswerRefusal, Snapshot, Tick, vars

\* A hit is never counted for a tenant and not for its user, or for a user and
\* not for the tenant, whenever each of the two deques is trimmed.
THEOREM DequesAgreeHolds == Spec => []DequesAgree
<1>1. Init => LogsAgree
  <2>1. SUFFICES ASSUME Init, NEW t \in Tenants, NEW c \in Int
                 PROVE  /\ IsFiniteSet(UsersSince(userLog, t, c))
                        /\ Cardinality(UsersSince(userLog, t, c)) =
                              Cardinality(Since(tenantLog[t], c))
    BY DEF LogsAgree
  <2>2. tenantLog[t] = <<>> /\ \A u \in Users : userLog[<<t, u>>] = <<>>
    BY <2>1 DEF Init, Empty, Keys
  <2>3. QED
    BY <2>2, NoLogsAgree, FS_EmptySet
<1>2. IInv /\ LogsAgree /\ [Next]_vars => LogsAgree'
  BY LogsAgreeStep
<1>3. IInv /\ LogsAgree => DequesAgree
  <2>1. SUFFICES ASSUME IInv, LogsAgree, NEW t \in Tenants
                 PROVE  Cardinality(Recent(tenantHits[t])) =
                           Cardinality(UNION {{u} \X Recent(userHits[<<t, u>>]) : u \in Users})
    BY DEF DequesAgree
  <2>2. PICK n \in Nat, c \in Int : n = now /\ c = n - Hour
    BY <2>1, LimitsAssumption DEF IInv, TypeOK
  <2>3. /\ Recent(tenantHits[t]) = Since(tenantHits[t], c)
        /\ UNION {{u} \X Recent(userHits[<<t, u>>]) : u \in Users} = UsersSince(userHits, t, c)
    BY <2>2 DEF Recent, Since, UsersSince
  <2>4. /\ Follows(tenantHits[t], tenantLog[t], TenantPerHour, n)
        /\ \A u \in Users : Follows(userHits[<<t, u>>], userLog[<<t, u>>], UserPerHour, n)
    BY <2>1, <2>2 DEF IInv, HitsFollow, Keys
  <2>5. Cardinality(Since(tenantHits[t], c)) = Cardinality(Since(tenantLog[t], c))
    BY <2>2, <2>4, FollowsSameCount
  <2>6. /\ IsFiniteSet(UsersSince(userLog, t, c))
        /\ Cardinality(UsersSince(userLog, t, c)) = Cardinality(Since(tenantLog[t], c))
    BY <2>1 DEF LogsAgree
  <2>7. Cardinality(UsersSince(userHits, t, c)) = Cardinality(UsersSince(userLog, t, c))
    <3>1. AllShifted(userHits, userLog, t, c)
      BY <2>2, <2>4, FollowsShift DEF AllShifted
    <3>2. QED
      BY <2>6, <3>1, UsersSameCount
  <2>8. QED
    BY <2>3, <2>5, <2>6, <2>7
<1>4. QED
  BY <1>1, <1>2, <1>3, LimiterInvariant, PTL DEF Spec
=============================================================================

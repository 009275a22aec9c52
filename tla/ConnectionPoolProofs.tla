------------------------ MODULE ConnectionPoolProofs ------------------------
(***************************************************************************)
(* Proofs about ConnectionPool, for any calls, threads and pool size: the  *)
(* type invariant, that connections are exclusive and conserved, and that  *)
(* the pool implements QueryCalls.                                         *)
(***************************************************************************)
EXTENDS ConnectionPool, FiniteSetTheorems, TLAPS

-----------------------------------------------------------------------------
(* The invariant.                                                          *)

\* Connections are numbered as they are opened, so that a new one is in nobody's
\* hands.
Numbered ==
    /\ idle \subseteq 1..opened
    /\ \A q \in Using : conn[q] \in 1..opened

Finite == IsFiniteSet(idle) /\ IsFiniteSet(Using)

\* Only the thread that holds the lock connects, and only while the flag is down.
LockedWhileConnecting ==
    /\ \A q \in Calls : state[q] = "connecting" <=> lock = q
    /\ lock # None => ~initialized

\* Nobody passes a flag that is down, except before close_all took it down.
Gated ==
    ~initialized /\ ~closed => \A q \in Calls : state[q] \notin {"want", "using"}

\* The queue holds at least what this initialisation has put: more after a
\* refused connection.
Filled == lock # None /\ ~closed => made <= Cardinality(idle)

\* Who is waited for has made its call, and was not cancelled.
AwaitedAreMade ==
    \A q \in Calls : awaited[q] => state[q] \notin {"new", "cancelled"}

IInv ==
    /\ TypeOK
    /\ Exclusive
    /\ Conserved
    /\ Numbered
    /\ Finite
    /\ LockedWhileConnecting
    /\ Gated
    /\ Filled
    /\ AwaitedAreMade

-----------------------------------------------------------------------------
(* Operators.                                                              *)

\* What a thread's move does to the set of threads with a connection.
LEMMA Moves ==
    ASSUME TypeOK, NEW q \in Calls, NEW s, Goto(q, s)
    PROVE  Using' = IF s = "using" THEN Using \cup {q} ELSE Using \ {q}
<1>1. state' = [state EXCEPT ![q] = s] /\ DOMAIN state = Calls
  BY DEF Goto, TypeOK
<1>2. \A p \in Calls : state'[p] = IF p = q THEN s ELSE state[p]
  BY <1>1
<1>3. QED
  BY <1>2 DEF Using

\* Counting a member more or less.
LEMMA Counts ==
    ASSUME NEW S, NEW x, IsFiniteSet(S)
    PROVE  /\ Cardinality(S) \in Nat
           /\ IsFiniteSet(S \cup {x}) /\ IsFiniteSet(S \ {x})
           /\ x \notin S => Cardinality(S \cup {x}) = Cardinality(S) + 1
           /\ x \in S => Cardinality(S \ {x}) = Cardinality(S) - 1
  BY FS_CardinalityType, FS_AddElement, FS_RemoveElement

-----------------------------------------------------------------------------
(* The invariant holds.                                                    *)

LEMMA InvInit == Init => IInv
<1> SUFFICES ASSUME Init PROVE IInv
  OBVIOUS
<1> USE PoolAssumption
<1>1. Using = {} /\ IsFiniteSet(Using) /\ Cardinality(Using) = 0
  <2>1. Using = {}
    BY DEF Init, Using
  <2>2. QED
    BY <2>1, FS_EmptySet
<1>2. IsFiniteSet(idle) /\ Cardinality(idle) \in {0, Size} /\ (initialized => Cardinality(idle) = Size)
  <2>1. CASE server
    <3>1. idle = 1..Size
      BY <2>1 DEF Init
    <3>2. IsFiniteSet(1..Size) /\ Cardinality(1..Size) = Size
      BY FS_Interval
    <3>3. QED
      BY <3>1, <3>2
  <2>2. CASE ~server
    BY <2>2, FS_EmptySet DEF Init
  <2>3. QED
    BY <2>1, <2>2
<1>3. TypeOK
  <2>1. idle \subseteq Nat /\ Cardinality(idle) <= Size /\ opened \in Nat
    BY <1>2 DEF Init
  <2>2. server \in BOOLEAN /\ initialized \in BOOLEAN /\ closed \in BOOLEAN
    BY DEF Init
  <2>3. /\ state \in [Calls -> {"new", "queued"} \cup Running \cup Over]
        /\ awaited \in [Calls -> BOOLEAN]
        /\ conn \in [Calls -> Nat \cup {None}]
    BY DEF Init
  <2>4. lock \in Calls \cup {None} /\ made \in 0..Size /\ refusals \in 0..MaxRefusals
    BY DEF Init
  <2>5. QED
    BY <2>1, <2>2, <2>3, <2>4 DEF TypeOK
<1>4. Exclusive /\ Conserved /\ Numbered /\ Finite
  <2>1. Exclusive
    BY <1>1 DEF Exclusive
  <2>2. Conserved
    BY <1>1, <1>2 DEF Conserved
  <2>3. Numbered
    BY <1>1 DEF Init, Numbered
  <2>4. QED
    BY <1>1, <1>2, <2>1, <2>2, <2>3 DEF Finite
<1>5. LockedWhileConnecting /\ Gated /\ Filled /\ AwaitedAreMade
  BY DEF Init, LockedWhileConnecting, Gated, Filled, AwaitedAreMade
<1>6. QED
  BY <1>3, <1>4, <1>5 DEF IInv

\* The steps of a thread that touch neither the queue nor a connection.
LEMMA QuietStep ==
    ASSUME IInv, NEW q \in Calls,
           \/ Submit(q) \/ Start(q) \/ Check(q) \/ Lock(q) \/ ConnectRefused(q)
           \/ Initialized(q) \/ GetTimesOut(q) \/ GiveUp(q)
    PROVE  IInv'
<1> USE PoolAssumption
<1>0. TypeOK /\ Exclusive /\ Conserved /\ Numbered /\ Finite /\ LockedWhileConnecting /\ Gated
      /\ Filled /\ AwaitedAreMade
  BY DEF IInv
<1>1. UNCHANGED <<idle, conn, opened, closed>>
  BY DEF Submit, Start, Check, Lock, ConnectRefused, Initialized, GetTimesOut, GiveUp
<1>2. \A p \in Calls : state'[p] = "using" <=> state[p] = "using"
  BY <1>0 DEF TypeOK, Submit, Start, Check, Lock, ConnectRefused, Initialized, GetTimesOut, GiveUp, Goto
<1>3. Using' = Using
  BY <1>2 DEF Using
<1>4. TypeOK'
  <2>1. state' \in [Calls -> {"new", "queued"} \cup Running \cup Over]
    BY <1>0 DEF TypeOK, Submit, Start, Check, Lock, ConnectRefused, Initialized, GetTimesOut,
                GiveUp, Goto, Running, Over
  <2>2. awaited' \in [Calls -> BOOLEAN] /\ initialized' \in BOOLEAN
    BY <1>0 DEF TypeOK, Submit, Start, Check, Lock, ConnectRefused, Initialized, GetTimesOut, GiveUp
  <2>3. lock' \in Calls \cup {None} /\ made' \in 0..Size /\ refusals' \in 0..MaxRefusals
    BY <1>0 DEF TypeOK, Submit, Start, Check, Lock, ConnectRefused, Initialized, GetTimesOut, GiveUp
  <2>4. server' = server
    BY DEF Submit, Start, Check, Lock, ConnectRefused, Initialized, GetTimesOut, GiveUp
  <2>5. QED
    BY <1>0, <1>1, <2>1, <2>2, <2>3, <2>4 DEF TypeOK
<1>5. Exclusive' /\ Numbered' /\ Finite'
  BY <1>0, <1>1, <1>3 DEF Exclusive, Numbered, Finite
<1>6. LockedWhileConnecting'
  BY <1>0 DEF LockedWhileConnecting, TypeOK, Submit, Start, Check, Lock, ConnectRefused, Initialized,
              GetTimesOut, GiveUp, Goto
<1>7. Gated'
  BY <1>0 DEF Gated, TypeOK, Submit, Start, Check, Lock, ConnectRefused, Initialized,
              GetTimesOut, GiveUp, Goto
<1>8. Cardinality(idle) \in Nat
  BY <1>0, FS_CardinalityType DEF Finite
<1>9. Filled'
  BY <1>0, <1>1, <1>8 DEF Filled, Submit, Start, Check, Lock, ConnectRefused, Initialized, GetTimesOut, GiveUp
<1>10. Conserved'
  <2>1. CASE Initialized(q)
    <3>1. SUFFICES ASSUME ~closed PROVE Cardinality(idle) + Cardinality(Using) = Size
      BY <1>1, <1>3 DEF Conserved
    <3>2. lock = q /\ made = Size /\ ~initialized
      BY <1>0, <2>1 DEF Initialized, LockedWhileConnecting
    <3>3. Cardinality(idle) = Size
      BY <1>0, <1>8, <3>1, <3>2 DEF Filled, TypeOK
    <3>4. Using = {}
      BY <1>0, <3>1, <3>2 DEF Gated, Using
    <3>5. QED
      BY <3>3, <3>4, FS_EmptySet
  <2>2. CASE ~Initialized(q)
    <3>1. initialized' = initialized
      BY <2>2 DEF Submit, Start, Check, Lock, ConnectRefused, GetTimesOut, GiveUp
    <3>2. QED
      BY <1>0, <1>1, <1>3, <3>1 DEF Conserved
  <2>3. QED
    BY <2>1, <2>2
<1>11. AwaitedAreMade'
  BY <1>0 DEF AwaitedAreMade, TypeOK, Submit, Start, Check, Lock, ConnectRefused, Initialized,
              GetTimesOut, GiveUp, Goto, Over
<1>12. QED
  BY <1>4, <1>5, <1>6, <1>7, <1>9, <1>10, <1>11 DEF IInv

\* A new connection is in the queue and with nobody.
LEMMA ConnectStep ==
    ASSUME IInv, NEW q \in Calls, Connect(q)
    PROVE  IInv'
<1> USE PoolAssumption
<1>0. TypeOK /\ Exclusive /\ Conserved /\ Numbered /\ Finite /\ LockedWhileConnecting /\ Gated
      /\ Filled /\ AwaitedAreMade
  BY DEF IInv
<1>1. /\ state[q] = "connecting" /\ made < Size /\ Cardinality(idle) < Size
      /\ opened' = opened + 1 /\ idle' = idle \cup {opened'} /\ made' = made + 1
      /\ UNCHANGED <<server, state, awaited, conn, lock, initialized, refusals, closed>>
  BY DEF Connect, HasRoom
<1>2. lock = q /\ q # None /\ ~initialized
  BY <1>0, <1>1 DEF LockedWhileConnecting
<1>3. opened \in Nat /\ opened' \notin idle /\ opened' \notin 1..opened
  BY <1>0, <1>1 DEF TypeOK, Numbered
<1>4. /\ Cardinality(idle) \in Nat /\ IsFiniteSet(idle')
      /\ Cardinality(idle') = Cardinality(idle) + 1
  BY <1>0, <1>1, <1>3, Counts DEF Finite
<1>5. Using' = Using
  BY <1>1 DEF Using
<1>6. TypeOK'
  BY <1>0, <1>1, <1>3, <1>4 DEF TypeOK
<1>7. Exclusive'
  BY <1>0, <1>1, <1>3, <1>5 DEF Exclusive, Numbered
<1>8. Numbered' /\ Finite'
  BY <1>0, <1>1, <1>3, <1>4, <1>5 DEF Numbered, Finite
<1>9. Filled'
  BY <1>0, <1>1, <1>2, <1>4 DEF Filled, TypeOK
<1>10. Conserved' /\ LockedWhileConnecting' /\ Gated' /\ AwaitedAreMade'
  BY <1>0, <1>1, <1>2 DEF Conserved, LockedWhileConnecting, Gated, AwaitedAreMade
<1>11. QED
  BY <1>6, <1>7, <1>8, <1>9, <1>10 DEF IInv

\* A connection goes from the queue to a thread.
LEMMA GetStep ==
    ASSUME IInv, NEW q \in Calls, NEW c \in idle, Get(q, c)
    PROVE  /\ IInv'
           /\ Using' = Using \cup {q} /\ q \notin Using
           /\ Cardinality(Using) < Size \/ closed
<1> USE PoolAssumption
<1>0. TypeOK /\ Exclusive /\ Conserved /\ Numbered /\ Finite /\ LockedWhileConnecting /\ Gated
      /\ Filled /\ AwaitedAreMade
  BY DEF IInv
<1>1. /\ state[q] = "want" /\ conn' = [conn EXCEPT ![q] = c] /\ idle' = idle \ {c}
      /\ Goto(q, "using")
      /\ UNCHANGED <<server, awaited, lock, made, initialized, opened, refusals, closed>>
  BY DEF Get
<1>2. Using' = Using \cup {q} /\ q \notin Using /\ Using \subseteq Calls
  BY <1>0, <1>1, Moves DEF Using
<1>3. /\ conn'[q] = c /\ \A p \in Calls : p # q => conn'[p] = conn[p]
      /\ state'[q] = "using" /\ \A p \in Calls : p # q => state'[p] = state[p]
  BY <1>0, <1>1 DEF TypeOK, Goto
<1>4. /\ Cardinality(idle) \in Nat /\ Cardinality(Using) \in Nat
      /\ IsFiniteSet(idle') /\ IsFiniteSet(Using')
      /\ Cardinality(idle') = Cardinality(idle) - 1
      /\ Cardinality(Using') = Cardinality(Using) + 1
      /\ Cardinality(idle') \in Nat
  <2>1. Cardinality(idle') \in Nat
    BY <1>0, <1>1, Counts DEF Finite
  <2>2. QED
    BY <1>0, <1>1, <1>2, <2>1, Counts DEF Finite
<1>5. ~closed => initialized
  BY <1>0, <1>1 DEF Gated
<1>6. lock = None \/ closed
  BY <1>0, <1>5 DEF LockedWhileConnecting
<1>7. TypeOK'
  <2>1. state' \in [Calls -> {"new", "queued"} \cup Running \cup Over]
    BY <1>0, <1>1 DEF TypeOK, Goto, Running
  <2>2. conn' \in [Calls -> Nat \cup {None}]
    BY <1>0, <1>1 DEF TypeOK
  <2>3. idle' \subseteq Nat /\ Cardinality(idle') <= Size
    BY <1>0, <1>1, <1>4 DEF TypeOK
  <2>4. QED
    BY <1>0, <1>1, <2>1, <2>2, <2>3 DEF TypeOK
<1>8. Exclusive'
  <2>1. c \in Nat /\ c \notin idle'
    BY <1>0, <1>1 DEF TypeOK
  <2>2. \A p \in Using : conn[p] # c /\ conn[p] \notin idle' /\ conn[p] \in Nat
    BY <1>0, <1>1 DEF Exclusive
  <2>3. QED
    BY <1>0, <1>2, <1>3, <2>1, <2>2 DEF Exclusive
<1>9. Numbered' /\ Finite'
  BY <1>0, <1>1, <1>2, <1>3, <1>4 DEF Numbered, Finite
<1>10. Conserved'
  BY <1>0, <1>1, <1>4 DEF Conserved
<1>11. LockedWhileConnecting' /\ Filled' /\ AwaitedAreMade'
  BY <1>0, <1>1, <1>3, <1>6 DEF LockedWhileConnecting, Filled, AwaitedAreMade
<1>12. Gated'
  BY <1>1, <1>5 DEF Gated
<1>13. Cardinality(Using) < Size \/ closed
  <2>1. Cardinality(idle) # 0
    BY <1>4
  <2>2. QED
    BY <1>0, <1>4, <1>5, <2>1 DEF Conserved
<1>14. QED
  BY <1>2, <1>7, <1>8, <1>9, <1>10, <1>11, <1>12, <1>13 DEF IInv

\* A connection goes from a thread back to the queue.
LEMMA ReleaseStep ==
    ASSUME IInv, NEW q \in Calls, NEW outcome \in {"done", "raised"}, Release(q, outcome)
    PROVE  IInv' /\ q \in Using /\ Using' = Using \ {q}
<1> USE PoolAssumption
<1>0. TypeOK /\ Exclusive /\ Conserved /\ Numbered /\ Finite /\ LockedWhileConnecting /\ Gated
      /\ Filled /\ AwaitedAreMade
  BY DEF IInv
<1>1. /\ state[q] = "using" /\ conn' = [conn EXCEPT ![q] = None] /\ idle' = idle \cup {conn[q]}
      /\ Cardinality(idle) < Size /\ Goto(q, outcome)
      /\ UNCHANGED <<server, awaited, lock, made, initialized, opened, refusals, closed>>
  BY DEF Release, HasRoom
<1>2. Using' = Using \ {q} /\ q \in Using /\ Using \subseteq Calls
  BY <1>0, <1>1, Moves DEF Using
<1>3. /\ \A p \in Calls : p # q => conn'[p] = conn[p]
      /\ state'[q] = outcome /\ \A p \in Calls : p # q => state'[p] = state[p]
  BY <1>0, <1>1 DEF TypeOK, Goto
<1>4. conn[q] \in Nat /\ conn[q] \notin idle
  BY <1>0, <1>2 DEF Exclusive
<1>5. /\ Cardinality(idle) \in Nat /\ Cardinality(Using) \in Nat
      /\ IsFiniteSet(idle') /\ IsFiniteSet(Using')
      /\ Cardinality(idle') = Cardinality(idle) + 1
      /\ Cardinality(Using') = Cardinality(Using) - 1
  BY <1>0, <1>1, <1>2, <1>4, Counts DEF Finite
<1>6. ~closed => initialized
  BY <1>0, <1>1 DEF Gated
<1>7. TypeOK'
  <2>1. state' \in [Calls -> {"new", "queued"} \cup Running \cup Over]
    BY <1>0, <1>1 DEF TypeOK, Goto, Over
  <2>2. conn' \in [Calls -> Nat \cup {None}]
    BY <1>0, <1>1 DEF TypeOK
  <2>3. idle' \subseteq Nat
    BY <1>0, <1>1, <1>4 DEF TypeOK
  <2>4. Cardinality(idle') <= Size
    BY <1>1, <1>5
  <2>5. QED
    BY <1>0, <1>1, <2>1, <2>2, <2>3, <2>4 DEF TypeOK
<1>8. Exclusive'
  <2>1. \A p \in Using \ {q} : conn'[p] = conn[p] /\ conn[p] # conn[q] /\ conn[p] \in Nat \ idle
    BY <1>0, <1>2, <1>3 DEF Exclusive
  <2>2. QED
    BY <1>0, <1>1, <1>2, <2>1 DEF Exclusive
<1>9. Numbered' /\ Finite'
  BY <1>0, <1>1, <1>2, <1>3, <1>5 DEF Numbered, Finite
<1>10. Conserved'
  BY <1>0, <1>1, <1>5 DEF Conserved
<1>11. LockedWhileConnecting' /\ AwaitedAreMade'
  BY <1>0, <1>1, <1>3 DEF LockedWhileConnecting, AwaitedAreMade
<1>12. Gated' /\ Filled'
  BY <1>0, <1>1, <1>6 DEF Gated, Filled, LockedWhileConnecting
<1>13. QED
  BY <1>2, <1>7, <1>8, <1>9, <1>10, <1>11, <1>12 DEF IInv

\* close_all empties the queue; threads keep what they hold.
LEMMA CloseStep ==
    ASSUME IInv, CloseAll
    PROVE  IInv'
<1> USE PoolAssumption
<1>0. TypeOK /\ Exclusive /\ Conserved /\ Numbered /\ Finite /\ LockedWhileConnecting /\ Gated
      /\ Filled /\ AwaitedAreMade
  BY DEF IInv
<1>1. /\ lock = None /\ closed' = TRUE /\ initialized' = FALSE /\ idle' = {}
      /\ UNCHANGED <<server, state, awaited, conn, lock, made, opened, refusals>>
  BY DEF CloseAll
<1>2. Using' = Using /\ IsFiniteSet(idle') /\ Cardinality(idle') = 0
  BY <1>1, FS_EmptySet DEF Using
<1>3. TypeOK'
  <2>1. initialized' \in BOOLEAN /\ closed' \in BOOLEAN
    BY <1>1
  <2>2. idle' \subseteq Nat /\ Cardinality(idle') <= Size
    BY <1>1, <1>2
  <2>3. QED
    BY <1>0, <1>1, <2>1, <2>2 DEF TypeOK
<1>4. Exclusive' /\ Numbered' /\ Finite'
  BY <1>0, <1>1, <1>2 DEF Exclusive, Numbered, Finite
<1>5. Conserved' /\ LockedWhileConnecting' /\ Gated' /\ Filled' /\ AwaitedAreMade'
  BY <1>0, <1>1 DEF Conserved, LockedWhileConnecting, Gated, Filled, AwaitedAreMade
<1>6. QED
  BY <1>3, <1>4, <1>5 DEF IInv

LEMMA InvStep == IInv /\ [Next]_vars => IInv'
<1> SUFFICES ASSUME IInv, [Next]_vars PROVE IInv'
  OBVIOUS
<1>1. ASSUME NEW q \in Calls,
             \/ Submit(q) \/ Start(q) \/ Check(q) \/ Lock(q) \/ ConnectRefused(q)
             \/ Initialized(q) \/ GetTimesOut(q) \/ GiveUp(q)
      PROVE  IInv'
  BY <1>1, QuietStep
<1>2. ASSUME NEW q \in Calls, Connect(q)
      PROVE  IInv'
  BY <1>2, ConnectStep
<1>3. ASSUME NEW q \in Calls, NEW c \in idle, Get(q, c)
      PROVE  IInv'
  BY <1>3, GetStep
<1>4. ASSUME NEW q \in Calls, NEW outcome \in {"done", "raised"}, Release(q, outcome)
      PROVE  IInv'
  BY <1>4, ReleaseStep
<1>5. CASE CloseAll
  BY <1>5, CloseStep
<1>6. CASE UNCHANGED vars
  BY <1>6 DEF vars, IInv, TypeOK, Exclusive, Conserved, Numbered, Finite, LockedWhileConnecting, Gated,
              Filled, AwaitedAreMade, Using
<1>7. QED
  BY <1>1, <1>2, <1>3, <1>4, <1>5, <1>6 DEF Next, Thread

LEMMA PoolInvariant == Spec => []IInv
  BY InvInit, InvStep, PTL DEF Spec

-----------------------------------------------------------------------------
(* What the runs check.                                                    *)

\* The type invariant.
THEOREM TypeCorrect == Spec => []TypeOK
<1>1. IInv => TypeOK
  BY DEF IInv
<1>2. QED
  BY <1>1, PoolInvariant, PTL

\* No connection is with two threads, or with a thread and in the queue.
THEOREM ConnectionsAreExclusive == Spec => []Exclusive
<1>1. IInv => Exclusive
  BY DEF IInv
<1>2. QED
  BY <1>1, PoolInvariant, PTL

\* Until the server stops, an initialised pool has all its connections.
THEOREM ConnectionsAreConserved == Spec => []Conserved
<1>1. IInv => Conserved
  BY DEF IInv
<1>2. QED
  BY <1>1, PoolInvariant, PTL

-----------------------------------------------------------------------------
(* The pool implements QueryCalls.                                         *)

LEMMA SameCardinality == \A S : QueryPool!Cardinality(S) = Cardinality(S)
  BY DEF QueryPool!Cardinality, Cardinality

\* What the callers know, as QueryCalls has it.
Knows == [q \in Calls |-> Told(q)]

\* Only the call a step is about may learn something.
LEMMA OthersKnow ==
    ASSUME TypeOK, NEW q \in Calls, NEW v, Told(q)' = v,
           \A p \in Calls : p # q => state'[p] = state[p] /\ awaited'[p] = awaited[p]
    PROVE  Knows' = [Knows EXCEPT ![q] = v]
<1>1. \A p \in Calls : p # q => Told(p)' = Told(p)
  BY DEF Told
<1>2. QED
  BY <1>1 DEF Knows

LEMMA CallsInit == Init => QueryPool!Init
<1> SUFFICES ASSUME Init PROVE QueryPool!Init
  OBVIOUS
<1>1. [q \in Calls |-> Told(q)] = [q \in Calls |-> "new"]
  BY DEF Init, Told
<1>2. Using = {}
  BY DEF Init, Using
<1>3. QED
  BY <1>1, <1>2 DEF Init, QueryPool!Init

\* The steps that nobody outside the pool sees.
LEMMA HiddenStep ==
    ASSUME IInv, NEW q \in Calls,
           Start(q) \/ Check(q) \/ Lock(q) \/ Connect(q) \/ Initialized(q)
    PROVE  UNCHANGED QueryPool!vars
<1>0. TypeOK
  BY DEF IInv
<1>1. /\ state[q] \in {"queued", "check", "lock", "connecting"}
      /\ state'[q] \in {"check", "want", "lock", "connecting"}
      /\ \A p \in Calls : p # q => state'[p] = state[p]
      /\ awaited' = awaited /\ closed' = closed
  BY <1>0 DEF Start, Check, Lock, Connect, Initialized, Goto, TypeOK
<1>2. Using' = Using
  BY <1>1 DEF Using
<1>3. \A p \in Calls : Told(p)' = Told(p)
  BY <1>0, <1>1 DEF Told, TypeOK
<1>4. QED
  BY <1>1, <1>2, <1>3 DEF QueryPool!vars

\* A call that ends without a connection.
LEMMA RefusedStep ==
    ASSUME IInv, NEW q \in Calls, ConnectRefused(q) \/ GetTimesOut(q)
    PROVE  QueryPool!Refuse(q) \/ UNCHANGED QueryPool!vars
<1>0. TypeOK
  BY DEF IInv
<1>1. /\ state[q] \in {"connecting", "want"} /\ state'[q] = "raised"
      /\ \A p \in Calls : p # q => state'[p] = state[p]
      /\ awaited' = awaited /\ closed' = closed
  BY <1>0 DEF ConnectRefused, GetTimesOut, Goto, TypeOK
<1>2. Using' = Using /\ q \notin Using
  BY <1>1 DEF Using
<1>3. CASE awaited[q]
  <2>1. Told(q) = "pending" /\ Told(q)' = "failed"
    BY <1>1, <1>3 DEF Told
  <2>2. Knows' = [Knows EXCEPT ![q] = "failed"]
    BY <1>0, <1>1, <2>1, OthersKnow
  <2>3. QED
    BY <1>1, <1>2, <2>1, <2>2 DEF QueryPool!Refuse, Knows
<1>4. CASE ~awaited[q]
  <2>1. \A p \in Calls : Told(p)' = Told(p)
    BY <1>1, <1>4 DEF Told
  <2>2. QED
    BY <1>1, <1>2, <2>1 DEF QueryPool!vars
<1>5. QED
  BY <1>3, <1>4

LEMMA CallsStep == IInv /\ [Next]_vars => [QueryPool!Next]_(QueryPool!vars)
<1> SUFFICES ASSUME IInv, [Next]_vars PROVE [QueryPool!Next]_(QueryPool!vars)
  OBVIOUS
<1>0. TypeOK /\ AwaitedAreMade
  BY DEF IInv
<1>1. ASSUME NEW q \in Calls, Submit(q)
      PROVE  QueryPool!Next
  <2>1. /\ state[q] = "new" /\ state'[q] = "queued" /\ awaited'[q] = TRUE /\ ~closed
        /\ \A p \in Calls : p # q => state'[p] = state[p] /\ awaited'[p] = awaited[p]
        /\ closed' = closed
    BY <1>0, <1>1 DEF Submit, Goto, TypeOK
  <2>2. Told(q) = "new" /\ Told(q)' = "pending"
    BY <2>1 DEF Told
  <2>3. Knows' = [Knows EXCEPT ![q] = "pending"]
    BY <1>0, <2>1, <2>2, OthersKnow
  <2>4. Using' = Using
    BY <2>1 DEF Using
  <2>5. QueryPool!Submit(q)
    BY <2>1, <2>2, <2>3, <2>4 DEF QueryPool!Submit, Knows
  <2>6. QED
    BY <2>5 DEF QueryPool!Next
<1>2. ASSUME NEW q \in Calls, Start(q) \/ Check(q) \/ Lock(q) \/ Connect(q) \/ Initialized(q)
      PROVE  UNCHANGED QueryPool!vars
  BY <1>2, HiddenStep
<1>3. ASSUME NEW q \in Calls, ConnectRefused(q) \/ GetTimesOut(q)
      PROVE  [QueryPool!Next]_(QueryPool!vars)
  BY <1>3, RefusedStep DEF QueryPool!Next
<1>4. ASSUME NEW q \in Calls, NEW c \in idle, Get(q, c)
      PROVE  QueryPool!Next
  <2>1. /\ state[q] = "want" /\ state'[q] = "using"
        /\ \A p \in Calls : p # q => state'[p] = state[p]
        /\ awaited' = awaited /\ closed' = closed
    BY <1>0, <1>4 DEF Get, Goto, TypeOK
  <2>2. Told(q) \in {"pending", "abandoned"} /\ \A p \in Calls : Told(p)' = Told(p)
    BY <1>0, <2>1 DEF Told, TypeOK
  <2>3. Using' = Using \cup {q} /\ q \notin Using /\ (Cardinality(Using) < Size \/ closed)
    BY <1>4, GetStep
  <2>4. QueryPool!Begin(q)
    BY <2>1, <2>2, <2>3, SameCardinality DEF QueryPool!Begin
  <2>5. QED
    BY <2>4 DEF QueryPool!Next
<1>5. ASSUME NEW q \in Calls, NEW outcome \in {"done", "raised"}, Release(q, outcome)
      PROVE  QueryPool!Next
  <2>1. /\ state[q] = "using" /\ state'[q] = outcome
        /\ \A p \in Calls : p # q => state'[p] = state[p]
        /\ awaited' = awaited /\ closed' = closed
    BY <1>0, <1>5 DEF Release, Goto, TypeOK
  <2>2. q \in Using /\ Using' = Using \ {q}
    BY <1>5, ReleaseStep
  <2>3. CASE awaited[q]
    <3>1. Told(q) = "pending" /\ Told(q)' \in {"answered", "failed"}
      BY <2>1, <2>3 DEF Told
    <3>2. Knows' = [Knows EXCEPT ![q] = Told(q)']
      BY <1>0, <2>1, OthersKnow
    <3>3. QueryPool!End(q)
      BY <2>1, <2>2, <3>1, <3>2 DEF QueryPool!End, Knows
    <3>4. QED
      BY <3>3 DEF QueryPool!Next
  <2>4. CASE ~awaited[q]
    <3>1. Told(q) = "abandoned" /\ \A p \in Calls : Told(p)' = Told(p)
      BY <2>1, <2>4 DEF Told
    <3>2. QueryPool!End(q)
      BY <2>1, <2>2, <3>1 DEF QueryPool!End
    <3>3. QED
      BY <3>2 DEF QueryPool!Next
  <2>5. QED
    BY <2>3, <2>4
<1>6. ASSUME NEW q \in Calls, GiveUp(q)
      PROVE  QueryPool!Next
  <2>1. /\ awaited[q] /\ state[q] \notin Over \cup {"new"} /\ awaited'[q] = FALSE
        /\ state'[q] = IF state[q] = "queued" THEN "cancelled" ELSE state[q]
        /\ \A p \in Calls : p # q => state'[p] = state[p] /\ awaited'[p] = awaited[p]
        /\ closed' = closed
    BY <1>0, <1>6 DEF GiveUp, Goto, TypeOK, AwaitedAreMade
  <2>2. Told(q) = "pending" /\ Told(q)' = "abandoned"
    BY <2>1 DEF Told, Over
  <2>3. Knows' = [Knows EXCEPT ![q] = "abandoned"]
    BY <1>0, <2>1, <2>2, OthersKnow
  <2>4. Using' = Using
    BY <2>1 DEF Using
  <2>5. QueryPool!GiveUp(q)
    BY <2>1, <2>2, <2>3, <2>4 DEF QueryPool!GiveUp, Knows
  <2>6. QED
    BY <2>5 DEF QueryPool!Next
<1>7. CASE CloseAll
  <2>1. /\ ~closed /\ closed' = TRUE /\ state' = state /\ awaited' = awaited
        /\ \A q \in Calls : awaited[q] => state[q] \in Over
    BY <1>7 DEF CloseAll
  <2>2. Using' = Using /\ \A q \in Calls : Told(q)' = Told(q)
    BY <2>1 DEF Using, Told
  <2>3. \A q \in Calls : Told(q) # "pending"
    BY <1>0, <2>1 DEF Told, Over, AwaitedAreMade
  <2>4. QueryPool!Stop
    BY <2>1, <2>2, <2>3 DEF QueryPool!Stop
  <2>5. QED
    BY <2>4 DEF QueryPool!Next
<1>8. CASE UNCHANGED vars
  BY <1>8 DEF vars, QueryPool!vars, Told, Using
<1>9. QED
  BY <1>1, <1>2, <1>3, <1>4, <1>5, <1>6, <1>7, <1>8 DEF Next, Thread

\* A caller that gave up is never answered, a call is answered by a query that
\* ran, and abandoned queries count against the connections until the server
\* stops.
THEOREM PoolImplementsCalls == Spec => ImplementsCalls
<1>1. IInv /\ [Next]_vars => [QueryPool!Next]_(QueryPool!vars)
  BY CallsStep
<1>2. QED
  BY <1>1, CallsInit, PoolInvariant, PTL DEF Spec, QueryPool!Spec, ImplementsCalls
=============================================================================

--------------------------- MODULE ConnectionPool ---------------------------
(***************************************************************************)
(* The bounded pool of api/app/db/connection.py and the threads that use   *)
(* it: execute_query hands each query to a thread of the default executor  *)
(* (asyncio.to_thread), and _gather_safe (api/app/tools/briefings.py) may  *)
(* stop waiting for the answer while the thread goes on.                   *)
(*                                                                         *)
(* The server initialises the pool in its lifespan before it serves        *)
(* (`server` is TRUE); the tool command line runs queries on a pool that   *)
(* the first threads to need it initialise.                                *)
(***************************************************************************)
EXTENDS Integers, FiniteSets

CONSTANTS Calls,        (* calls of execute_query                           *)
          Size,         (* sql_pool_size                                    *)
          Workers,      (* threads of the default executor                  *)
          MaxRefusals,  (* bound: connections the server refuses            *)
          None          (* no connection, no thread                         *)

ASSUME PoolAssumption ==
    /\ Size \in Nat \ {0}
    /\ Workers \in Nat \ {0}
    /\ MaxRefusals \in Nat
    /\ None \notin Calls
    /\ None \notin Nat

VARIABLES server,       (* the pool belongs to the server, not to the CLI   *)
          state,        (* where the thread of a call is                    *)
          awaited,      (* a coroutine is still waiting for the call        *)
          conn,         (* the connection a thread holds                    *)
          idle,         (* _pool                                            *)
          lock,         (* the thread holding _lock                         *)
          made,         (* connections it has put so far                    *)
          initialized,  (* _initialized                                     *)
          opened,       (* connections ever opened                          *)
          refusals,
          closed        (* the server has shut down                         *)

vars == <<server, state, awaited, conn, idle, lock, made, initialized, opened, refusals, closed>>

Running == {"check", "lock", "connecting", "want", "using"}
Over == {"done", "raised", "cancelled"}
Goto(q, s) == state' = [state EXCEPT ![q] = s]

Init ==
    /\ server \in BOOLEAN
    /\ state = [q \in Calls |-> "new"]
    /\ awaited = [q \in Calls |-> FALSE]
    /\ conn = [q \in Calls |-> None]
    /\ idle = IF server THEN 1..Size ELSE {}
    /\ lock = None
    /\ made = 0
    /\ initialized = server
    /\ opened = IF server THEN Size ELSE 0
    /\ refusals = 0
    /\ closed = FALSE

\* execute_query: asyncio.to_thread queues the call.
Submit(q) ==
    /\ state[q] = "new"
    /\ ~closed
    /\ Goto(q, "queued")
    /\ awaited' = [awaited EXCEPT ![q] = TRUE]
    /\ UNCHANGED <<server, conn, idle, lock, made, initialized, opened, refusals, closed>>

\* A thread of the executor takes it.
Start(q) ==
    /\ state[q] = "queued"
    /\ Cardinality({p \in Calls : state[p] \in Running}) < Workers
    /\ Goto(q, "check")
    /\ UNCHANGED <<server, awaited, conn, idle, lock, made, initialized, opened, refusals, closed>>

\* The unlocked test at the top of acquire.
Check(q) ==
    /\ state[q] = "check"
    /\ Goto(q, IF initialized THEN "want" ELSE "lock")
    /\ UNCHANGED <<server, awaited, conn, idle, lock, made, initialized, opened, refusals, closed>>

\* initialize: the lock, and the second look at the flag.
Lock(q) ==
    /\ state[q] = "lock"
    /\ lock = None
    /\ IF initialized
       THEN Goto(q, "want") /\ UNCHANGED <<lock, made>>
       ELSE lock' = q /\ made' = 0 /\ Goto(q, "connecting")
    /\ UNCHANGED <<server, awaited, conn, idle, initialized, opened, refusals, closed>>

\* Wrong on purpose: a queue without a maxsize.
HasRoomUnbounded == Cardinality(idle) >= 0

HasRoom == Cardinality(idle) < Size

\* One round of the loop: connect, and put, which waits while the queue is full.
Connect(q) ==
    /\ state[q] = "connecting"
    /\ made < Size
    /\ HasRoom
    /\ opened' = opened + 1
    /\ idle' = idle \cup {opened'}
    /\ made' = made + 1
    /\ UNCHANGED <<server, state, awaited, conn, lock, initialized, refusals, closed>>

\* Wrong on purpose: the lock is not released when connecting fails.
ConnectRefusedHoldsLock(q) ==
    /\ state[q] = "connecting"
    /\ made < Size
    /\ refusals < MaxRefusals
    /\ refusals' = refusals + 1
    /\ Goto(q, "raised")
    /\ UNCHANGED <<server, awaited, conn, idle, lock, made, initialized, opened, closed>>

\* pyodbc.connect raises: the lock is released, what was put stays in the queue.
ConnectRefused(q) ==
    /\ state[q] = "connecting"
    /\ made < Size
    /\ refusals < MaxRefusals
    /\ refusals' = refusals + 1
    /\ lock' = None
    /\ Goto(q, "raised")
    /\ UNCHANGED <<server, awaited, conn, idle, made, initialized, opened, closed>>

Initialized(q) ==
    /\ state[q] = "connecting"
    /\ made = Size
    /\ initialized' = TRUE
    /\ lock' = None
    /\ Goto(q, "want")
    /\ UNCHANGED <<server, awaited, conn, idle, made, opened, refusals, closed>>

\* Wrong on purpose: the connection stays in the queue while it is used.
GetShared(q, c) ==
    /\ state[q] = "want"
    /\ conn' = [conn EXCEPT ![q] = c]
    /\ Goto(q, "using")
    /\ UNCHANGED <<server, awaited, idle, lock, made, initialized, opened, refusals, closed>>

\* _pool.get
Get(q, c) ==
    /\ state[q] = "want"
    /\ conn' = [conn EXCEPT ![q] = c]
    /\ idle' = idle \ {c}
    /\ Goto(q, "using")
    /\ UNCHANGED <<server, awaited, lock, made, initialized, opened, refusals, closed>>

\* Ten seconds with an empty queue: Empty is raised.
GetTimesOut(q) ==
    /\ state[q] = "want"
    /\ idle = {}
    /\ Goto(q, "raised")
    /\ UNCHANGED <<server, awaited, conn, idle, lock, made, initialized, opened, refusals, closed>>

\* Wrong on purpose: the connection comes back only when the query succeeds.
ReleaseOnSuccess(q, outcome) ==
    /\ state[q] = "using"
    /\ HasRoom
    /\ idle' = IF outcome = "done" THEN idle \cup {conn[q]} ELSE idle
    /\ conn' = [conn EXCEPT ![q] = None]
    /\ Goto(q, outcome)
    /\ UNCHANGED <<server, awaited, lock, made, initialized, opened, refusals, closed>>

\* The query returns or raises, awaited or not; finally puts the connection back.
Release(q, outcome) ==
    /\ state[q] = "using"
    /\ HasRoom
    /\ idle' = idle \cup {conn[q]}
    /\ conn' = [conn EXCEPT ![q] = None]
    /\ Goto(q, outcome)
    /\ UNCHANGED <<server, awaited, lock, made, initialized, opened, refusals, closed>>

\* asyncio.wait_for gives up after five seconds.  A call no thread has taken is
\* cancelled; a running thread cannot be.
GiveUp(q) ==
    /\ awaited[q]
    /\ state[q] \notin Over
    /\ awaited' = [awaited EXCEPT ![q] = FALSE]
    /\ IF state[q] = "queued" THEN Goto(q, "cancelled") ELSE UNCHANGED state
    /\ UNCHANGED <<server, conn, idle, lock, made, initialized, opened, refusals, closed>>

\* The lifespan of the server ends once nobody is being served.
CloseAll ==
    /\ server
    /\ ~closed
    /\ \A q \in Calls : awaited[q] => state[q] \in Over
    /\ lock = None
    /\ closed' = TRUE
    /\ initialized' = FALSE
    /\ idle' = {}
    /\ UNCHANGED <<server, state, awaited, conn, lock, made, opened, refusals>>

Thread(q) ==
    \/ Start(q)
    \/ Check(q)
    \/ Lock(q)
    \/ Connect(q)
    \/ ConnectRefused(q)
    \/ Initialized(q)
    \/ \E c \in idle : Get(q, c)
    \/ GetTimesOut(q)
    \/ \E outcome \in {"done", "raised"} : Release(q, outcome)

Next == (\E q \in Calls : Submit(q) \/ GiveUp(q) \/ Thread(q)) \/ CloseAll

\* Threads are scheduled, the lock and the queue are handed over without
\* starving anyone, and a query ends.  When calls are made, when a coroutine
\* gives up and when the server stops is nobody's obligation.
Spec == Init /\ [][Next]_vars /\ \A q \in Calls : WF_vars(Thread(q)) /\ SF_vars(Lock(q)) /\ SF_vars(Start(q))

-----------------------------------------------------------------------------
(* Properties.                                                             *)

TypeOK ==
    /\ server \in BOOLEAN
    /\ state \in [Calls -> {"new", "queued"} \cup Running \cup Over]
    /\ awaited \in [Calls -> BOOLEAN]
    /\ conn \in [Calls -> Nat \cup {None}]
    /\ idle \subseteq Nat /\ Cardinality(idle) <= Size
    /\ lock \in Calls \cup {None}
    /\ made \in 0..Size
    /\ initialized \in BOOLEAN
    /\ opened \in Nat
    /\ refusals \in 0..MaxRefusals
    /\ closed \in BOOLEAN

Using == {q \in Calls : state[q] = "using"}

\* No connection is ever with two threads, or with a thread and in the queue.
Exclusive ==
    /\ \A q \in Using : conn[q] \in Nat \ idle
    /\ \A p, q \in Using : conn[p] = conn[q] => p = q

\* Until the server stops, an initialised pool neither loses nor gains a
\* connection, whatever raised, timed out or was abandoned.  (A call abandoned
\* before close_all may initialise the pool again after it.)
Conserved ==
    initialized /\ ~closed => Cardinality(idle) + Cardinality(Using) = Size

\* A thread that initialises the pool is blocked on a full queue.
PutBlocked == \E q \in Calls : state[q] = "connecting" /\ made < Size /\ ~HasRoom

\* Every call that was made ends, also one nobody waits for any more: threads
\* never wait for each other in a circle and always give their connection back.
\* Only the end of the server, or an initialisation after a refused connection,
\* may strand one.
CallsEnd ==
    \A q \in Calls : state[q] = "queued" ~> state[q] \in Over \/ closed \/ PutBlocked

\* The pool is documented as bounded and pre-created by initialize, so that the
\* thread that initialises it always finds room for its connections.  After a
\* refused connection it does not, and it waits forever with the lock.
InitializeHasRoom == ~PutBlocked

\* What the coroutine that made a call knows of it.
Told(q) ==
    CASE state[q] = "new"                  -> "new"
      [] state[q] # "new" /\ ~awaited[q]   -> "abandoned"
      [] state[q] = "done" /\ awaited[q]   -> "answered"
      [] state[q] = "raised" /\ awaited[q] -> "failed"
      [] OTHER                             -> "pending"

\* The pool keeps the promise of QueryCalls: a caller that gave up is never
\* answered, a call is answered by a query that ran, and abandoned queries still
\* count against the connections, through a late or repeated initialisation,
\* time-outs and the shutdown.
QueryPool == INSTANCE QueryCalls WITH
    Calls <- Calls, Size <- Size,
    call <- [q \in Calls |-> Told(q)], busy <- Using, stopped <- closed
ImplementsCalls == QueryPool!Spec
=============================================================================

---------------------------- MODULE QueryEngine ----------------------------
(***************************************************************************)
(* The query side of the platform: duckdb-query-api reads, for every       *)
(* metrics request, the log of events that webhook-ingest is writing at    *)
(* the same time.                                                          *)
(*                                                                         *)
(* Requests run as blocking tasks on a bounded set of threads; each draws  *)
(* a connection of the pool round-robin, waits for its mutex and scans the *)
(* bucket page by page, twice for the metric that joins the events with    *)
(* themselves.  A caller may leave before the answer, a query may fail or  *)
(* panic, which poisons the mutex, and the process may die and restart.    *)
(***************************************************************************)
EXTENDS EventLog, Integers, FiniteSets

CONSTANTS
    Query,        \* metrics requests, over REST or MCP
    Null,         \* an absent value
    PoolSize,     \* connections, DEFAULT_POOL_SIZE in production
    WordSize,     \* values of the AtomicUsize next_connection
    Threads,      \* threads of the runtime for blocking tasks
    Pages,        \* pages of a listing of the bucket
    PageOf,       \* the page a recorded event is on
    ScanCounts,   \* scans of the bucket that the SQL of a metric makes
    MaxRestarts   \* the bound on restarts

Connection == 0 .. PoolSize - 1

\* PoolSize divides WordSize: 4 divides 2^64.
ASSUME PoolAssumption == /\ PoolSize \in Nat \ {0}
                         /\ WordSize \in Nat \ {0}
                         /\ WordSize % PoolSize = 0

ASSUME QueriesAssumption == /\ Null \notin Query
                            /\ Null \notin Connection
                            /\ Threads \in Nat \ {0}
                            /\ ScanCounts \subseteq 1 .. 2
                            /\ MaxRestarts \in Nat

ASSUME PagesAssumption == /\ Pages \in Nat \ {0}
                          /\ PageOf \in [Request -> 1 .. Pages]

VARIABLES
    service,    \* the process: starting, bound, serving or exited
    restarts,   \* times it was started again
    caller,     \* who asked for each metric, and whether it still waits
    outcome,    \* what a query came to, when its caller was still there
    known,      \* the events acknowledged when it was asked
    shown,      \* the events that answers had shown by then
    task,       \* how far its blocking task has come
    index,      \* the connection it drew
    scans,      \* the scans of the bucket its SQL makes
    scan, page, \* the one it is in, and the pages of it that it has read
    seen,       \* what each of its scans has read
    next,       \* next_connection
    holder,     \* who holds the mutex of each connection
    poisoned    \* which mutexes are poisoned

process == <<service, restarts>>
asking == <<caller, known, shown, scans>>
running == <<task, index>>
reading == <<scan, page, seen>>
pool == <<next, holder, poisoned>>
engineVars == <<process, asking, outcome, running, reading, pool>>
vars == <<logVars, engineVars>>

TypeOK ==
    /\ LogTypeOK
    /\ service \in {"starting", "bound", "serving", "exited"}
    /\ restarts \in 0 .. MaxRestarts
    /\ caller \in [Query -> {"away", "waiting", "answered", "reset", "left"}]
    /\ outcome \in [Query -> {"none", "rows", "error"}]
    /\ known \in [Query -> SUBSET Request]
    /\ shown \in [Query -> SUBSET Request]
    /\ task \in [Query -> {"none", "queued", "locking", "reading"}]
    /\ index \in [Query -> Connection \cup {Null}]
    /\ scans \in [Query -> 1 .. 2]
    /\ scan \in [Query -> 1 .. 2]
    /\ page \in [Query -> 0 .. Pages]
    /\ seen \in [Query -> [1 .. 2 -> SUBSET Request]]
    /\ next \in 0 .. WordSize - 1
    /\ holder \in [Connection -> Query \cup {Null}]
    /\ poisoned \in [Connection -> BOOLEAN]

Nothing == [k \in 1 .. 2 |-> {}]

Acknowledged == {r \in Request : reply[r] = "stored"}

AnswerOf(q) == IF outcome[q] = "rows" THEN UNION {seen[q][k] : k \in 1 .. scans[q]} ELSE {}

Shown == UNION {AnswerOf(q) : q \in Query}

-----------------------------------------------------------------------------
(* The process: main binds the port, then initialises the pool, then       *)
(* serves.                                                                 *)

EmptyPool == /\ next' = 0
             /\ holder' = [k \in Connection |-> Null]
             /\ poisoned' = [k \in Connection |-> FALSE]

Bind == /\ service = "starting"
        /\ service' = "bound"
        /\ UNCHANGED <<logVars, restarts, asking, outcome, running, reading, pool>>

Serve == /\ service = "bound"
         /\ service' = "serving"
         /\ EmptyPool
         /\ UNCHANGED <<logVars, restarts, asking, outcome, running, reading>>

(* The process ends: the environment is incomplete, the port is taken, an  *)
(* extension cannot be installed, or it is stopped.  The kernel resets the *)
(* connections of those who wait, and the threads are gone.                *)
Exit == /\ service # "exited"
        /\ service' = "exited"
        /\ caller' = [q \in Query |-> IF caller[q] = "waiting" THEN "reset" ELSE caller[q]]
        /\ task' = [q \in Query |-> "none"]
        /\ index' = [q \in Query |-> Null]
        /\ scan' = [q \in Query |-> 1]
        /\ page' = [q \in Query |-> 0]
        /\ seen' = [q \in Query |-> IF outcome[q] = "rows" THEN seen[q] ELSE Nothing]
        /\ EmptyPool
        /\ UNCHANGED <<logVars, restarts, known, shown, scans, outcome>>

Restart == /\ service = "exited"
           /\ restarts < MaxRestarts
           /\ service' = "starting"
           /\ restarts' = restarts + 1
           /\ UNCHANGED <<logVars, asking, outcome, running, reading, pool>>

-----------------------------------------------------------------------------
(* Callers: Grafana, an MCP client, curl                                   *)

(* A request arrives, before or after the pool is ready; n is the number   *)
(* of scans of the metric it asks for.                                     *)
Ask(q, n) == /\ service \in {"bound", "serving"}
             /\ caller[q] = "away"
             /\ caller' = [caller EXCEPT ![q] = "waiting"]
             /\ known' = [known EXCEPT ![q] = Acknowledged]
             /\ shown' = [shown EXCEPT ![q] = Shown]
             /\ scans' = [scans EXCEPT ![q] = n]
             /\ UNCHANGED <<logVars, process, outcome, running, reading, pool>>

(* The caller closes its connection.  The handler's future is dropped; a   *)
(* blocking task that it has spawned is detached and goes on.              *)
Leave(q) == /\ caller[q] = "waiting"
            /\ caller' = [caller EXCEPT ![q] = "left"]
            /\ UNCHANGED <<logVars, process, known, shown, scans, outcome, running, reading, pool>>

-----------------------------------------------------------------------------
(* DuckDbEngine::query                                                     *)

\* A variant that tries a query again.
SpawnAgain(q) == /\ service = "serving"
                 /\ task[q] = "none"
                 /\ caller[q] # "away"
                 /\ task' = [task EXCEPT ![q] = "queued"]
                 /\ UNCHANGED <<logVars, process, asking, outcome, index, reading, pool>>

Spawn(q) == /\ service = "serving"
            /\ caller[q] = "waiting"
            /\ task[q] = "none"
            /\ task' = [task EXCEPT ![q] = "queued"]
            /\ UNCHANGED <<logVars, process, asking, outcome, index, reading, pool>>

Started == {q \in Query : task[q] \in {"locking", "reading"}}

\* A variant that reads next_connection and does not advance it.
DrawConnectionUncounted(q) ==
    /\ task[q] = "queued"
    /\ Cardinality(Started) < Threads
    /\ index' = [index EXCEPT ![q] = next % PoolSize]
    /\ task' = [task EXCEPT ![q] = "locking"]
    /\ UNCHANGED <<logVars, process, asking, outcome, reading, pool>>

\* A variant whose counter does not wrap.
DrawConnectionUnwrapped(q) ==
    /\ task[q] = "queued"
    /\ Cardinality(Started) < Threads
    /\ index' = [index EXCEPT ![q] = next % PoolSize]
    /\ next' = next + 1
    /\ task' = [task EXCEPT ![q] = "locking"]
    /\ UNCHANGED <<logVars, process, asking, outcome, reading, holder, poisoned>>

(* A thread takes up the task: fetch_add, which wraps, modulo the number   *)
(* of connections.                                                         *)
DrawConnection(q) ==
    /\ task[q] = "queued"
    /\ Cardinality(Started) < Threads
    /\ index' = [index EXCEPT ![q] = next % PoolSize]
    /\ next' = (next + 1) % WordSize
    /\ task' = [task EXCEPT ![q] = "locking"]
    /\ UNCHANGED <<logVars, process, asking, outcome, reading, holder, poisoned>>

\* A variant without the mutex.
LockAnyway(q) == /\ task[q] = "locking"
                 /\ ~poisoned[index[q]]
                 /\ holder' = [holder EXCEPT ![index[q]] = q]
                 /\ task' = [task EXCEPT ![q] = "reading"]
                 /\ UNCHANGED <<logVars, process, asking, outcome, index, reading,
                                next, poisoned>>

(* The mutex is free and sound.                                            *)
Lock(q) == /\ task[q] = "locking"
           /\ holder[index[q]] = Null
           /\ ~poisoned[index[q]]
           /\ holder' = [holder EXCEPT ![index[q]] = q]
           /\ task' = [task EXCEPT ![q] = "reading"]
           /\ UNCHANGED <<logVars, process, asking, outcome, index, reading, next, poisoned>>

(* The task is over and its caller, if there is still one, hears of it.    *)
(* What was read is kept only for those who got it.                        *)
Conclude(q, result) ==
    /\ task' = [task EXCEPT ![q] = "none"]
    /\ scan' = [scan EXCEPT ![q] = 1]
    /\ page' = [page EXCEPT ![q] = 0]
    /\ \/ /\ caller[q] = "waiting"
          /\ caller' = [caller EXCEPT ![q] = "answered"]
          /\ outcome' = [outcome EXCEPT ![q] = result]
          /\ seen' = [seen EXCEPT ![q] = IF result = "rows" THEN @ ELSE Nothing]
       \/ /\ caller[q] # "waiting"
          /\ seen' = [seen EXCEPT ![q] = Nothing]
          /\ UNCHANGED <<caller, outcome>>
    /\ UNCHANGED <<logVars, process, known, shown, scans, index, next>>

Unlock(q) == holder' = [holder EXCEPT ![index[q]] = Null]

LockPoisoned(q) == /\ task[q] = "locking"
                   /\ holder[index[q]] = Null
                   /\ poisoned[index[q]]
                   /\ Conclude(q, "error")
                   /\ UNCHANGED <<holder, poisoned>>

Reading(q) == task[q] = "reading"

OnPage(p) == {r \in recorded : PageOf[r] = p}

(* DuckDB reads on: another page of the listing and the objects on it.     *)
ReadPage(q) ==
    /\ Reading(q)
    /\ page[q] < Pages
    /\ page' = [page EXCEPT ![q] = @ + 1]
    /\ seen' = [seen EXCEPT ![q][scan[q]] = @ \cup OnPage(page[q] + 1)]
    /\ UNCHANGED <<logVars, process, asking, outcome, running, scan, pool>>

\* A variant that takes a page that is not empty for the whole listing.
MatchedOnSomePage(q) == page[q] > 0 /\ seen[q][scan[q]] # {}

(* read_parquet refuses a pattern that matches no object.                  *)
Matched(q) == page[q] = Pages /\ seen[q][scan[q]] # {}

NextScan(q) == /\ Reading(q)
               /\ Matched(q)
               /\ scan[q] < scans[q]
               /\ scan' = [scan EXCEPT ![q] = @ + 1]
               /\ page' = [page EXCEPT ![q] = 0]
               /\ UNCHANGED <<logVars, process, asking, outcome, running, seen, pool>>

Rows(q) == /\ Reading(q)
           /\ Matched(q)
           /\ scan[q] = scans[q]
           /\ Conclude(q, "rows")
           /\ Unlock(q)
           /\ UNCHANGED poisoned

\* A variant that keeps the rows it has when the next one cannot be had.
FailsWithSomeRows(q) == /\ Reading(q)
                        /\ Conclude(q, "rows")
                        /\ Unlock(q)
                        /\ UNCHANGED poisoned

(* S3 or DuckDB reports an error, at the latest when nothing matched.      *)
Fails(q) == /\ Reading(q)
            /\ Conclude(q, "error")
            /\ Unlock(q)
            /\ UNCHANGED poisoned

\* A variant that forgets the lock when it unwinds.
PanicsHoldingOn(q) == /\ Reading(q)
                      /\ Conclude(q, "error")
                      /\ UNCHANGED <<holder, poisoned>>

(* The closure panics: the guard is dropped while unwinding, which poisons *)
(* the mutex, and the JoinError becomes an ApiError.                       *)
Panics(q) == /\ Reading(q)
             /\ Conclude(q, "error")
             /\ Unlock(q)
             /\ poisoned' = [poisoned EXCEPT ![index[q]] = TRUE]

-----------------------------------------------------------------------------

Init == /\ LogInit
        /\ service = "starting"
        /\ restarts = 0
        /\ caller = [q \in Query |-> "away"]
        /\ outcome = [q \in Query |-> "none"]
        /\ known = [q \in Query |-> {}]
        /\ shown = [q \in Query |-> {}]
        /\ task = [q \in Query |-> "none"]
        /\ index = [q \in Query |-> Null]
        /\ scans = [q \in Query |-> 1]
        /\ scan = [q \in Query |-> 1]
        /\ page = [q \in Query |-> 0]
        /\ seen = [q \in Query |-> Nothing]
        /\ next = 0
        /\ holder = [k \in Connection |-> Null]
        /\ poisoned = [k \in Connection |-> FALSE]

(* A step of the service for q.                                            *)
Work(q) == \/ Spawn(q) \/ DrawConnection(q) \/ Lock(q) \/ LockPoisoned(q)
           \/ ReadPage(q) \/ NextScan(q) \/ Rows(q) \/ Fails(q) \/ Panics(q)

Ingest == LogNext /\ UNCHANGED engineVars

Next == \/ Ingest
        \/ Bind \/ Serve \/ Exit \/ Restart
        \/ \E q \in Query : Leave(q) \/ Work(q) \/ \E n \in ScanCounts : Ask(q, n)

Spec == Init /\ [][Next]_vars

(***************************************************************************)
(* The operating system runs the threads, a query ends, and the pool is    *)
(* initialised or the process gives up.  Nobody promises that an event is  *)
(* recorded, that a caller stays or that the process is restarted.         *)
(***************************************************************************)
FairSpec == /\ Spec
            /\ WF_vars(Serve)
            /\ \A q \in Query : WF_vars(Work(q))

-----------------------------------------------------------------------------
(* Properties                                                              *)

(***************************************************************************)
(* Read your writes, across the two services: a metric counts every event  *)
(* that was acknowledged before it was asked for, in each of its scans,    *)
(* and none that is not recorded, although events arrive while the bucket  *)
(* is being read (engine.rs:75-93, query.rs:100-104).                      *)
(***************************************************************************)
RowsAreFresh ==
    \A q \in Query : outcome[q] = "rows" =>
        \A k \in 1 .. scans[q] : known[q] \subseteq seen[q][k] /\ seen[q][k] \subseteq recorded

(***************************************************************************)
(* Metrics do not go back: an event that was shown before a metric was     *)
(* asked for is counted by it too, also one that nobody acknowledged, and  *)
(* whichever connection, page or process the answers came from             *)
(* (connection.rs:91-96, engine.rs:75-93).                                 *)
(***************************************************************************)
MonotonicReads ==
    \A q \in Query : outcome[q] = "rows" =>
        \A k \in 1 .. scans[q] : shown[q] \subseteq seen[q][k]

(***************************************************************************)
(* A connection is used by one query at a time, and only a query that is   *)
(* reading keeps one, whoever has left, failed or panicked                 *)
(* (engine.rs:84-90).                                                      *)
(***************************************************************************)
ConnectionsAreHeldByReaders ==
    /\ \A q \in Query : Reading(q) => index[q] # Null /\ holder[index[q]] = q
    /\ \A k \in Connection : holder[k] # Null => Reading(holder[k]) /\ index[holder[k]] = k

(***************************************************************************)
(* Round-robin: no connection is drawn twice more often than another, also *)
(* when the counter wraps (engine.rs:82-83).                               *)
(***************************************************************************)
Drawn(k) == {q \in Query : index[q] = k}

DrawsAreBalanced ==
    \A k, l \in Connection : Cardinality(Drawn(k)) <= Cardinality(Drawn(l)) + 1

(***************************************************************************)
(* Nobody waits for ever and no task outlives its query: with a busy,      *)
(* poisoned or shared connection, and with all threads taken, the caller   *)
(* is answered, reset or gone, and the task ends.                          *)
(***************************************************************************)
Concluded ==
    \A q \in Query :
        caller[q] = "waiting" \/ task[q] # "none" ~>
            caller[q] # "waiting" /\ task[q] = "none"

-----------------------------------------------------------------------------
(***************************************************************************)
(* The inductive invariant behind RowsAreFresh and MonotonicReads.         *)
(***************************************************************************)

(* Scan k of q has read the pages 1 .. p.                                  *)
HasRead(q, k, p) == {r \in known[q] \cup shown[q] : PageOf[r] <= p} \subseteq seen[q][k]

QueryInv(q) ==
    /\ known[q] \cup shown[q] \subseteq recorded
    /\ \A k \in 1 .. 2 : seen[q][k] \subseteq recorded
    /\ caller[q] = "away" => task[q] = "none"
    /\ caller[q] # "answered" => outcome[q] = "none"
    /\ caller[q] = "answered" => task[q] = "none"
    /\ Reading(q) => /\ scan[q] <= scans[q]
                     /\ \A k \in 1 .. 2 : k < scan[q] => HasRead(q, k, Pages)
                     /\ HasRead(q, scan[q], page[q])
    /\ ~Reading(q) => scan[q] = 1 /\ page[q] = 0
    /\ outcome[q] = "rows" => \A k \in 1 .. 2 : k <= scans[q] => HasRead(q, k, Pages)

FreshInv == \A q \in Query : QueryInv(q)

AcknowledgedInv == \A r \in Request : reply[r] = "stored" => r \in recorded

IInv == TypeOK /\ AcknowledgedInv /\ FreshInv

(***************************************************************************)
(* And the one behind ConnectionsAreHeldByReaders: a task that has drawn   *)
(* a connection knows it, and tasks only exist while the process serves.   *)
(***************************************************************************)
DrawnInv == \A q \in Query : task[q] \in {"locking", "reading"} => index[q] # Null

IdleInv == service # "serving" => \A q \in Query : task[q] = "none"

PoolInv == TypeOK /\ ConnectionsAreHeldByReaders /\ DrawnInv /\ IdleInv

(***************************************************************************)
(* And the one behind DrawsAreBalanced.  A query draws once,               *)
(***************************************************************************)
OnceInv ==
    \A q \in Query :
        /\ caller[q] = "away" => task[q] = "none"
        /\ task[q] = "queued" => index[q] = Null
        /\ task[q] = "none" /\ caller[q] \in {"away", "waiting"} => index[q] = Null
        /\ service # "serving" => task[q] = "none" /\ index[q] = Null

(***************************************************************************)
(* and next_connection, which starts at 0 with the pool, is as far in its  *)
(* round as the draws are: the connections before it have one more draw    *)
(* than those from it on, of which the last is one, also while the counter *)
(* wraps and queries leave, fail or panic (engine.rs:81-84).               *)
(***************************************************************************)
BalanceInv ==
    /\ OnceInv
    /\ service # "serving" => next = 0
    /\ \A k \in Connection :
           /\ IsFiniteSet(Drawn(k))
           /\ Cardinality(Drawn(k)) =
                  Cardinality(Drawn(PoolSize - 1)) + IF k < next % PoolSize THEN 1 ELSE 0

=============================================================================

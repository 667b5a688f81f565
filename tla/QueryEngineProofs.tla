------------------------- MODULE QueryEngineProofs -------------------------
(***************************************************************************)
(* Proofs about QueryEngine, for every number of queries, connections,     *)
(* threads, pages and events.                                              *)
(***************************************************************************)
EXTENDS QueryEngine, FiniteSetTheorems, TLAPS

(***************************************************************************)
(* Steps of the log                                                        *)
(***************************************************************************)

LEMMA LogKept ==
    ASSUME LogTypeOK, AcknowledgedInv, LogNext
    PROVE  LogTypeOK' /\ AcknowledgedInv' /\ recorded \subseteq recorded'
  <1>1. PICK r \in Request : Record(r) \/ Acknowledge(r) \/ Reject(r) \/ Fail(r)
    BY DEF LogNext
  <1>2. CASE Record(r)
    BY <1>2 DEF Record, LogTypeOK, AcknowledgedInv
  <1>3. CASE Acknowledge(r)
    BY <1>3 DEF Acknowledge, Answer, LogTypeOK, AcknowledgedInv
  <1>4. CASE Reject(r) \/ Fail(r)
    BY <1>4 DEF Reject, Fail, Answer, LogTypeOK, AcknowledgedInv
  <1> QED
    BY <1>1, <1>2, <1>3, <1>4

-----------------------------------------------------------------------------
(***************************************************************************)
(* Type correctness                                                        *)
(***************************************************************************)

LEMMA NothingType == Nothing \in [1 .. 2 -> SUBSET Request]
  BY DEF Nothing

LEMMA ConnectionType == ASSUME NEW n \in Nat PROVE n % PoolSize \in Connection
  BY PoolAssumption DEF Connection

LEMMA WordType == ASSUME NEW n \in Nat PROVE n % WordSize \in 0 .. WordSize - 1
  BY PoolAssumption

LEMMA EmptyPoolType ==
    ASSUME EmptyPool
    PROVE  /\ next' \in 0 .. WordSize - 1
           /\ holder' \in [Connection -> Query \cup {Null}]
           /\ poisoned' \in [Connection -> BOOLEAN]
  BY PoolAssumption DEF EmptyPool

LEMMA TypeInit == Init => TypeOK
  <1> SUFFICES ASSUME Init PROVE TypeOK
    OBVIOUS
  <1>1. LogTypeOK
    BY DEF Init, LogInit, LogTypeOK
  <1>2. 0 \in 0 .. MaxRestarts /\ 0 \in 0 .. Pages /\ 0 \in 0 .. WordSize - 1
    BY QueriesAssumption, PagesAssumption, PoolAssumption
  <1> QED
    BY <1>1, <1>2, NothingType DEF Init, TypeOK

LEMMA ConcludeType ==
    ASSUME TypeOK, NEW q \in Query, NEW result \in {"rows", "error"}, Conclude(q, result),
           holder' \in [Connection -> Query \cup {Null}],
           poisoned' \in [Connection -> BOOLEAN]
    PROVE  TypeOK'
  <1>1. /\ task' \in [Query -> {"none", "queued", "locking", "reading"}]
        /\ scan' \in [Query -> 1 .. 2]
    BY DEF Conclude, TypeOK
  <1>2. /\ caller' \in [Query -> {"away", "waiting", "answered", "reset", "left"}]
        /\ outcome' \in [Query -> {"none", "rows", "error"}]
    BY DEF Conclude, TypeOK
  <1>3. page' \in [Query -> 0 .. Pages]
    BY PagesAssumption DEF Conclude, TypeOK
  <1>4. seen' \in [Query -> [1 .. 2 -> SUBSET Request]]
    BY NothingType DEF Conclude, TypeOK
  <1>5. UNCHANGED <<recorded, reply, service, restarts, known, shown, scans, index, next>>
    BY DEF Conclude, logVars, process
  <1> QED
    BY <1>1, <1>2, <1>3, <1>4, <1>5 DEF TypeOK, LogTypeOK

LEMMA ShownType == TypeOK => Shown \in SUBSET Request
  <1> SUFFICES ASSUME TypeOK, NEW q \in Query PROVE AnswerOf(q) \subseteq Request
    BY DEF Shown
  <1>1. scans[q] \in 1 .. 2 /\ \A k \in 1 .. 2 : seen[q][k] \subseteq Request
    BY DEF TypeOK
  <1>2. \A k \in 1 .. scans[q] : k \in 1 .. 2
    BY <1>1
  <1> QED
    BY <1>1, <1>2 DEF AnswerOf

LEMMA TypeNext == TypeOK /\ AcknowledgedInv /\ [Next]_vars => TypeOK'
  <1> SUFFICES ASSUME TypeOK, AcknowledgedInv, [Next]_vars PROVE TypeOK'
    OBVIOUS
  <1>1. CASE Ingest
    <2>1. LogTypeOK'
      BY <1>1, LogKept DEF Ingest, TypeOK
    <2> QED
      BY <1>1, <2>1 DEF Ingest, TypeOK, engineVars, process, asking, running, reading, pool
  <1>2. CASE Bind \/ Restart
    <2>1. service' \in {"starting", "bound", "serving", "exited"}
      BY <1>2 DEF Bind, Restart
    <2>2. restarts' \in 0 .. MaxRestarts
      BY <1>2, QueriesAssumption DEF Bind, Restart, TypeOK
    <2> QED
      BY <1>2, <2>1, <2>2 DEF Bind, Restart, TypeOK, LogTypeOK, logVars, asking, running,
                              reading, pool
  <1>3. CASE Serve
    BY <1>3, EmptyPoolType DEF Serve, TypeOK, LogTypeOK, logVars, asking, running, reading
  <1>4. CASE Exit
    <2>1. /\ caller' \in [Query -> {"away", "waiting", "answered", "reset", "left"}]
          /\ task' \in [Query -> {"none", "queued", "locking", "reading"}]
          /\ index' \in [Query -> Connection \cup {Null}]
          /\ scan' \in [Query -> 1 .. 2]
          /\ service' \in {"starting", "bound", "serving", "exited"}
      BY <1>4 DEF Exit, TypeOK
    <2>2. page' \in [Query -> 0 .. Pages]
      BY <1>4, PagesAssumption DEF Exit
    <2>3. seen' \in [Query -> [1 .. 2 -> SUBSET Request]]
      BY <1>4, NothingType DEF Exit, TypeOK
    <2> QED
      BY <1>4, <2>1, <2>2, <2>3, EmptyPoolType DEF Exit, TypeOK, LogTypeOK, logVars
  <1>5. ASSUME NEW q \in Query, NEW n \in ScanCounts, Ask(q, n) PROVE TypeOK'
    <2>1. n \in 1 .. 2 /\ Acknowledged \subseteq Request
      BY QueriesAssumption DEF Acknowledged
    <2>2. /\ caller' \in [Query -> {"away", "waiting", "answered", "reset", "left"}]
          /\ known' \in [Query -> SUBSET Request]
          /\ scans' \in [Query -> 1 .. 2]
      BY <1>5, <2>1 DEF Ask, TypeOK
    <2>3. shown' \in [Query -> SUBSET Request]
      BY <1>5, ShownType DEF Ask, TypeOK
    <2> QED
      BY <1>5, <2>2, <2>3 DEF Ask, TypeOK, LogTypeOK, logVars, process, running, reading, pool
  <1>6. ASSUME NEW q \in Query, Leave(q) \/ Spawn(q) PROVE TypeOK'
    <2>1. /\ caller' \in [Query -> {"away", "waiting", "answered", "reset", "left"}]
          /\ task' \in [Query -> {"none", "queued", "locking", "reading"}]
      BY <1>6 DEF Leave, Spawn, TypeOK, asking, running
    <2> QED
      BY <1>6, <2>1 DEF Leave, Spawn, TypeOK, LogTypeOK, logVars, process, asking, running,
                        reading, pool
  <1>7. ASSUME NEW q \in Query, DrawConnection(q) PROVE TypeOK'
    <2>1. next \in Nat /\ next + 1 \in Nat
      BY PoolAssumption DEF TypeOK
    <2>2. /\ index' \in [Query -> Connection \cup {Null}]
          /\ task' \in [Query -> {"none", "queued", "locking", "reading"}]
      BY <1>7, <2>1, ConnectionType DEF DrawConnection, TypeOK
    <2>3. next' \in 0 .. WordSize - 1
      BY <1>7, <2>1, WordType DEF DrawConnection
    <2> QED
      BY <1>7, <2>2, <2>3 DEF DrawConnection, TypeOK, LogTypeOK, logVars, process, asking,
                              reading
  <1>8. ASSUME NEW q \in Query, Lock(q) PROVE TypeOK'
    <2>1. /\ holder' \in [Connection -> Query \cup {Null}]
          /\ task' \in [Query -> {"none", "queued", "locking", "reading"}]
      BY <1>8 DEF Lock, TypeOK
    <2> QED
      BY <1>8, <2>1 DEF Lock, TypeOK, LogTypeOK, logVars, process, asking, reading
  <1>9. ASSUME NEW q \in Query, LockPoisoned(q) \/ Rows(q) \/ Fails(q) \/ Panics(q)
        PROVE  TypeOK'
    <2>1. PICK result \in {"rows", "error"} : Conclude(q, result)
      BY <1>9 DEF LockPoisoned, Rows, Fails, Panics
    <2>2. /\ holder' \in [Connection -> Query \cup {Null}]
          /\ poisoned' \in [Connection -> BOOLEAN]
      BY <1>9 DEF LockPoisoned, Rows, Fails, Panics, Unlock, TypeOK
    <2> QED
      BY <2>1, <2>2, ConcludeType
  <1>10. ASSUME NEW q \in Query, ReadPage(q) PROVE TypeOK'
    <2>1. /\ page[q] \in 0 .. Pages /\ page[q] < Pages /\ Pages \in Nat
          /\ page' = [page EXCEPT ![q] = page[q] + 1]
      BY <1>10, PagesAssumption DEF ReadPage, TypeOK
    <2>2. page' \in [Query -> 0 .. Pages]
      BY <2>1 DEF TypeOK
    <2>3. seen' \in [Query -> [1 .. 2 -> SUBSET Request]]
      <3>1. OnPage(page[q] + 1) \subseteq Request
        BY DEF OnPage, TypeOK, LogTypeOK
      <3>2. /\ scan[q] \in 1 .. 2 /\ seen[q] \in [1 .. 2 -> SUBSET Request]
            /\ seen \in [Query -> [1 .. 2 -> SUBSET Request]]
        BY DEF TypeOK
      <3>3. [seen[q] EXCEPT ![scan[q]] = @ \cup OnPage(page[q] + 1)]
              \in [1 .. 2 -> SUBSET Request]
        BY <3>1, <3>2
      <3>4. seen' = [seen EXCEPT ![q] = [seen[q] EXCEPT ![scan[q]] =
                                            @ \cup OnPage(page[q] + 1)]]
        BY <1>10 DEF ReadPage
      <3> QED
        BY <3>2, <3>3, <3>4
    <2> QED
      BY <1>10, <2>2, <2>3 DEF ReadPage, TypeOK, LogTypeOK, logVars, process, asking,
                               running, pool
  <1>11. ASSUME NEW q \in Query, NextScan(q) PROVE TypeOK'
    <2>1. scan[q] \in 1 .. 2 /\ scans[q] \in 1 .. 2 /\ scan[q] < scans[q]
      BY <1>11 DEF NextScan, TypeOK
    <2>2. scan[q] + 1 \in 1 .. 2 /\ 0 \in 0 .. Pages
      BY <2>1, PagesAssumption
    <2>3. scan' \in [Query -> 1 .. 2] /\ page' \in [Query -> 0 .. Pages]
      BY <1>11, <2>2 DEF NextScan, TypeOK
    <2> QED
      BY <1>11, <2>3 DEF NextScan, TypeOK, LogTypeOK, logVars, process, asking, running, pool
  <1>12. CASE UNCHANGED vars
    BY <1>12 DEF vars, TypeOK, LogTypeOK, logVars, engineVars, process, asking, running,
                 reading, pool
  <1> QED
    BY <1>1, <1>2, <1>3, <1>4, <1>5, <1>6, <1>7, <1>8, <1>9, <1>10, <1>11, <1>12
       DEF Next, Work


-----------------------------------------------------------------------------
(***************************************************************************)
(* What the queries have read                                              *)
(***************************************************************************)

(* A step that leaves q alone, while events may arrive.                    *)
LeavesAlone(q) ==
    /\ caller'[q] = caller[q] /\ outcome'[q] = outcome[q] /\ known'[q] = known[q]
    /\ shown'[q] = shown[q] /\ task'[q] = task[q] /\ scans'[q] = scans[q] /\ scan'[q] = scan[q]
    /\ page'[q] = page[q] /\ seen'[q] = seen[q]
    /\ recorded \subseteq recorded'

LEMMA Untouched ==
    ASSUME NEW q \in Query, QueryInv(q), LeavesAlone(q)
    PROVE  QueryInv(q)'
  BY DEF QueryInv, LeavesAlone, HasRead, Reading

LEMMA NoPageYet ==
    ASSUME TypeOK, NEW q \in Query, NEW k \in 1 .. 2
    PROVE  HasRead(q, k, 0)
  <1>1. \A r \in known[q] \cup shown[q] : PageOf[r] >= 1
    BY PagesAssumption DEF TypeOK
  <1>2. \A r \in known[q] \cup shown[q] : ~(PageOf[r] <= 0)
    BY <1>1, PagesAssumption DEF TypeOK
  <1> QED
    BY <1>2 DEF HasRead

LEMMA AllPages ==
    ASSUME TypeOK, NEW q \in Query, NEW k \in 1 .. 2, HasRead(q, k, Pages)
    PROVE  known[q] \cup shown[q] \subseteq seen[q][k]
  <1>1. \A r \in known[q] \cup shown[q] : PageOf[r] <= Pages
    BY PagesAssumption DEF TypeOK
  <1> QED
    BY <1>1 DEF HasRead

(* The end of a task: rows are only returned by a query that has read all. *)
LEMMA ConcludeFresh ==
    ASSUME TypeOK, TypeOK', NEW q \in Query, NEW result \in {"rows", "error"},
           QueryInv(q), task[q] # "none", Conclude(q, result),
           result = "rows" => \A k \in 1 .. 2 : k <= scans[q] => HasRead(q, k, Pages)
    PROVE  QueryInv(q)'
  <1>1. /\ task'[q] = "none" /\ scan'[q] = 1 /\ page'[q] = 0
        /\ known'[q] = known[q] /\ shown'[q] = shown[q] /\ scans'[q] = scans[q] /\ recorded' = recorded
    BY DEF Conclude, TypeOK, logVars
  <1>2. caller[q] # "away" /\ caller[q] # "answered" /\ outcome[q] = "none"
    BY DEF QueryInv
  <1>3. CASE caller[q] = "waiting"
    <2>1. caller'[q] = "answered" /\ outcome'[q] = result
      BY <1>3 DEF Conclude, TypeOK
    <2>2. seen'[q] = IF result = "rows" THEN seen[q] ELSE Nothing
      BY <1>3 DEF Conclude, TypeOK
    <2>3. \A k \in 1 .. 2 : seen'[q][k] \subseteq recorded'
      BY <1>1, <2>2 DEF QueryInv, Nothing
    <2>4. result = "rows" => \A k \in 1 .. 2 : k <= scans[q] => HasRead(q, k, Pages)'
      BY <1>1, <2>2 DEF HasRead
    <2> QED
      BY <1>1, <2>1, <2>3, <2>4 DEF QueryInv, Reading
  <1>4. CASE caller[q] # "waiting"
    <2>1. caller'[q] = caller[q] /\ outcome'[q] = "none" /\ seen'[q] = Nothing
      BY <1>2, <1>4 DEF Conclude, TypeOK
    <2>2. \A k \in 1 .. 2 : seen'[q][k] \subseteq recorded'
      BY <2>1 DEF Nothing
    <2> QED
      BY <1>1, <1>2, <2>1, <2>2 DEF QueryInv, Reading
  <1> QED
    BY <1>3, <1>4

LEMMA ConcludeOthers ==
    ASSUME TypeOK, NEW q \in Query, NEW result \in {"rows", "error"}, Conclude(q, result),
           NEW p \in Query \ {q}
    PROVE  LeavesAlone(p)
  BY DEF Conclude, LeavesAlone, TypeOK, logVars


LEMMA FreshInit == Init => AcknowledgedInv /\ FreshInv
  <1> SUFFICES ASSUME Init PROVE AcknowledgedInv /\ FreshInv
    OBVIOUS
  <1>1. AcknowledgedInv
    BY DEF Init, LogInit, AcknowledgedInv
  <1>2. ASSUME NEW q \in Query PROVE QueryInv(q)
    BY DEF Init, QueryInv, Reading, Nothing
  <1> QED
    BY <1>1, <1>2 DEF FreshInv

LEMMA AcknowledgedNext == TypeOK /\ AcknowledgedInv /\ [Next]_vars => AcknowledgedInv'
  <1> SUFFICES ASSUME TypeOK, AcknowledgedInv, [Next]_vars PROVE AcknowledgedInv'
    OBVIOUS
  <1>1. CASE Ingest
    BY <1>1, LogKept DEF Ingest, TypeOK
  <1>2. CASE UNCHANGED logVars
    BY <1>2 DEF AcknowledgedInv, logVars
  <1>3. Ingest \/ UNCHANGED logVars
    BY DEF Next, Work, vars, Bind, Serve, Exit, Restart, Ask, Leave, Spawn, DrawConnection,
           Lock, LockPoisoned, ReadPage, NextScan, Rows, Fails, Panics, Conclude
  <1> QED
    BY <1>1, <1>2, <1>3

(* Steps of the process and of the log.                                    *)
LEMMA ServiceFresh ==
    ASSUME TypeOK, AcknowledgedInv, NEW q \in Query, QueryInv(q),
           Ingest \/ Bind \/ Serve \/ Exit \/ Restart \/ UNCHANGED vars
    PROVE  QueryInv(q)'
  <1>1. CASE Ingest
    BY <1>1, LogKept, Untouched
       DEF Ingest, TypeOK, LeavesAlone, engineVars, asking, running, reading
  <1>2. CASE Bind \/ Serve \/ Restart \/ UNCHANGED vars
    BY <1>2, Untouched DEF Bind, Serve, Restart, vars, LeavesAlone, logVars, engineVars,
                           asking, running, reading
  <1>3. CASE Exit
    <2>1. /\ task'[q] = "none" /\ scan'[q] = 1 /\ page'[q] = 0
          /\ outcome'[q] = outcome[q] /\ known'[q] = known[q] /\ shown'[q] = shown[q] /\ scans'[q] = scans[q]
          /\ recorded' = recorded
          /\ caller'[q] = IF caller[q] = "waiting" THEN "reset" ELSE caller[q]
          /\ seen'[q] = IF outcome[q] = "rows" THEN seen[q] ELSE Nothing
      BY <1>3 DEF Exit, logVars
    <2>2. \A k \in 1 .. 2 : seen'[q][k] \subseteq recorded'
      BY <2>1 DEF QueryInv, Nothing
    <2> QED
      BY <2>1, <2>2 DEF QueryInv, Reading, HasRead
  <1> QED
    BY <1>1, <1>2, <1>3

(* Nothing is shown that is not there.                                     *)
LEMMA ShownIsRecorded == TypeOK /\ FreshInv => Shown \subseteq recorded
  <1> SUFFICES ASSUME TypeOK, FreshInv, NEW q \in Query PROVE AnswerOf(q) \subseteq recorded
    BY DEF Shown
  <1>1. scans[q] \in 1 .. 2 /\ \A k \in 1 .. 2 : seen[q][k] \subseteq recorded
    BY DEF TypeOK, FreshInv, QueryInv
  <1>2. \A k \in 1 .. scans[q] : k \in 1 .. 2
    BY <1>1
  <1> QED
    BY <1>1, <1>2 DEF AnswerOf

(* Steps of a query that read nothing.                                     *)
LEMMA WaitingFresh ==
    ASSUME TypeOK, AcknowledgedInv, NEW q \in Query, QueryInv(q),
           Shown \subseteq recorded,
           \/ \E n \in ScanCounts : Ask(q, n)
           \/ Leave(q) \/ Spawn(q) \/ DrawConnection(q) \/ Lock(q)
    PROVE  QueryInv(q)'
  <1>1. CASE \E n \in ScanCounts : Ask(q, n)
    <2>1. /\ caller[q] = "away" /\ caller'[q] = "waiting" /\ task'[q] = task[q]
          /\ known'[q] = Acknowledged /\ shown'[q] = Shown
          /\ outcome'[q] = outcome[q] /\ recorded' = recorded
          /\ scan'[q] = scan[q] /\ page'[q] = page[q] /\ seen'[q] = seen[q]
      BY <1>1 DEF Ask, TypeOK, logVars, running, reading
    <2>2. Acknowledged \subseteq recorded
      BY DEF Acknowledged, AcknowledgedInv
    <2> QED
      BY <2>1, <2>2 DEF QueryInv, Reading
  <1>2. CASE Leave(q)
    <2>1. /\ caller[q] = "waiting" /\ caller'[q] = "left" /\ task'[q] = task[q]
          /\ known'[q] = known[q] /\ shown'[q] = shown[q] /\ outcome'[q] = outcome[q]
          /\ recorded' = recorded
          /\ scan'[q] = scan[q] /\ page'[q] = page[q] /\ seen'[q] = seen[q]
          /\ scans'[q] = scans[q]
      BY <1>2 DEF Leave, TypeOK, logVars, running, reading
    <2> QED
      BY <2>1 DEF QueryInv, Reading, HasRead
  <1>3. CASE Spawn(q) \/ DrawConnection(q)
    <2>1. /\ caller[q] # "away" /\ caller[q] # "answered" /\ ~Reading(q)
          /\ task'[q] \in {"queued", "locking"}
      BY <1>3 DEF Spawn, DrawConnection, QueryInv, TypeOK, Reading
    <2>2. /\ known'[q] = known[q] /\ shown'[q] = shown[q] /\ outcome'[q] = outcome[q]
          /\ recorded' = recorded
          /\ scan'[q] = scan[q] /\ page'[q] = page[q] /\ seen'[q] = seen[q]
          /\ scans'[q] = scans[q] /\ caller'[q] = caller[q]
      BY <1>3 DEF Spawn, DrawConnection, logVars, asking, reading
    <2> QED
      BY <2>1, <2>2 DEF QueryInv, Reading, HasRead
  <1>4. CASE Lock(q)
    <2>1. /\ caller[q] # "away" /\ caller[q] # "answered"
          /\ scan[q] = 1 /\ page[q] = 0 /\ task'[q] = "reading"
      BY <1>4 DEF Lock, QueryInv, TypeOK, Reading
    <2>2. /\ known'[q] = known[q] /\ shown'[q] = shown[q] /\ outcome'[q] = outcome[q]
          /\ recorded' = recorded
          /\ scan'[q] = scan[q] /\ page'[q] = page[q] /\ seen'[q] = seen[q]
          /\ scans'[q] = scans[q] /\ caller'[q] = caller[q]
      BY <1>4 DEF Lock, logVars, asking, reading
    <2>3. HasRead(q, 1, 0) /\ scans[q] \in 1 .. 2
      BY NoPageYet DEF TypeOK
    <2>4. HasRead(q, scan[q], page[q])'
      BY <2>1, <2>2, <2>3 DEF HasRead
    <2>5. \A k \in 1 .. 2 : ~(k < scan'[q])
      BY <2>1, <2>2
    <2>6. scan'[q] <= scans'[q]
      BY <2>1, <2>2, <2>3
    <2> QED
      BY <2>1, <2>2, <2>4, <2>5, <2>6 DEF QueryInv, Reading
  <1> QED
    BY <1>1, <1>2, <1>3, <1>4

LEMMA ReadPageFresh ==
    ASSUME TypeOK, NEW q \in Query, QueryInv(q), ReadPage(q)
    PROVE  QueryInv(q)'
  <1>1. /\ Reading(q) /\ caller[q] # "away" /\ caller[q] # "answered" /\ outcome[q] = "none"
        /\ scan[q] \in 1 .. 2 /\ page[q] \in Nat
    BY DEF ReadPage, QueryInv, Reading, TypeOK
  <1>2. /\ task'[q] = "reading" /\ caller'[q] = caller[q] /\ outcome'[q] = "none"
        /\ known'[q] = known[q] /\ shown'[q] = shown[q] /\ recorded' = recorded /\ scans'[q] = scans[q]
        /\ scan'[q] = scan[q] /\ page'[q] = page[q] + 1
    BY <1>1 DEF ReadPage, Reading, logVars, asking, running, TypeOK
  <1>3. /\ seen'[q] = [seen[q] EXCEPT ![scan[q]] = @ \cup OnPage(page[q] + 1)]
        /\ seen[q] \in [1 .. 2 -> SUBSET Request]
    BY DEF ReadPage, TypeOK
  <1>4. OnPage(page[q] + 1) \subseteq recorded
    BY DEF OnPage
  <1>5. \A k \in 1 .. 2 : seen[q][k] \subseteq seen'[q][k] /\ seen'[q][k] \subseteq recorded
    BY <1>1, <1>3, <1>4 DEF QueryInv
  <1>6. \A k \in 1 .. 2 : k < scan[q] => HasRead(q, k, Pages)'
    BY <1>1, <1>2, <1>5 DEF QueryInv, HasRead
  <1>7. ASSUME NEW r \in known[q] \cup shown[q], PageOf[r] <= page[q] + 1
        PROVE  r \in seen'[q][scan[q]]
    <2>1. r \in recorded /\ PageOf[r] \in Nat
      BY PagesAssumption DEF QueryInv, TypeOK
    <2>2. CASE PageOf[r] <= page[q]
      BY <1>1, <1>5, <2>2 DEF QueryInv, HasRead
    <2>3. CASE PageOf[r] = page[q] + 1
      BY <1>1, <1>3, <2>1, <2>3 DEF OnPage
    <2> QED
      BY <1>1, <1>7, <2>1, <2>2, <2>3
  <1>8. HasRead(q, scan[q], page[q])'
    BY <1>2, <1>7 DEF HasRead
  <1>9. scan'[q] <= scans'[q] /\ known'[q] \cup shown'[q] \subseteq recorded'
    BY <1>1, <1>2 DEF QueryInv
  <1> QED
    BY <1>1, <1>2, <1>5, <1>6, <1>8, <1>9 DEF QueryInv, Reading

LEMMA NextScanFresh ==
    ASSUME TypeOK, NEW q \in Query, QueryInv(q), NextScan(q)
    PROVE  QueryInv(q)'
  <1>1. /\ Reading(q) /\ caller[q] # "away" /\ caller[q] # "answered" /\ outcome[q] = "none"
        /\ scan[q] \in 1 .. 2 /\ scans[q] \in 1 .. 2 /\ scan[q] < scans[q] /\ page[q] = Pages
    BY DEF NextScan, Matched, QueryInv, Reading, TypeOK
  <1>2. /\ task'[q] = "reading" /\ caller'[q] = caller[q] /\ outcome'[q] = "none"
        /\ known'[q] = known[q] /\ shown'[q] = shown[q] /\ recorded' = recorded /\ scans'[q] = scans[q]
        /\ scan'[q] = scan[q] + 1 /\ page'[q] = 0 /\ seen'[q] = seen[q]
    BY <1>1 DEF NextScan, Reading, logVars, asking, running, TypeOK
  <1>3. HasRead(q, scan[q] + 1, 0)
    BY <1>1, NoPageYet
  <1>4. \A k \in 1 .. 2 : k < scan[q] + 1 => HasRead(q, k, Pages)
    <2>1. \A k \in 1 .. 2 : k < scan[q] + 1 => k < scan[q] \/ k = scan[q]
      BY <1>1
    <2>2. HasRead(q, scan[q], Pages)
      BY <1>1 DEF QueryInv
    <2> QED
      BY <1>1, <2>1, <2>2 DEF QueryInv
  <1>5. HasRead(q, scan[q], page[q])' /\ \A k \in 1 .. 2 : k < scan'[q] => HasRead(q, k, Pages)'
    BY <1>2, <1>3, <1>4 DEF HasRead
  <1>6. scan'[q] <= scans'[q]
    BY <1>1, <1>2
  <1> QED
    BY <1>1, <1>2, <1>5, <1>6 DEF QueryInv, Reading

(* The end of a query.                                                     *)
LEMMA DoneFresh ==
    ASSUME TypeOK, TypeOK', NEW q \in Query, QueryInv(q),
           LockPoisoned(q) \/ Rows(q) \/ Fails(q) \/ Panics(q)
    PROVE  QueryInv(q)'
  <1>1. CASE LockPoisoned(q) \/ Fails(q) \/ Panics(q)
    <2>1. Conclude(q, "error") /\ task[q] # "none"
      BY <1>1 DEF LockPoisoned, Fails, Panics, Reading
    <2> QED
      BY <2>1, ConcludeFresh
  <1>2. CASE Rows(q)
    <2>1. /\ Reading(q) /\ Conclude(q, "rows") /\ task[q] # "none"
          /\ page[q] = Pages /\ scan[q] = scans[q]
          /\ scan[q] \in 1 .. 2 /\ scans[q] \in 1 .. 2
      BY <1>2 DEF Rows, Matched, Reading, TypeOK
    <2>2. \A k \in 1 .. 2 : k <= scans[q] => k < scan[q] \/ k = scan[q]
      BY <2>1
    <2>3. \A k \in 1 .. 2 : k <= scans[q] => HasRead(q, k, Pages)
      BY <2>1, <2>2 DEF QueryInv
    <2> QED
      BY <2>1, <2>3, ConcludeFresh
  <1> QED
    BY <1>1, <1>2

(* A step of one query leaves the others alone.                            *)
LEMMA OthersUntouched ==
    ASSUME TypeOK, NEW q \in Query, NEW p \in Query \ {q},
           Leave(q) \/ Work(q) \/ \E n \in ScanCounts : Ask(q, n)
    PROVE  LeavesAlone(p)
  <1>1. CASE LockPoisoned(q) \/ Rows(q) \/ Fails(q) \/ Panics(q)
    <2>1. PICK result \in {"rows", "error"} : Conclude(q, result)
      BY <1>1 DEF LockPoisoned, Rows, Fails, Panics
    <2> QED
      BY <2>1, ConcludeOthers
  <1>2. CASE Leave(q) \/ Spawn(q) \/ DrawConnection(q) \/ Lock(q)
    BY <1>2 DEF Leave, Spawn, DrawConnection, Lock, LeavesAlone, TypeOK, logVars, asking,
                running, reading
  <1>3. CASE ReadPage(q) \/ NextScan(q)
    BY <1>3 DEF ReadPage, NextScan, LeavesAlone, TypeOK, logVars, asking, running
  <1>4. CASE \E n \in ScanCounts : Ask(q, n)
    BY <1>4 DEF Ask, LeavesAlone, TypeOK, logVars, running, reading
  <1> QED
    BY <1>1, <1>2, <1>3, <1>4 DEF Work

LEMMA FreshNext == IInv /\ [Next]_vars => FreshInv'
  <1> SUFFICES ASSUME IInv, [Next]_vars, NEW p \in Query PROVE QueryInv(p)'
    BY DEF FreshInv
  <1>1. TypeOK /\ AcknowledgedInv /\ QueryInv(p)
    BY DEF IInv, FreshInv
  <1>2. TypeOK' /\ Shown \subseteq recorded
    BY <1>1, TypeNext, ShownIsRecorded DEF IInv
  <1>3. CASE Ingest \/ Bind \/ Serve \/ Exit \/ Restart \/ UNCHANGED vars
    BY <1>1, <1>3, ServiceFresh
  <1>4. ASSUME NEW q \in Query, Leave(q) \/ Work(q) \/ \E n \in ScanCounts : Ask(q, n)
        PROVE  QueryInv(p)'
    <2>1. CASE p # q
      <3>1. LeavesAlone(p)
        BY <1>1, <1>4, <2>1, OthersUntouched
      <3> QED
        BY <1>1, <3>1, Untouched
    <2>2. CASE p = q
      BY <1>1, <1>2, <1>4, <2>2, WaitingFresh, ReadPageFresh, NextScanFresh, DoneFresh
         DEF Work
    <2> QED
      BY <2>1, <2>2
  <1> QED
    BY <1>3, <1>4 DEF Next

-----------------------------------------------------------------------------
(***************************************************************************)
(* Theorems                                                                *)
(***************************************************************************)

(* The inductive invariant: types, acknowledged events are recorded, and   *)
(* every query has read what its scan and page say it has.                 *)
THEOREM Invariant == Spec => []IInv
  <1>1. Init => IInv
    BY TypeInit, FreshInit DEF IInv
  <1>2. IInv /\ [Next]_vars => IInv'
    BY TypeNext, AcknowledgedNext, FreshNext DEF IInv
  <1> QED
    BY <1>1, <1>2, PTL DEF Spec

(* Every variable of the query side keeps to its type (engine.rs:11-20).   *)
THEOREM TypeCorrect == Spec => []TypeOK
  <1>1. IInv => TypeOK
    BY DEF IInv
  <1> QED
    BY <1>1, Invariant, PTL

(* Read your writes: a metric counts every event acknowledged before it    *)
(* was asked for, whatever happens meanwhile (engine.rs:75-93).            *)
THEOREM Fresh == Spec => []RowsAreFresh
  <1>1. IInv => RowsAreFresh
    <2> SUFFICES ASSUME IInv, NEW q \in Query, outcome[q] = "rows",
                        NEW k \in 1 .. scans[q]
                 PROVE  known[q] \subseteq seen[q][k] /\ seen[q][k] \subseteq recorded
      BY DEF RowsAreFresh
    <2>1. TypeOK /\ QueryInv(q)
      BY DEF IInv, FreshInv
    <2>2. k \in 1 .. 2 /\ k <= scans[q]
      BY <2>1 DEF TypeOK
    <2> QED
      BY <2>1, <2>2, AllPages DEF QueryInv
  <1> QED
    BY <1>1, Invariant, PTL

(* Metrics do not go back: what an answer has shown, acknowledged or not,  *)
(* every metric asked for later counts in each of its scans                *)
(* (connection.rs:91-96, engine.rs:75-93).                                 *)
THEOREM Monotonic == Spec => []MonotonicReads
  <1>1. IInv => MonotonicReads
    <2> SUFFICES ASSUME IInv, NEW q \in Query, outcome[q] = "rows",
                        NEW k \in 1 .. scans[q]
                 PROVE  shown[q] \subseteq seen[q][k]
      BY DEF MonotonicReads
    <2>1. TypeOK /\ QueryInv(q)
      BY DEF IInv, FreshInv
    <2>2. k \in 1 .. 2 /\ k <= scans[q]
      BY <2>1 DEF TypeOK
    <2> QED
      BY <2>1, <2>2, AllPages DEF QueryInv
  <1> QED
    BY <1>1, Invariant, PTL


-----------------------------------------------------------------------------
(***************************************************************************)
(* Who holds a connection                                                  *)
(***************************************************************************)

LEMMA PoolInit == Init => PoolInv
  <1> SUFFICES ASSUME Init PROVE PoolInv
    OBVIOUS
  <1>1. TypeOK
    BY TypeInit
  <1> QED
    BY <1>1 DEF Init, PoolInv, ConnectionsAreHeldByReaders, DrawnInv, IdleInv, Reading

(* The process stops or starts with no task left, so no lock is lost.      *)
LEMMA ProcessPool ==
    ASSUME PoolInv, Bind \/ Serve \/ Exit \/ Restart
    PROVE  ConnectionsAreHeldByReaders' /\ DrawnInv' /\ IdleInv'
  <1>1. CASE Bind \/ Restart
    BY <1>1 DEF Bind, Restart, PoolInv, ConnectionsAreHeldByReaders, DrawnInv, IdleInv,
                Reading, running, pool
  <1>2. CASE Serve
    <2>1. \A q \in Query : task'[q] = "none"
      BY <1>2 DEF Serve, PoolInv, IdleInv, running
    <2>2. \A k \in Connection : holder'[k] = Null
      BY <1>2 DEF Serve, EmptyPool
    <2> QED
      BY <2>1, <2>2 DEF ConnectionsAreHeldByReaders, DrawnInv, IdleInv, Reading
  <1>3. CASE Exit
    <2>1. \A q \in Query : task'[q] = "none"
      BY <1>3 DEF Exit
    <2>2. \A k \in Connection : holder'[k] = Null
      BY <1>3 DEF Exit, EmptyPool
    <2> QED
      BY <2>1, <2>2 DEF ConnectionsAreHeldByReaders, DrawnInv, IdleInv, Reading
  <1> QED
    BY <1>1, <1>2, <1>3

(* A step that keeps the locks and lets no reader in or out.               *)
LEMMA PoolKept ==
    ASSUME PoolInv, UNCHANGED <<service, holder>>,
           \A q \in Query : Reading(q)' = Reading(q) /\ (Reading(q) => index'[q] = index[q]),
           \A q \in Query : task'[q] = "locking" => index'[q] # Null,
           service = "serving" \/ \A q \in Query : task'[q] = "none"
    PROVE  ConnectionsAreHeldByReaders' /\ DrawnInv' /\ IdleInv'
  <1>1. ConnectionsAreHeldByReaders'
    <2>1. ASSUME NEW q \in Query, Reading(q)' PROVE index'[q] # Null /\ holder'[index'[q]] = q
      BY <2>1 DEF PoolInv, ConnectionsAreHeldByReaders
    <2>2. ASSUME NEW k \in Connection, holder'[k] # Null
          PROVE  Reading(holder[k])' /\ index'[holder'[k]] = k /\ holder'[k] = holder[k]
      <3>1. holder[k] \in Query
        BY <2>2 DEF PoolInv, TypeOK
      <3> QED
        BY <2>2, <3>1 DEF PoolInv, ConnectionsAreHeldByReaders
    <2>3. \A k \in Connection : holder'[k] # Null => Reading(holder[k])'
      BY <2>2
    <2> QED
      BY <2>1, <2>2, <2>3 DEF ConnectionsAreHeldByReaders, Reading
  <1>2. DrawnInv'
    BY DEF DrawnInv, PoolInv, Reading
  <1> QED
    BY <1>1, <1>2 DEF IdleInv

(* The lock is taken by a query that was not reading.                      *)
LEMMA LockPool ==
    ASSUME PoolInv, NEW q \in Query, Lock(q)
    PROVE  ConnectionsAreHeldByReaders' /\ DrawnInv' /\ IdleInv'
  <1>1. /\ task[q] = "locking" /\ index[q] \in Connection /\ index[q] # Null
        /\ holder[index[q]] = Null /\ ~Reading(q) /\ service = "serving"
    BY DEF Lock, PoolInv, DrawnInv, IdleInv, TypeOK, Reading
  <1>2. /\ index' = index /\ service' = service
        /\ task' = [task EXCEPT ![q] = "reading"]
        /\ holder' = [holder EXCEPT ![index[q]] = q]
        /\ holder \in [Connection -> Query \cup {Null}]
        /\ task \in [Query -> {"none", "queued", "locking", "reading"}]
    BY DEF Lock, PoolInv, TypeOK, process
  <1>3. ASSUME NEW p \in Query, task'[p] = "reading"
        PROVE  index[p] # Null /\ holder'[index[p]] = p
    <2>1. CASE p = q
      BY <1>1, <1>2, <2>1
    <2>2. CASE p # q
      <3>1. Reading(p)
        BY <1>2, <1>3, <2>2 DEF Reading
      <3>2. index[p] # Null /\ holder[index[p]] = p /\ index[p] \in Connection
        BY <3>1 DEF PoolInv, ConnectionsAreHeldByReaders, TypeOK
      <3>3. index[p] # index[q]
        BY <1>1, <3>2, QueriesAssumption
      <3> QED
        BY <1>1, <1>2, <3>2, <3>3
    <2> QED
      BY <2>1, <2>2
  <1>4. ASSUME NEW k \in Connection, holder'[k] # Null
        PROVE  task'[holder'[k]] = "reading" /\ index[holder'[k]] = k
    <2>1. CASE k = index[q]
      BY <1>1, <1>2, <2>1
    <2>2. CASE k # index[q]
      <3>1. holder'[k] = holder[k] /\ holder[k] \in Query
        BY <1>2, <1>4, <2>2
      <3>2. task[holder[k]] = "reading" /\ index[holder[k]] = k
        BY <1>4, <3>1 DEF PoolInv, ConnectionsAreHeldByReaders, Reading
      <3> QED
        BY <1>2, <3>1, <3>2
    <2> QED
      BY <2>1, <2>2
  <1>5. ConnectionsAreHeldByReaders'
    BY <1>2, <1>3, <1>4 DEF ConnectionsAreHeldByReaders, Reading
  <1>6. DrawnInv'
    BY <1>1, <1>2 DEF PoolInv, DrawnInv
  <1> QED
    BY <1>1, <1>2, <1>5, <1>6 DEF IdleInv

(* A reader that stops reading gives its connection back.                  *)
LEMMA UnlockPool ==
    ASSUME PoolInv, NEW q \in Query, NEW result \in {"rows", "error"},
           Reading(q), Conclude(q, result), Unlock(q)
    PROVE  ConnectionsAreHeldByReaders' /\ DrawnInv' /\ IdleInv'
  <1>1. /\ index[q] \in Connection /\ index[q] # Null /\ holder[index[q]] = q
        /\ service = "serving"
    BY DEF PoolInv, ConnectionsAreHeldByReaders, IdleInv, TypeOK, Reading
  <1>2. /\ index' = index /\ service' = service
        /\ task' = [task EXCEPT ![q] = "none"]
        /\ holder' = [holder EXCEPT ![index[q]] = Null]
        /\ holder \in [Connection -> Query \cup {Null}]
        /\ task \in [Query -> {"none", "queued", "locking", "reading"}]
    BY DEF Conclude, Unlock, PoolInv, TypeOK, process
  <1>3. ASSUME NEW p \in Query, task'[p] = "reading"
        PROVE  index[p] # Null /\ holder'[index[p]] = p
    <2>1. p # q /\ Reading(p)
      BY <1>2, <1>3 DEF Reading
    <2>2. index[p] # Null /\ holder[index[p]] = p /\ index[p] \in Connection
      BY <2>1 DEF PoolInv, ConnectionsAreHeldByReaders, TypeOK
    <2> QED
      BY <1>1, <1>2, <2>1, <2>2
  <1>4. ASSUME NEW k \in Connection, holder'[k] # Null
        PROVE  task'[holder'[k]] = "reading" /\ index[holder'[k]] = k
    <2>1. k # index[q] /\ holder'[k] = holder[k] /\ holder[k] \in Query
      BY <1>2, <1>4
    <2>2. task[holder[k]] = "reading" /\ index[holder[k]] = k
      BY <1>4, <2>1 DEF PoolInv, ConnectionsAreHeldByReaders, Reading
    <2>3. holder[k] # q
      BY <1>1, <2>1, <2>2
    <2> QED
      BY <1>2, <2>1, <2>2, <2>3
  <1>5. ConnectionsAreHeldByReaders'
    BY <1>2, <1>3, <1>4 DEF ConnectionsAreHeldByReaders, Reading
  <1>6. DrawnInv'
    BY <1>2 DEF PoolInv, DrawnInv
  <1> QED
    BY <1>1, <1>2, <1>5, <1>6 DEF IdleInv

LEMMA PoolNext == PoolInv /\ AcknowledgedInv /\ [Next]_vars => PoolInv'
  <1> SUFFICES ASSUME PoolInv, AcknowledgedInv, [Next]_vars
               PROVE  ConnectionsAreHeldByReaders' /\ DrawnInv' /\ IdleInv'
    BY TypeNext DEF PoolInv
  <1>1. CASE Ingest \/ UNCHANGED vars
    BY <1>1 DEF Ingest, vars, engineVars, process, running, pool, PoolInv, Reading,
                ConnectionsAreHeldByReaders, DrawnInv, IdleInv
  <1>2. CASE Bind \/ Serve \/ Exit \/ Restart
    BY <1>2, ProcessPool
  <1>3. ASSUME NEW q \in Query, NEW n \in ScanCounts, Ask(q, n)
        PROVE  ConnectionsAreHeldByReaders' /\ DrawnInv' /\ IdleInv'
    BY <1>3 DEF Ask, process, running, pool, PoolInv, Reading,
                ConnectionsAreHeldByReaders, DrawnInv, IdleInv
  <1>4. ASSUME NEW q \in Query, Leave(q)
        PROVE  ConnectionsAreHeldByReaders' /\ DrawnInv' /\ IdleInv'
    BY <1>4 DEF Leave, process, running, pool, PoolInv, Reading,
                ConnectionsAreHeldByReaders, DrawnInv, IdleInv
  <1>5. ASSUME NEW q \in Query, Spawn(q)
        PROVE  ConnectionsAreHeldByReaders' /\ DrawnInv' /\ IdleInv'
    <2>1. /\ service = "serving" /\ service' = service /\ holder' = holder /\ index' = index
          /\ task' = [task EXCEPT ![q] = "queued"] /\ task[q] = "none"
          /\ task \in [Query -> {"none", "queued", "locking", "reading"}]
      BY <1>5 DEF Spawn, process, pool, PoolInv, TypeOK
    <2>2. \A p \in Query : Reading(p)' = Reading(p) /\ (Reading(p) => index'[p] = index[p])
      BY <2>1 DEF Reading
    <2>3. \A p \in Query : task'[p] = "locking" => index'[p] # Null
      BY <2>1 DEF PoolInv, DrawnInv
    <2> QED
      BY <2>1, <2>2, <2>3, PoolKept
  <1>6. ASSUME NEW q \in Query, DrawConnection(q)
        PROVE  ConnectionsAreHeldByReaders' /\ DrawnInv' /\ IdleInv'
    <2>1. /\ service' = service /\ holder' = holder
          /\ index' = [index EXCEPT ![q] = next % PoolSize]
          /\ task' = [task EXCEPT ![q] = "locking"] /\ task[q] = "queued"
          /\ task \in [Query -> {"none", "queued", "locking", "reading"}]
          /\ index \in [Query -> Connection \cup {Null}]
      BY <1>6 DEF DrawConnection, process, PoolInv, TypeOK
    <2>2. service = "serving"
      BY <2>1 DEF PoolInv, IdleInv
    <2>3. next % PoolSize # Null
      <3>1. next \in Nat
        BY PoolAssumption DEF PoolInv, TypeOK
      <3> QED
        BY <3>1, ConnectionType, QueriesAssumption
    <2>4. \A p \in Query : Reading(p)' = Reading(p) /\ (Reading(p) => index'[p] = index[p])
      BY <2>1 DEF Reading
    <2>5. \A p \in Query : task'[p] = "locking" => index'[p] # Null
      BY <2>1, <2>3 DEF PoolInv, DrawnInv
    <2> QED
      BY <2>1, <2>2, <2>4, <2>5, PoolKept
  <1>7. ASSUME NEW q \in Query, Lock(q)
        PROVE  ConnectionsAreHeldByReaders' /\ DrawnInv' /\ IdleInv'
    BY <1>7, LockPool
  <1>8. ASSUME NEW q \in Query, LockPoisoned(q)
        PROVE  ConnectionsAreHeldByReaders' /\ DrawnInv' /\ IdleInv'
    <2>1. /\ service' = service /\ holder' = holder /\ index' = index
          /\ task' = [task EXCEPT ![q] = "none"] /\ task[q] = "locking"
          /\ task \in [Query -> {"none", "queued", "locking", "reading"}]
      BY <1>8 DEF LockPoisoned, Conclude, process, PoolInv, TypeOK
    <2>2. service = "serving"
      BY <2>1 DEF PoolInv, IdleInv
    <2>3. \A p \in Query : Reading(p)' = Reading(p) /\ (Reading(p) => index'[p] = index[p])
      BY <2>1 DEF Reading
    <2>4. \A p \in Query : task'[p] = "locking" => index'[p] # Null
      BY <2>1 DEF PoolInv, DrawnInv
    <2> QED
      BY <2>1, <2>2, <2>3, <2>4, PoolKept
  <1>9. ASSUME NEW q \in Query, Rows(q) \/ Fails(q) \/ Panics(q)
        PROVE  ConnectionsAreHeldByReaders' /\ DrawnInv' /\ IdleInv'
    <2>1. Reading(q) /\ Unlock(q) /\ \E result \in {"rows", "error"} : Conclude(q, result)
      BY <1>9 DEF Rows, Fails, Panics
    <2> QED
      BY <2>1, UnlockPool
  <1>10. ASSUME NEW q \in Query, ReadPage(q) \/ NextScan(q)
         PROVE  ConnectionsAreHeldByReaders' /\ DrawnInv' /\ IdleInv'
    BY <1>10 DEF ReadPage, NextScan, process, running, pool, PoolInv, Reading,
                 ConnectionsAreHeldByReaders, DrawnInv, IdleInv
  <1> QED
    BY <1>1, <1>2, <1>3, <1>4, <1>5, <1>6, <1>7, <1>8, <1>9, <1>10 DEF Next, Work

(* Tasks draw, lock and return connections only while the process serves,  *)
(* and a task that has drawn one knows which (engine.rs:75-93).            *)
THEOREM PoolInvariant == Spec => []PoolInv
  <1>1. Init => PoolInv
    BY PoolInit
  <1>2. PoolInv /\ AcknowledgedInv /\ [Next]_vars => PoolInv'
    BY PoolNext
  <1>3. IInv => AcknowledgedInv
    BY DEF IInv
  <1> QED
    BY <1>1, <1>2, <1>3, Invariant, PTL DEF Spec

(* A connection is used by one query at a time and returned by it: with    *)
(* the mutex of engine.rs:84-90, whoever leaves, fails or panics.          *)
THEOREM Exclusive == Spec => []ConnectionsAreHeldByReaders
  <1>1. PoolInv => ConnectionsAreHeldByReaders
    BY DEF PoolInv
  <1> QED
    BY <1>1, PoolInvariant, PTL

-----------------------------------------------------------------------------
(***************************************************************************)
(* Balance                                                                 *)
(***************************************************************************)

LEMMA DivisionIsUnique ==
    ASSUME NEW n \in Nat \ {0}, NEW a \in Nat, NEW d \in Nat, NEW r \in 0 .. n - 1, a = n * d + r
    PROVE  a % n = r
  OBVIOUS

LEMMA Division ==
    ASSUME NEW n \in Nat \ {0}, NEW a \in Nat
    PROVE  /\ a \div n \in Nat /\ a % n \in 0 .. n - 1
           /\ a = n * (a \div n) + (a % n)
  OBVIOUS

LEMMA Successor ==
    ASSUME NEW n \in Nat \ {0}, NEW a \in Nat
    PROVE  (a + 1) % n = IF a % n = n - 1 THEN 0 ELSE (a % n) + 1
  <1> DEFINE d == a \div n
             r == a % n
  <1>1. d \in Nat /\ r \in 0 .. n - 1 /\ a = n * d + r
    BY Division
  <1> HIDE DEF d, r
  <1>2. CASE r = n - 1
    <2>1. a + 1 = n * (d + 1) + 0
      BY <1>1, <1>2
    <2>2. (a + 1) % n = 0
      BY <1>1, <2>1, DivisionIsUnique
    <2> QED
      BY <1>2, <2>2 DEF r
  <1>3. CASE r # n - 1
    <2>1. a + 1 = n * d + (r + 1) /\ r + 1 \in 0 .. n - 1
      BY <1>1, <1>3
    <2>2. (a + 1) % n = r + 1
      BY <1>1, <2>1, DivisionIsUnique
    <2> QED
      BY <1>3, <2>2 DEF r
  <1> QED
    BY <1>2, <1>3

(* The counter goes on to the next connection, and after the last one to   *)
(* the first, also where it wraps.                                         *)
LEMMA CounterGoesRound ==
    ASSUME NEW a \in 0 .. WordSize - 1
    PROVE  ((a + 1) % WordSize) % PoolSize =
               IF a % PoolSize = PoolSize - 1 THEN 0 ELSE (a % PoolSize) + 1
  <1>1. a \in Nat /\ PoolSize \in Nat \ {0} /\ WordSize \in Nat \ {0} /\ WordSize % PoolSize = 0
    BY PoolAssumption
  <1>2. (a + 1) % PoolSize = IF a % PoolSize = PoolSize - 1 THEN 0 ELSE (a % PoolSize) + 1
    BY <1>1, Successor
  <1>3. CASE a + 1 < WordSize
    <2>1. (a + 1) % WordSize = a + 1
      <3>1. a + 1 = WordSize * 0 + (a + 1) /\ a + 1 \in 0 .. WordSize - 1
        BY <1>1, <1>3
      <3> QED
        BY <1>1, <3>1, DivisionIsUnique
    <2> QED
      BY <1>2, <2>1
  <1>4. CASE a + 1 = WordSize
    <2>1. WordSize % WordSize = 0
      <3>1. WordSize = WordSize * 1 + 0 /\ 0 \in 0 .. WordSize - 1
        BY <1>1
      <3> QED
        BY <1>1, <3>1, DivisionIsUnique
    <2>2. 0 % PoolSize = 0
      <3>1. 0 = PoolSize * 0 + 0 /\ 0 \in 0 .. PoolSize - 1
        BY <1>1
      <3> QED
        BY <1>1, <3>1, DivisionIsUnique
    <2>3. (a + 1) % PoolSize = 0
      BY <1>1, <1>4
    <2>4. a % PoolSize = PoolSize - 1
      <3>1. a % PoolSize \in 0 .. PoolSize - 1
        BY <1>1, Division
      <3> QED
        BY <1>1, <1>2, <2>3, <3>1
    <2> QED
      BY <1>4, <2>1, <2>2, <2>4
  <1> QED
    BY <1>1, <1>3, <1>4

(* Nobody has drawn.                                                       *)
LEMMA NothingDrawn ==
    ASSUME \A q \in Query : index[q] = Null, next = 0
    PROVE  \A k \in Connection :
               /\ IsFiniteSet(Drawn(k))
               /\ Cardinality(Drawn(k)) =
                      Cardinality(Drawn(PoolSize - 1)) + IF k < next % PoolSize THEN 1 ELSE 0
  <1>1. PoolSize - 1 \in Connection /\ Connection \subseteq Nat
    BY PoolAssumption DEF Connection
  <1>2. \A k \in Connection : Drawn(k) = {}
    BY QueriesAssumption DEF Drawn
  <1>3. next % PoolSize = 0
    BY PoolAssumption, DivisionIsUnique
  <1>4. IsFiniteSet({}) /\ Cardinality({}) = 0
    BY FS_EmptySet
  <1>5. \A k \in Connection : ~(k < next % PoolSize)
    BY <1>1, <1>3
  <1> QED
    <2> TAKE k \in Connection
    <2>1. Drawn(k) = {} /\ Drawn(PoolSize - 1) = {}
      BY <1>1, <1>2
    <2>2. IsFiniteSet(Drawn(k)) /\ Cardinality(Drawn(k)) = 0 /\ Cardinality(Drawn(PoolSize - 1)) = 0
      BY <1>4, <2>1
    <2> QED
      BY <1>5, <2>2

LEMMA BalanceInit == Init => BalanceInv
  <1> SUFFICES ASSUME Init PROVE BalanceInv
    OBVIOUS
  <1>1. OnceInv
    BY DEF Init, OnceInv
  <1>2. \A q \in Query : index[q] = Null
    BY DEF Init
  <1> QED
    BY <1>1, <1>2, NothingDrawn DEF Init, BalanceInv

(* A step without a draw.                                                  *)
LEMMA BalanceKept ==
    ASSUME BalanceInv, index' = index, next' = next, service' = service, OnceInv'
    PROVE  BalanceInv'
  BY DEF BalanceInv, Drawn

LEMMA BalanceOfADraw ==
    ASSUME PoolInv, BalanceInv, NEW q \in Query, DrawConnection(q)
    PROVE  BalanceInv'
  <1> DEFINE m == next % PoolSize
             last == PoolSize - 1
             c == Cardinality(Drawn(last))
             D(k) == {p \in Query : index'[p] = k}
  <1>1. /\ task[q] = "queued" /\ index[q] = Null /\ service = "serving"
        /\ index' = [index EXCEPT ![q] = m]
        /\ task' = [task EXCEPT ![q] = "locking"]
        /\ next' = (next + 1) % WordSize
        /\ service' = service /\ caller' = caller
        /\ index \in [Query -> Connection \cup {Null}]
        /\ task \in [Query -> {"none", "queued", "locking", "reading"}]
        /\ next \in 0 .. WordSize - 1
    BY DEF DrawConnection, BalanceInv, OnceInv, PoolInv, TypeOK, IdleInv, process, asking
  <1>2. m \in Connection /\ last \in Connection /\ Connection \subseteq Nat
    <2>1. next \in Nat
      BY <1>1, PoolAssumption
    <2> QED
      BY <2>1, ConnectionType, PoolAssumption DEF Connection
  <1>3. next' % PoolSize = IF m = last THEN 0 ELSE m + 1
    BY <1>1, CounterGoesRound
  <1>4. \A k \in Connection : IsFiniteSet(Drawn(k)) /\ Cardinality(Drawn(k)) = c + IF k < m THEN 1 ELSE 0
    BY DEF BalanceInv
  <1>5. c \in Nat
    BY <1>2, <1>4, FS_CardinalityType
  <1>6. D(m) = Drawn(m) \cup {q} /\ q \notin Drawn(m)
    <2>1. m # Null
      BY <1>2, QueriesAssumption
    <2> HIDE DEF m
    <2> QED
      BY <1>1, <2>1 DEF Drawn
  <1>7. \A k \in Connection \ {m} : D(k) = Drawn(k)
    <2>1. \A k \in Connection : k # Null
      BY QueriesAssumption
    <2> HIDE DEF m
    <2> QED
      BY <1>1, <2>1 DEF Drawn
  <1>8. IsFiniteSet(D(m)) /\ Cardinality(D(m)) = Cardinality(Drawn(m)) + 1
    <2>1. IsFiniteSet(Drawn(m))
      BY <1>2, <1>4
    <2> HIDE DEF m, D
    <2> QED
      BY <1>6, <2>1, FS_AddElement
  <1>9. OnceInv'
    BY <1>1 DEF BalanceInv, OnceInv
  <1>10. \A k \in Connection :
             /\ IsFiniteSet(D(k))
             /\ Cardinality(D(k)) = c + IF k <= m THEN 1 ELSE 0
    <2> TAKE k \in Connection
    <2> HIDE DEF c, m, last, D
    <2>1. CASE k = m
      <3>1. Cardinality(Drawn(m)) = c
        BY <1>2, <1>4, <1>5
      <3> QED
        BY <1>2, <1>5, <1>8, <2>1, <3>1
    <2>2. CASE k # m
      BY <1>2, <1>4, <1>5, <1>7, <2>2
    <2> QED
      BY <2>1, <2>2
  <1>11. \A k \in Connection : k <= last
    BY PoolAssumption DEF Connection
  <1>12. \A k \in Connection :
             Cardinality(D(k)) = Cardinality(D(last)) + IF k < next' % PoolSize THEN 1 ELSE 0
    <2> TAKE k \in Connection
    <2> DEFINE n == next' % PoolSize
               C(j) == Cardinality(D(j))
    <2>1. /\ n = IF m = last THEN 0 ELSE m + 1
          /\ C(k) = c + IF k <= m THEN 1 ELSE 0
          /\ C(last) = c + IF last <= m THEN 1 ELSE 0
          /\ k <= last /\ m <= last /\ k \in Nat /\ m \in Nat /\ last \in Nat
      BY <1>2, <1>3, <1>10, <1>11
    <2> HIDE DEF n, C, c, m, last, D
    <2>2. C(k) = C(last) + IF k < n THEN 1 ELSE 0
      BY <1>5, <2>1
    <2> QED
      BY <2>2 DEF n, C
  <1> QED
    BY <1>1, <1>9, <1>10, <1>12 DEF BalanceInv, Drawn

LEMMA BalanceNext == PoolInv /\ BalanceInv /\ [Next]_vars => BalanceInv'
  <1> SUFFICES ASSUME PoolInv, BalanceInv, [Next]_vars
               PROVE  BalanceInv'
    OBVIOUS
  <1>1. CASE Ingest \/ UNCHANGED vars
    <2>1. /\ index' = index /\ next' = next /\ service' = service
          /\ task' = task /\ caller' = caller
      BY <1>1 DEF Ingest, vars, engineVars, process, asking, running, pool
    <2>2. OnceInv'
      BY <2>1 DEF BalanceInv, OnceInv
    <2> QED
      BY <2>1, <2>2, BalanceKept
  <1>2. CASE Bind \/ Restart
    <2>1. /\ index' = index /\ next' = next /\ service # "serving" /\ service' # "serving"
          /\ task' = task /\ caller' = caller
      BY <1>2 DEF Bind, Restart, asking, running, pool
    <2>2. OnceInv'
      BY <2>1 DEF BalanceInv, OnceInv
    <2> QED
      BY <2>1, <2>2 DEF BalanceInv, Drawn
  <1>3. CASE Serve
    <2>1. /\ index' = index /\ next' = 0 /\ service # "serving" /\ service' = "serving"
          /\ task' = task /\ caller' = caller
      BY <1>3 DEF Serve, EmptyPool, asking, running
    <2>2. OnceInv' /\ next = 0
      BY <2>1 DEF BalanceInv, OnceInv
    <2> QED
      BY <2>1, <2>2 DEF BalanceInv, Drawn
  <1>4. CASE Exit
    <2>1. /\ next' = 0 /\ service' = "exited"
          /\ \A q \in Query : task'[q] = "none" /\ index'[q] = Null
      BY <1>4 DEF Exit, EmptyPool
    <2>2. OnceInv'
      BY <2>1 DEF OnceInv
    <2>3. (\A q \in Query : index[q] = Null)' /\ (next = 0)'
      BY <2>1
    <2>4. (\A k \in Connection :
               /\ IsFiniteSet(Drawn(k))
               /\ Cardinality(Drawn(k)) =
                      Cardinality(Drawn(PoolSize - 1)) + IF k < next % PoolSize THEN 1 ELSE 0)'
      BY <2>3, NothingDrawn, PTL
    <2> QED
      BY <2>1, <2>2, <2>4 DEF BalanceInv
  <1>5. ASSUME NEW q \in Query, Leave(q) \/ Spawn(q) \/ \E n \in ScanCounts : Ask(q, n)
        PROVE  BalanceInv'
    <2>1. /\ index' = index /\ next' = next /\ service' = service
          /\ caller \in [Query -> {"away", "waiting", "answered", "reset", "left"}]
          /\ task \in [Query -> {"none", "queued", "locking", "reading"}]
      BY <1>5 DEF Leave, Spawn, Ask, process, running, pool, PoolInv, TypeOK
    <2>2. OnceInv'
      BY <1>5, <2>1 DEF Leave, Spawn, Ask, asking, running, process, BalanceInv, OnceInv
    <2> QED
      BY <2>1, <2>2, BalanceKept
  <1>6. ASSUME NEW q \in Query, DrawConnection(q)
        PROVE  BalanceInv'
    BY <1>6, BalanceOfADraw
  <1>7. ASSUME NEW q \in Query, Lock(q) \/ ReadPage(q) \/ NextScan(q)
        PROVE  BalanceInv'
    <2>1. /\ index' = index /\ next' = next /\ service' = service /\ caller' = caller
          /\ task[q] \in {"locking", "reading"}
          /\ task' = [task EXCEPT ![q] = "reading"]
          /\ task \in [Query -> {"none", "queued", "locking", "reading"}]
      BY <1>7 DEF Lock, ReadPage, NextScan, Reading, process, asking, running, pool, PoolInv, TypeOK
    <2>2. OnceInv'
      BY <2>1 DEF BalanceInv, OnceInv
    <2> QED
      BY <2>1, <2>2, BalanceKept
  <1>8. ASSUME NEW q \in Query, LockPoisoned(q) \/ Rows(q) \/ Fails(q) \/ Panics(q)
        PROVE  BalanceInv'
    <2>1. /\ task[q] \in {"locking", "reading"}
          /\ \E result \in {"rows", "error"} : Conclude(q, result)
      BY <1>8 DEF LockPoisoned, Rows, Fails, Panics, Reading
    <2>2. /\ index' = index /\ next' = next /\ service' = service
          /\ task' = [task EXCEPT ![q] = "none"]
          /\ \/ caller[q] = "waiting" /\ caller' = [caller EXCEPT ![q] = "answered"]
             \/ caller[q] # "waiting" /\ caller' = caller
          /\ caller \in [Query -> {"away", "waiting", "answered", "reset", "left"}]
          /\ task \in [Query -> {"none", "queued", "locking", "reading"}]
      BY <2>1 DEF Conclude, process, PoolInv, TypeOK
    <2>3. OnceInv'
      BY <2>1, <2>2 DEF BalanceInv, OnceInv
    <2> QED
      BY <2>2, <2>3, BalanceKept
  <1> QED
    BY <1>1, <1>2, <1>3, <1>4, <1>5, <1>6, <1>7, <1>8 DEF Next, Work

(* The counter of engine.rs:81-84 is as far in its round as the draws are. *)
THEOREM BalanceInvariant == Spec => []BalanceInv
  <1>1. Init => BalanceInv
    BY BalanceInit
  <1>2. PoolInv /\ BalanceInv /\ [Next]_vars => BalanceInv'
    BY BalanceNext
  <1> QED
    BY <1>1, <1>2, PoolInvariant, PTL DEF Spec

(* No connection is drawn twice more often than another, also when the     *)
(* counter wraps: engine.rs:82-83.                                         *)
THEOREM Balanced == Spec => []DrawsAreBalanced
  <1>1. BalanceInv => DrawsAreBalanced
    <2> SUFFICES ASSUME BalanceInv, NEW k \in Connection, NEW l \in Connection
                 PROVE  Cardinality(Drawn(k)) <= Cardinality(Drawn(l)) + 1
      BY DEF DrawsAreBalanced
    <2> DEFINE C(j) == Cardinality(Drawn(j))
               ahead(j) == j < next % PoolSize
    <2>1. PoolSize - 1 \in Connection
      BY PoolAssumption DEF Connection
    <2>2. C(PoolSize - 1) \in Nat
      BY <2>1, FS_CardinalityType DEF BalanceInv
    <2>3. /\ C(k) = C(PoolSize - 1) + IF ahead(k) THEN 1 ELSE 0
          /\ C(l) = C(PoolSize - 1) + IF ahead(l) THEN 1 ELSE 0
      BY DEF BalanceInv
    <2> HIDE DEF C, ahead
    <2>4. C(k) <= C(l) + 1
      BY <2>2, <2>3
    <2> QED
      BY <2>4 DEF C
  <1> QED
    BY <1>1, BalanceInvariant, PTL

=============================================================================

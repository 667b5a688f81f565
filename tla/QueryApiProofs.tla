--------------------------- MODULE QueryApiProofs ---------------------------
(***************************************************************************)
(* Proofs about QueryApi, for every number of requests, sessions and       *)
(* settings, and every width of the integers.                              *)
(***************************************************************************)
EXTENDS QueryApi, TLAPS

(* Integer division, as the day of a time uses it.                         *)
LEMMA DivisionOfInt ==
    ASSUME NEW a \in Int, NEW n \in Nat \ {0}
    PROVE  /\ a \div n \in Int
           /\ n * (a \div n) <= a
           /\ a < n * ((a \div n) + 1)
  OBVIOUS

LEMMA ProductGrows ==
    ASSUME NEW n \in Nat, NEW a \in Int, NEW b \in Int, a <= b
    PROVE  n * a <= n * b
  OBVIOUS

(* Two times that are at most k days apart are in days at most k apart.    *)
LEMMA DaysApart ==
    ASSUME NEW from \in Int, NEW to \in Int, NEW k \in Nat, to - from <= k * DayLength
    PROVE  Day(to) - Day(from) <= k
  <1> DEFINE p == (from + JstOffset) \div DayLength
             q == (to + JstOffset) \div DayLength
  <1>1. DayLength \in Nat \ {0} /\ JstOffset \in Nat
    BY DayAssumption
  <1>2. /\ p \in Int /\ from + JstOffset < DayLength * (p + 1)
        /\ q \in Int /\ DayLength * q <= to + JstOffset
    BY <1>1, DivisionOfInt
  <1> HIDE DEF p, q
  <1>3. SUFFICES ASSUME q > p + k PROVE FALSE
    BY <1>2 DEF Day, p, q
  <1>4. DayLength * (p + 1 + k) <= DayLength * q
    <2>1. p + 1 + k \in Int /\ p + 1 + k <= q
      BY <1>2, <1>3
    <2> QED
      BY <1>1, <1>2, <2>1, ProductGrows
  <1>5. DayLength * (p + 1 + k) = DayLength * (p + 1) + k * DayLength
    BY <1>1, <1>2
  <1> DEFINE x == DayLength * (p + 1)
             y == k * DayLength
             z == DayLength * q
  <1>6. /\ x \in Int /\ y \in Int /\ z \in Int
        /\ from + JstOffset < x /\ z <= to + JstOffset /\ x + y <= z /\ to - from <= y
    BY <1>1, <1>2, <1>4, <1>5
  <1> HIDE DEF x, y, z
  <1> QED
    BY <1>1, <1>6

-----------------------------------------------------------------------------

(* An accepted range is in order and no longer than the longest.           *)
LEMMA AcceptedRange ==
    ASSUME NEW from \in (MinInt .. MaxInt) \cup {Absent},
           NEW to \in (MinInt .. MaxInt) \cup {Absent},
           NEW now \in Int,
           NEW range, range = ValidateTimeRange(from, to, now), range # Invalid
    PROVE  /\ range.from \in Int /\ range.to \in Int
           /\ range.from <= range.to
           /\ Day(range.to) - Day(range.from) <= MaxDays
  <1> USE RequestAssumption, DayAssumption
  <1>1. DefaultDays * DayLength \in Nat /\ MaxDays * DayLength \in Nat
    OBVIOUS
  <1>2. DefaultDays * DayLength <= MaxDays * DayLength
    <2>1. DayLength * DefaultDays <= DayLength * MaxDays
      BY ProductGrows
    <2> QED
      BY <2>1
  <1>3. CASE from = Absent /\ to = Absent
    <2>1. range = [from |-> now - DefaultDays * DayLength, to |-> now]
      BY <1>3 DEF ValidateTimeRange, DefaultRange
    <2>2. /\ range.from \in Int /\ range.to \in Int /\ range.from <= range.to
          /\ range.to - range.from <= MaxDays * DayLength
      BY <1>1, <1>2, <2>1
    <2> QED
      BY <2>2, DaysApart
  <1>4. CASE ~(from = Absent /\ to = Absent)
    <2>1. /\ from # Absent /\ to # Absent
          /\ range = [from |-> from, to |-> to]
          /\ from <= to
          /\ \E d \in CheckedSub(to, from) : d <= MaxRange
      BY <1>4 DEF ValidateTimeRange
    <2>2. /\ range.from \in Int /\ range.to \in Int /\ range.from <= range.to
          /\ range.to - range.from <= MaxDays * DayLength
      BY <2>1 DEF CheckedSub, MaxRange
    <2> QED
      BY <2>2, DaysApart
  <1> QED
    BY <1>3, <1>4

(* What a handler lets through is bounded.                                 *)
LEMMA AcceptedQuery ==
    ASSUME NEW metric \in Metric, NEW params, NEW now \in Int,
           params.from \in (MinInt .. MaxInt) \cup {Absent},
           params.to \in (MinInt .. MaxInt) \cup {Absent},
           Query(metric, params, now) # Invalid
    PROVE  /\ Bounded(Query(metric, params, now))
           /\ Query(metric, params, now) \in QueryParameters
  <1> DEFINE range == ValidateTimeRange(params.from, params.to, now)
             limit == IF metric = "limit" THEN ValidateLimit(params.limit) ELSE DefaultLimit
             unit  == IF metric = "unit" THEN ValidateUnit(params.unit) ELSE DefaultUnit
  <1>1. /\ range # Invalid /\ limit # Invalid /\ unit # Invalid
        /\ Query(metric, params, now) =
             [from |-> range.from, to |-> range.to, limit |-> limit, unit |-> unit]
    BY DEF Query
  <1>2. limit \in 1 .. MaxLimit
    BY <1>1, RequestAssumption DEF ValidateLimit
  <1>3. unit \in Unit
    BY <1>1, RequestAssumption DEF ValidateUnit
  <1>4. /\ range.from \in Int /\ range.to \in Int /\ range.from <= range.to
        /\ Day(range.to) - Day(range.from) <= MaxDays
    BY <1>1, AcceptedRange
  <1>5. limit \in Nat
    BY <1>2, RequestAssumption
  <1> HIDE DEF range, limit, unit
  <1> QED
    BY <1>1, <1>2, <1>3, <1>4, <1>5 DEF Bounded, QueryParameters

-----------------------------------------------------------------------------

(* A message that is about a metric has parameters of the right types.     *)
LEMMA MetricMessage ==
    ASSUME NEW m \in Message,
           m.path = "metric" \/ (m.path = "mcp" /\ m.call = "tool")
    PROVE  /\ m.metric \in Metric
           /\ m.params.from \in (MinInt .. MaxInt) \cup {Absent}
           /\ m.params.to \in (MinInt .. MaxInt) \cup {Absent}
  BY MessageAssumption

(* A query is asked only on behalf of an entitled client, and is bounded.  *)
LEMMA AskedQuery ==
    ASSUME TypeOK, ProcessInv, NEW r \in Request, NEW now \in Clock, Ask(r, now)
    PROVE  LET q == Query(message[r].metric, message[r].params, now)
           IN  /\ Bounded(q) /\ q \in QueryParameters
               /\ query' = [query EXCEPT ![r] = q]
               /\ service = "serving" /\ Waiting(r)
               /\ message[r].path = "mcp" => Entitled(r)
  <1>1. Pending(r) /\ message[r] \in Message
    BY DEF Ask, Route, Tool, Admitted, Gated, Pending, Waiting, TypeOK
  <1>2. CASE Route(r)
    <2>1. message[r].path = "metric"
      BY <1>2 DEF Route
    <2> QED
      BY <1>1, <2>1, MetricMessage, AcceptedQuery, AbsentAssumption
         DEF Ask, Pending
  <1>3. CASE Tool(r)
    <2>1. message[r].path = "mcp" /\ message[r].call = "tool"
      BY <1>3 DEF Tool, Admitted, Gated
    <2>2. Entitled(r)
      BY <1>1, <1>3 DEF Tool, Admitted, AllowedOrigin, Authorized, Pending, ProcessInv, Entitled
    <2> QED
      BY <1>1, <2>1, <2>2, MetricMessage, AcceptedQuery, AbsentAssumption
         DEF Ask, Pending
  <1> QED
    BY <1>2, <1>3 DEF Ask

-----------------------------------------------------------------------------

(* An answer leaves the types as they are.                                 *)
LEMMA ReplyTypes ==
    ASSUME TypeOK, NEW r \in Request, NEW status \in Outcome, NEW cors \in Origin \cup {Absent},
           Reply(r, status, cors)
    PROVE  /\ env' \in Environment
           /\ service' \in {"down", "bound", "serving"}
           /\ config' \in Config \cup {Absent}
           /\ message' \in [Request -> Message \cup {Absent}]
           /\ query' \in [Request -> QueryParameters \cup {Absent}]
           /\ answer' \in [Request -> Answer \cup {Absent}]
  BY DEF TypeOK, Reply, process, Answer

(* An answer ends a query, and touches no other.                           *)
LEMMA ReplyInv ==
    ASSUME TypeOK, ProcessInv, RequestInv,
           NEW r \in Request, NEW status, NEW cors, Reply(r, status, cors)
    PROVE  ProcessInv' /\ RequestInv'
  <1>1. ProcessInv'
    BY DEF ProcessInv, Mountable, Set, Reply, process
  <1>2. ASSUME NEW o \in Request, query'[o] # Absent
        PROVE  /\ service' = "serving" /\ message'[o] # Absent /\ answer'[o] = Absent
               /\ Bounded(query'[o])
               /\ message'[o].path = "mcp" => Entitled(o)'
    <2>1. o # r /\ query'[o] = query[o] /\ answer'[o] = answer[o]
      BY <1>2 DEF Reply, TypeOK
    <2>2. service' = service /\ config' = config /\ message' = message
      BY DEF Reply, process
    <2> QED
      BY <1>2, <2>1, <2>2 DEF RequestInv, Entitled
  <1> QED
    BY <1>1, <1>2 DEF RequestInv, Bounded, Day

(* Behind the gate the origin is one of Origin.                            *)
LEMMA OriginTypes ==
    ASSUME TypeOK, NEW r \in Request, message[r] # Absent, message[r].path = "mcp"
    PROVE  message[r].origin \in Origin \cup {Absent}
  BY MessageAssumption DEF TypeOK

LEMMA CorsTypes ==
    ASSUME TypeOK, NEW r \in Request, message[r] # Absent
    PROVE  Cors(r) \in Origin \cup {Absent}
  BY OriginTypes DEF Cors

LEMMA SessionTypes ==
    ASSUME TypeOK, NEW r \in Request, InSession(r), message[r] # Absent, message[r].path = "mcp"
    PROVE  message[r].session \in Session
  BY MessageAssumption DEF TypeOK, InSession

-----------------------------------------------------------------------------

LEMMA InitInv == Init => IInv
  <1> SUFFICES ASSUME Init PROVE IInv
    OBVIOUS
  <1>1. TypeOK
    BY DEF Init, TypeOK
  <1>2. ProcessInv /\ RequestInv
    BY DEF Init, ProcessInv, RequestInv
  <1> QED
    BY <1>1, <1>2 DEF IInv

(* What env contains of the settings when it is accepted.                  *)
LEMMA Accepting ==
    ASSUME NEW e \in Environment, Accepted(e)
    PROVE  FromEnv(e) \in Config /\ FromEnv(e) # Absent /\ Mountable(FromEnv(e))
  <1>1. FromEnv(e) \in Config
    BY EnvironmentAssumption DEF FromEnv, Config, Origins, Set
  <1>2. Mountable(FromEnv(e))
    BY DEF Accepted, FromEnv, Mountable, Set
  <1> QED
    BY <1>1, <1>2, AbsentAssumption

(* The steps of a request preserve the invariant.                          *)
LEMMA HandleInv ==
    ASSUME IInv, NEW r \in Request, Handle(r)
    PROVE  IInv'
  <1> USE DEF IInv
  <1>1. ASSUME NEW status \in Outcome, NEW cors \in Origin \cup {Absent},
               Reply(r, status, cors), sessions' \in [Session -> {"unused", "open", "over"}]
        PROVE  IInv'
    BY <1>1, ReplyTypes, ReplyInv DEF TypeOK
  <1>2. ASSUME NEW status \in Outcome, NEW cors \in Origin \cup {Absent},
               Reply(r, status, cors), UNCHANGED sessions
        PROVE  IInv'
    BY <1>1, <1>2 DEF TypeOK
  <1>3. Absent \in Origin \cup {Absent}
    OBVIOUS
  <1>4. Gated(r) => message[r].origin \in Origin \cup {Absent}
    BY OriginTypes DEF Gated, Pending, Waiting
  <1>5. CASE Health(r)
    BY <1>2, <1>3, <1>5 DEF Health, Outcome
  <1>6. CASE NotFound(r)
    BY <1>2, <1>3, <1>6 DEF NotFound, Outcome
  <1>7. CASE Forbidden(r)
    BY <1>2, <1>3, <1>7 DEF Forbidden, Outcome
  <1>8. CASE Preflight(r)
    BY <1>2, <1>4, <1>8 DEF Preflight, Outcome
  <1>9. CASE Unauthorized(r)
    BY <1>2, <1>4, <1>9 DEF Unauthorized, Outcome
  <1>10. CASE RefusedByRmcp(r)
    BY <1>2, <1>4, <1>10 DEF RefusedByRmcp, Admitted, Outcome
  <1>11. CASE CloseSession(r)
    <2>1. sessions' \in [Session -> {"unused", "open", "over"}]
      BY <1>11 DEF CloseSession, TypeOK
    <2> QED
      BY <1>1, <1>4, <1>11, <2>1 DEF CloseSession, Admitted, Outcome
  <1>12. CASE OtherCall(r)
    BY <1>2, <1>4, <1>12 DEF OtherCall, Admitted, Outcome
  <1>13. CASE Disconnect(r)
    BY <1>2, <1>3, <1>13 DEF Disconnect, Outcome
  <1>14. CASE \E s \in Session : Initialize(r, s)
    <2>1. sessions' \in [Session -> {"unused", "open", "over"}]
      BY <1>14 DEF Initialize, TypeOK
    <2> QED
      BY <1>1, <1>4, <1>14, <2>1 DEF Initialize, Admitted, Outcome
  <1>15. CASE \E now \in Clock : Reject(r, now)
    <2>1. message[r] # Absent
      BY <1>15 DEF Reject, Route, Tool, Admitted, Gated, Pending, Waiting
    <2>2. Cors(r) \in Origin \cup {Absent}
      BY <2>1, CorsTypes
    <2> QED
      BY <1>2, <1>15, <2>2 DEF Reject, Outcome
  <1>16. ASSUME NEW now \in Clock, Ask(r, now)
         PROVE  IInv'
    <2> DEFINE q == Query(message[r].metric, message[r].params, now)
    <2>1. /\ Bounded(q) /\ q \in QueryParameters
          /\ query' = [query EXCEPT ![r] = q]
          /\ service = "serving" /\ Waiting(r)
          /\ message[r].path = "mcp" => Entitled(r)
      BY <1>16, AskedQuery
    <2>2. /\ env' = env /\ service' = service /\ config' = config /\ sessions' = sessions
          /\ message' = message /\ answer' = answer
      BY <1>16 DEF Ask, process
    <2> HIDE DEF q
    <2>3. TypeOK'
      BY <2>1, <2>2 DEF TypeOK
    <2>4. ProcessInv'
      BY <2>2 DEF ProcessInv, Mountable, Set
    <2>5. ASSUME NEW o \in Request, query'[o] # Absent
          PROVE  /\ service' = "serving" /\ message'[o] # Absent /\ answer'[o] = Absent
                 /\ Bounded(query'[o])
                 /\ message'[o].path = "mcp" => Entitled(o)'
      <3>1. CASE o = r
        BY <2>1, <2>2, <3>1 DEF Waiting, TypeOK, Entitled
      <3>2. CASE o # r
        <4>1. query'[o] = query[o]
          BY <2>1, <3>2 DEF TypeOK
        <4> QED
          BY <2>2, <2>5, <4>1 DEF RequestInv, Entitled
      <3> QED
        BY <3>1, <3>2
    <2>6. RequestInv'
      BY <2>5 DEF RequestInv, Bounded, Day
    <2> QED
      BY <2>3, <2>4, <2>6
  <1>17. CASE \E status \in {"rows", "error"} : Conclude(r, status)
    <2>1. message[r] # Absent
      BY <1>17 DEF Conclude, RequestInv
    <2>2. Cors(r) \in Origin \cup {Absent}
      BY <2>1, CorsTypes
    <2> QED
      BY <1>2, <1>17, <2>2 DEF Conclude, Outcome
  <1> QED
    BY <1>5, <1>6, <1>7, <1>8, <1>9, <1>10, <1>11, <1>12, <1>13, <1>14, <1>15, <1>16, <1>17
       DEF Handle


(* Every step preserves the invariant.                                     *)
LEMMA NextInv == IInv /\ [Next]_vars => IInv'
  <1> SUFFICES ASSUME IInv, [Next]_vars PROVE IInv'
    OBVIOUS
  <1>1. CASE \E e \in Environment : Deploy(e)
    <2>1. PICK e \in Environment : Deploy(e)
      BY <1>1
    <2>2. /\ env' = e /\ service' = service /\ config' = config /\ sessions' = sessions
          /\ message' = message /\ query' = query /\ answer' = answer
      BY <2>1 DEF Deploy, process
    <2> QED
      BY <2>2 DEF IInv, TypeOK, ProcessInv, RequestInv, Mountable, Set, Entitled, Bounded, Day
  <1>2. CASE Bind
    <2>1. /\ service = "down" /\ service' = "bound" /\ config' = FromEnv(env)
          /\ env' = env /\ sessions' = sessions
          /\ message' = message /\ query' = query /\ answer' = answer
      BY <1>2 DEF Bind
    <2>2. FromEnv(env) \in Config /\ FromEnv(env) # Absent /\ Mountable(FromEnv(env))
      BY <1>2, Accepting DEF Bind, IInv, TypeOK
    <2>3. ProcessInv'
      BY <2>1, <2>2 DEF ProcessInv, Mountable, Set
    <2>4. RequestInv'
      BY <2>1 DEF IInv, RequestInv
    <2> QED
      BY <2>1, <2>2, <2>3, <2>4 DEF IInv, TypeOK
  <1>3. CASE Serve
    <2>1. /\ service = "bound" /\ service' = "serving"
          /\ env' = env /\ config' = config /\ sessions' = sessions
          /\ message' = message /\ query' = query /\ answer' = answer
      BY <1>3 DEF Serve
    <2> QED
      BY <2>1 DEF IInv, TypeOK, ProcessInv, RequestInv, Mountable, Set
  <1>4. CASE Exit
    <2>1. /\ service' = "down" /\ config' = Absent /\ env' = env /\ message' = message
          /\ query' = [r \in Request |-> Absent]
      BY <1>4 DEF Exit
    <2>2. sessions' \in [Session -> {"unused", "open", "over"}]
      BY <1>4 DEF Exit, IInv, TypeOK
    <2>3. answer' \in [Request -> Answer \cup {Absent}]
      <3>1. [status |-> "reset", cors |-> Absent] \in Answer
        BY DEF Answer, Outcome
      <3> QED
        BY <1>4, <3>1 DEF Exit, IInv, TypeOK
    <2> QED
      BY <2>1, <2>2, <2>3 DEF IInv, TypeOK, ProcessInv, RequestInv
  <1>5. CASE \E s \in Session : Expire(s)
    <2>1. /\ env' = env /\ service' = service /\ config' = config
          /\ message' = message /\ query' = query /\ answer' = answer
          /\ sessions' \in [Session -> {"unused", "open", "over"}]
      BY <1>5 DEF Expire, process, IInv, TypeOK
    <2> QED
      BY <2>1 DEF IInv, TypeOK, ProcessInv, RequestInv, Mountable, Set, Entitled, Bounded, Day
  <1>6. CASE \E r \in Request : Handle(r)
    BY <1>6, HandleInv
  <1>7. CASE \E r \in Request : \E m \in Message : Send(r, m)
    <2>1. PICK r \in Request, m \in Message : Send(r, m)
      BY <1>7
    <2>2. /\ env' = env /\ service' = service /\ config' = config /\ sessions' = sessions
          /\ query' = query /\ answer' = answer
          /\ message[r] = Absent /\ message' = [message EXCEPT ![r] = m]
      BY <2>1 DEF Send, process
    <2>3. TypeOK' /\ ProcessInv'
      BY <2>2 DEF IInv, TypeOK, ProcessInv, Mountable, Set
    <2>4. ASSUME NEW o \in Request, query'[o] # Absent
          PROVE  message'[o] = message[o]
      BY <2>2, <2>4 DEF IInv, TypeOK, RequestInv
    <2>5. RequestInv'
      BY <2>2, <2>4 DEF IInv, RequestInv, Entitled, Bounded, Day
    <2> QED
      BY <2>3, <2>5 DEF IInv
  <1>8. CASE UNCHANGED vars
    BY <1>8 DEF vars, process, IInv, TypeOK, ProcessInv, RequestInv, Mountable, Set, Entitled,
                Bounded, Day
  <1> QED
    BY <1>1, <1>2, <1>3, <1>4, <1>5, <1>6, <1>7, <1>8 DEF Next

(***************************************************************************)
(* The types are right, what is bound can be mounted, and a query in       *)
(* progress is bounded and asked by an entitled client (main.rs:12-17,     *)
(* validation.rs:45-88, mcp.rs:259-284).                                   *)
(***************************************************************************)
THEOREM Invariant == Spec => []IInv
  BY InitInv, NextInv, PTL DEF Spec

(***************************************************************************)
(* In particular the types: an answer has one of the outcomes and names an *)
(* origin or none, a query in progress has the parameters of one           *)
(* (routes.rs:77-176, mcp.rs:259-304).                                     *)
(***************************************************************************)
THEOREM TypeCorrect == Spec => []TypeOK
  <1>1. IInv => TypeOK
    BY DEF IInv
  <1> QED
    BY <1>1, Invariant, PTL

(***************************************************************************)
(* Over REST or MCP, with any parameters, no query is larger than the      *)
(* limits of validation.rs:45-88 say.                                      *)
(***************************************************************************)
THEOREM NoLargeQuery == Spec => []QueriesAreBounded
  <1>1. IInv => QueriesAreBounded
    BY DEF IInv, RequestInv, QueriesAreBounded
  <1> QED
    BY <1>1, Invariant, PTL

(***************************************************************************)
(* A process that has bound the port does not end because of its MCP       *)
(* settings (config.rs:42-56 and 72-90).                                   *)
(***************************************************************************)
THEOREM SettingsAgree == Spec => []BoundIsMountable
  <1>1. IInv => BoundIsMountable
    BY DEF IInv, ProcessInv, BoundIsMountable
  <1> QED
    BY <1>1, Invariant, PTL

-----------------------------------------------------------------------------

(* An answer from behind the gate goes to the entitled.                    *)
LEMMA ReplyGate ==
    ASSUME IInv, NEW o \in Request, NEW status, NEW cors, Reply(o, status, cors),
           NEW r \in Request, message[r].path = "mcp",
           o = r /\ status \in Behind => Entitled(r)
    PROVE  /\ query'[r] # Absent => Entitled(r)
           /\ answer'[r] # answer[r] /\ answer'[r].status \in Behind => Entitled(r)
  <1>1. query' = [query EXCEPT ![o] = Absent]
        /\ answer' = [answer EXCEPT ![o] = [status |-> status, cors |-> cors]]
    BY DEF Reply
  <1>2. query \in [Request -> QueryParameters \cup {Absent}]
        /\ answer \in [Request -> Answer \cup {Absent}]
    BY DEF IInv, TypeOK
  <1>3. query[r] # Absent => Entitled(r)
    BY DEF IInv, RequestInv
  <1>4. CASE o = r
    BY <1>1, <1>2, <1>4
  <1>5. CASE o # r
    <2>1. query'[r] = query[r] /\ answer'[r] = answer[r]
      BY <1>1, <1>2, <1>5
    <2> QED
      BY <1>3, <2>1
  <1> QED
    BY <1>4, <1>5

(* The gate lets nobody else through.                                      *)
LEMMA AdmittedIsEntitled ==
    ASSUME IInv, NEW r \in Request, Admitted(r)
    PROVE  Entitled(r)
  BY DEF IInv, ProcessInv, Admitted, Gated, Pending, AllowedOrigin, Authorized, Entitled

LEMMA HandleGate ==
    ASSUME IInv, NEW o \in Request, Handle(o), NEW r \in Request, message[r].path = "mcp"
    PROVE  /\ query'[r] # Absent => Entitled(r)
           /\ answer'[r] # answer[r] /\ answer'[r].status \in Behind => Entitled(r)
  <1>1. ASSUME NEW status, NEW cors, Reply(o, status, cors), status \notin Behind
        PROVE  /\ query'[r] # Absent => Entitled(r)
               /\ answer'[r] # answer[r] /\ answer'[r].status \in Behind => Entitled(r)
    BY <1>1, ReplyGate
  <1>2. ASSUME NEW status, NEW cors, Reply(o, status, cors), o = r => Entitled(r)
        PROVE  /\ query'[r] # Absent => Entitled(r)
               /\ answer'[r] # answer[r] /\ answer'[r].status \in Behind => Entitled(r)
    BY <1>2, ReplyGate
  <1>3. CASE Health(o)
    BY <1>1, <1>3 DEF Health, Behind
  <1>4. CASE NotFound(o)
    BY <1>1, <1>4 DEF NotFound, Behind
  <1>5. CASE Forbidden(o)
    BY <1>1, <1>5 DEF Forbidden, Behind
  <1>6. CASE Preflight(o)
    BY <1>1, <1>6 DEF Preflight, Behind
  <1>7. CASE Unauthorized(o)
    BY <1>1, <1>7 DEF Unauthorized, Behind
  <1>8. CASE RefusedByRmcp(o)
    BY <1>2, <1>8, AdmittedIsEntitled DEF RefusedByRmcp
  <1>9. CASE CloseSession(o)
    BY <1>2, <1>9, AdmittedIsEntitled DEF CloseSession
  <1>10. CASE OtherCall(o)
    BY <1>2, <1>10, AdmittedIsEntitled DEF OtherCall
  <1>11. CASE Disconnect(o)
    BY <1>1, <1>11 DEF Disconnect, Behind
  <1>12. CASE \E s \in Session : Initialize(o, s)
    BY <1>2, <1>12, AdmittedIsEntitled DEF Initialize
  <1>13. CASE \E now \in Clock : Reject(o, now)
    <2>1. o = r => Tool(o)
      BY <1>13 DEF Reject, Route
    <2>2. o = r => Entitled(r)
      BY <2>1, AdmittedIsEntitled DEF Tool
    <2> QED
      BY <1>2, <1>13, <2>2 DEF Reject
  <1>14. ASSUME NEW now \in Clock, Ask(o, now)
         PROVE  /\ query'[r] # Absent => Entitled(r)
                /\ answer'[r] # answer[r] /\ answer'[r].status \in Behind => Entitled(r)
    <2>1. /\ \E q : query' = [query EXCEPT ![o] = q]
          /\ message[o].path = "mcp" => Entitled(o)
      BY <1>14, AskedQuery DEF IInv
    <2>2. o # r => query'[r] = query[r]
      BY <2>1 DEF IInv, TypeOK
    <2>3. answer' = answer
      BY <1>14 DEF Ask
    <2> QED
      BY <2>1, <2>2, <2>3 DEF IInv, RequestInv
  <1>15. CASE \E status \in {"rows", "error"} : Conclude(o, status)
    <2>1. o = r => Entitled(r)
      BY <1>15 DEF Conclude, IInv, RequestInv
    <2> QED
      BY <1>2, <1>15, <2>1 DEF Conclude
  <1> QED
    BY <1>3, <1>4, <1>5, <1>6, <1>7, <1>8, <1>9, <1>10, <1>11, <1>12, <1>13, <1>14, <1>15
       DEF Handle

(***************************************************************************)
(* Behind the gate of require_mcp_access nothing happens for a request     *)
(* without the token and an allowed origin of this very process            *)
(* (mcp.rs:259-284).                                                       *)
(***************************************************************************)
THEOREM Gate == Spec => OnlyThroughTheGate
  <1> DEFINE Guarded ==
        \A r \in Request : message[r] # Absent /\ message[r].path = "mcp" =>
           /\ query'[r] # Absent => Entitled(r)
           /\ answer'[r] # answer[r] /\ answer'[r].status \in Behind => Entitled(r)
  <1>1. IInv /\ [Next]_vars => [Guarded]_vars
    <2> SUFFICES ASSUME IInv, Next,
                        NEW r \in Request, message[r] # Absent, message[r].path = "mcp"
                 PROVE  /\ query'[r] # Absent => Entitled(r)
                        /\ answer'[r] # answer[r] /\ answer'[r].status \in Behind => Entitled(r)
      OBVIOUS
    <2>1. CASE \E o \in Request : Handle(o)
      BY <2>1, HandleGate
    <2>2. CASE Exit
      <3>1. query'[r] = Absent
        BY <2>2 DEF Exit
      <3>2. answer'[r] = [status |-> "reset", cors |-> Absent] \/ answer'[r] = answer[r]
        BY <2>2 DEF Exit
      <3> QED
        BY <3>1, <3>2 DEF Behind
    <2>3. CASE query' = query /\ answer' = answer
      BY <2>3 DEF IInv, RequestInv
    <2> QED
      BY <2>1, <2>2, <2>3 DEF Next, Deploy, Bind, Serve, Expire, Send
  <1> QED
    BY <1>1, Invariant, PTL DEF Spec, OnlyThroughTheGate

-----------------------------------------------------------------------------
(* Origins of answers.                                                     *)

(* What the answer to a request names.                                     *)
Named(m, a) == IF m.path = "mcp" /\ a.status \notin {"reset", "not found", "forbidden"}
               THEN a.cors = m.origin /\ m.origin # Absent
               ELSE a.cors = Absent

EchoInv == \A r \in Request : answer[r] # Absent => message[r] # Absent /\ Named(message[r], answer[r])

LEMMA ReplyEcho ==
    ASSUME TypeOK, EchoInv, NEW o \in Request, NEW status, NEW cors, Reply(o, status, cors),
           message[o] # Absent, Named(message[o], [status |-> status, cors |-> cors])
    PROVE  EchoInv'
  <1>1. message' = message /\ answer' = [answer EXCEPT ![o] = [status |-> status, cors |-> cors]]
    BY DEF Reply
  <1>2. ASSUME NEW r \in Request, answer'[r] # Absent
        PROVE  message[r] # Absent /\ Named(message[r], answer'[r])
    <2>1. CASE r = o
      BY <1>1, <2>1 DEF TypeOK
    <2>2. CASE r # o
      BY <1>1, <1>2, <2>2 DEF TypeOK, EchoInv
    <2> QED
      BY <2>1, <2>2
  <1> QED
    BY <1>1, <1>2 DEF EchoInv, Named

(* An allowed origin is one.                                               *)
LEMMA AllowedIsNamed ==
    ASSUME IInv, NEW r \in Request, service = "serving", message[r].origin \in config.origins
    PROVE  message[r].origin # Absent
  <1>1. config \in Config
    BY DEF IInv, TypeOK, ProcessInv
  <1> QED
    BY <1>1, AbsentAssumption DEF Config

LEMMA HandleEcho ==
    ASSUME IInv, EchoInv, NEW r \in Request, Handle(r)
    PROVE  EchoInv'
  <1>1. TypeOK
    BY DEF IInv
  <1>2. CASE Health(r)
    BY <1>1, <1>2, ReplyEcho DEF Health, Pending, Waiting, Named
  <1>3. CASE NotFound(r)
    BY <1>1, <1>3, ReplyEcho DEF NotFound, Pending, Waiting, Named
  <1>4. CASE Forbidden(r)
    BY <1>1, <1>4, ReplyEcho DEF Forbidden, Gated, Pending, Waiting, Named
  <1>5. Gated(r) /\ AllowedOrigin(r) =>
            /\ message[r] # Absent /\ message[r].path = "mcp"
            /\ message[r].origin # Absent
    BY AllowedIsNamed DEF Gated, Pending, Waiting, AllowedOrigin
  <1>6. CASE Preflight(r)
    BY <1>1, <1>5, <1>6, ReplyEcho DEF Preflight, Named
  <1>7. CASE Unauthorized(r)
    BY <1>1, <1>5, <1>7, ReplyEcho DEF Unauthorized, Named
  <1>8. CASE RefusedByRmcp(r)
    BY <1>1, <1>5, <1>8, ReplyEcho DEF RefusedByRmcp, Admitted, Named
  <1>9. CASE CloseSession(r)
    BY <1>1, <1>5, <1>9, ReplyEcho DEF CloseSession, Admitted, Named
  <1>10. CASE OtherCall(r)
    BY <1>1, <1>5, <1>10, ReplyEcho DEF OtherCall, Admitted, Named
  <1>11. CASE Disconnect(r)
    BY <1>1, <1>11, ReplyEcho DEF Disconnect, Waiting, Named
  <1>12. CASE \E s \in Session : Initialize(r, s)
    BY <1>1, <1>5, <1>12, ReplyEcho DEF Initialize, Admitted, Named
  <1>13. CASE \E now \in Clock : Reject(r, now)
    <2>1. Reply(r, "invalid", Cors(r)) /\ (Route(r) \/ Tool(r))
      BY <1>13 DEF Reject
    <2>2. CASE Route(r)
      BY <1>1, <2>1, <2>2, ReplyEcho DEF Route, Pending, Waiting, Cors, Named
    <2>3. CASE Tool(r)
      BY <1>1, <1>5, <2>1, <2>3, ReplyEcho DEF Tool, Admitted, Cors, Named
    <2> QED
      BY <2>1, <2>2, <2>3
  <1>14. CASE \E now \in Clock : Ask(r, now)
    BY <1>14 DEF Ask, EchoInv, Named
  <1>15. CASE \E status \in {"rows", "error"} : Conclude(r, status)
    <2>1. PICK status \in {"rows", "error"} : query[r] # Absent /\ Reply(r, status, Cors(r))
      BY <1>15 DEF Conclude
    <2>2. /\ service = "serving" /\ message[r] # Absent
          /\ message[r].path = "mcp" => message[r].origin \in config.origins
      BY <2>1 DEF IInv, RequestInv, Entitled
    <2>3. message[r].path = "mcp" => message[r].origin # Absent
      BY <2>2, AllowedIsNamed
    <2> QED
      BY <1>1, <2>1, <2>2, <2>3, ReplyEcho DEF Cors, Named
  <1> QED
    BY <1>2, <1>3, <1>4, <1>6, <1>7, <1>8, <1>9, <1>10, <1>11, <1>12, <1>13, <1>14, <1>15
       DEF Handle

LEMMA NextEcho == IInv /\ EchoInv /\ [Next]_vars => EchoInv'
  <1> SUFFICES ASSUME IInv, EchoInv, [Next]_vars PROVE EchoInv'
    OBVIOUS
  <1>1. CASE \E r \in Request : Handle(r)
    BY <1>1, HandleEcho
  <1>2. CASE Exit
    <2>1. message' = message
      BY <1>2 DEF Exit
    <2>2. ASSUME NEW r \in Request, answer'[r] # Absent
          PROVE  message[r] # Absent /\ Named(message[r], answer'[r])
      <3>1. CASE Waiting(r)
        <4>1. answer'[r] = [status |-> "reset", cors |-> Absent]
          BY <1>2, <3>1 DEF Exit
        <4> QED
          BY <3>1, <4>1 DEF Waiting, Named
      <3>2. CASE ~Waiting(r)
        <4>1. answer'[r] = answer[r]
          BY <1>2, <3>2 DEF Exit
        <4> QED
          BY <2>2, <4>1 DEF EchoInv
      <3> QED
        BY <3>1, <3>2
    <2> QED
      BY <2>1, <2>2 DEF EchoInv, Named
  <1>3. CASE \E r \in Request : \E m \in Message : Send(r, m)
    <2>1. PICK r \in Request, m \in Message : Send(r, m)
      BY <1>3
    <2>2. answer' = answer /\ \A o \in Request : answer[o] # Absent => message'[o] = message[o]
      BY <2>1 DEF Send, EchoInv, IInv, TypeOK
    <2> QED
      BY <2>2 DEF EchoInv, Named
  <1>4. CASE message' = message /\ answer' = answer
    BY <1>4 DEF EchoInv, Named
  <1> QED
    BY <1>1, <1>2, <1>3, <1>4 DEF Next, Deploy, Bind, Serve, Expire, vars

(***************************************************************************)
(* Whatever the configuration, a browser may read what is meant for an     *)
(* allowed origin and nothing else (mcp.rs:264-304).                       *)
(***************************************************************************)
THEOREM Echoed == Spec => []OriginsAreEchoed
  <1>1. Init => EchoInv
    BY DEF Init, EchoInv
  <1>2. EchoInv => OriginsAreEchoed
    BY DEF EchoInv, OriginsAreEchoed, Named
  <1> QED
    BY <1>1, <1>2, NextEcho, Invariant, PTL DEF Spec

=============================================================================

------------------------------ MODULE QueryApi ------------------------------
(***************************************************************************)
(* The HTTP surface of duckdb-query-api: how the process gets its          *)
(* configuration, the REST routes, and the MCP endpoint with its gate in   *)
(* front of the sessions that the library rmcp keeps.  A query itself is a *)
(* step of unknown length here; QueryEngine looks into it.                 *)
(***************************************************************************)
EXTENDS QueryRequest

CONSTANTS
    Request,      \* HTTP requests
    Session,      \* ids of MCP sessions
    Origin,       \* values of the Origin header
    Token,        \* bearer tokens
    Blank,        \* the value of a variable that only has blanks
    Environment,  \* environment variables, as deployed
    Message,      \* requests a client can make
    Clock         \* values of Utc::now()

(* MCP_ALLOWED_ORIGINS is a set here, empty when it has nothing but commas *)
(* and blanks.  MCP_ENABLED is what it parses to.                          *)
ASSUME EnvironmentAssumption ==
    Environment \subseteq [events_path : BOOLEAN, mcp_enabled : BOOLEAN,
                           token : Token \cup {Absent, Blank},
                           origins : (SUBSET Origin) \cup {Absent}]

Method == {"OPTIONS", "GET", "POST", "DELETE"}

ASSUME MessageAssumption ==
    \A m \in Message :
        /\ m.path \in {"health", "metric", "mcp"}
        /\ m.path = "mcp" => /\ m.method \in Method
                             /\ m.origin \in Origin \cup {Absent}
                             /\ m.token \in Token \cup {Absent}
                             /\ m.call \in {"initialize", "tool", "other"}
                             /\ m.session \in Session \cup {Absent}
        /\ m.path = "metric" \/ (m.path = "mcp" /\ m.call = "tool")
             => /\ m.metric \in Metric
                /\ m.params.from \in (MinInt .. MaxInt) \cup {Absent}
                /\ m.params.to \in (MinInt .. MaxInt) \cup {Absent}
                /\ m.params.limit \in Nat \cup {Absent}

Config == [mcp_enabled : BOOLEAN, token : Token \cup {Absent}, origins : SUBSET Origin]

ASSUME AbsentAssumption ==
    /\ Absent \notin Int \cup Origin \cup Token \cup Session \cup Message \cup Config
    /\ Blank \notin Token \cup {Absent}
    /\ Clock \subseteq Int

VARIABLES
    env,        \* the variables that the next start will read
    service,    \* the process: down, bound or serving
    config,     \* its AppConfig
    sessions,   \* what became of each session id
    message,    \* each request
    query,      \* the query it is waiting for
    answer      \* the answer to it

process == <<service, config>>
vars == <<env, process, sessions, message, query, answer>>

Outcome == {"healthy", "not found", "forbidden", "unauthorized", "preflight", "opened", "listed",
            "closed", "refused", "invalid", "rows", "error", "reset"}

Answer == [status : Outcome, cors : Origin \cup {Absent}]

QueryParameters == [from : Int, to : Int, limit : Nat, unit : Unit]

TypeOK ==
    /\ env \in Environment
    /\ service \in {"down", "bound", "serving"}
    /\ config \in Config \cup {Absent}
    /\ sessions \in [Session -> {"unused", "open", "over"}]
    /\ message \in [Request -> Message \cup {Absent}]
    /\ query \in [Request -> QueryParameters \cup {Absent}]
    /\ answer \in [Request -> Answer \cup {Absent}]

-----------------------------------------------------------------------------
(* Configuration                                                           *)

Set(value) == value \notin {Absent, Blank}

Origins(value) == IF value = Absent THEN {} ELSE value

\* A variant that keeps a blank token of an MCP that is switched off.
FromEnvBlank(e) == [mcp_enabled |-> e.mcp_enabled,
                    token |-> e.token,
                    origins |-> Origins(e.origins)]

FromEnv(e) == [mcp_enabled |-> e.mcp_enabled,
               token |-> IF Set(e.token) THEN e.token ELSE Absent,
               origins |-> Origins(e.origins)]

\* A variant that only looks whether the variable is there.
AcceptedIfPresent(e) ==
    /\ e.events_path
    /\ e.mcp_enabled => Set(e.token) /\ e.origins # Absent

(* AppConfig::from_env does not fail.                                      *)
Accepted(e) ==
    /\ e.events_path
    /\ e.mcp_enabled => Set(e.token) /\ Origins(e.origins) # {}

(* AppConfig::mcp_config does not fail.                                    *)
Mountable(c) == c.mcp_enabled => Set(c.token) /\ c.origins # {}

Deploy(e) == /\ e # env
             /\ env' = e
             /\ UNCHANGED <<process, sessions, message, query, answer>>

Bind == /\ service = "down"
        /\ Accepted(env)
        /\ service' = "bound"
        /\ config' = FromEnv(env)
        /\ UNCHANGED <<env, sessions, message, query, answer>>

Serve == /\ service = "bound"
         /\ Mountable(config)
         /\ service' = "serving"
         /\ UNCHANGED <<env, config, sessions, message, query, answer>>

Waiting(r) == message[r] # Absent /\ answer[r] = Absent

(* The process ends, with its sessions and connections.                    *)
Exit == /\ service # "down"
        /\ service' = "down"
        /\ config' = Absent
        /\ sessions' = [s \in Session |-> IF sessions[s] = "open" THEN "over" ELSE sessions[s]]
        /\ query' = [r \in Request |-> Absent]
        /\ answer' = [r \in Request |-> IF Waiting(r) THEN [status |-> "reset", cors |-> Absent]
                                                      ELSE answer[r]]
        /\ UNCHANGED <<env, message>>

(* A client sends a request, at the earliest when the port is bound.       *)
Send(r, m) == /\ service # "down"
              /\ message[r] = Absent
              /\ message' = [message EXCEPT ![r] = m]
              /\ UNCHANGED <<env, process, sessions, query, answer>>

-----------------------------------------------------------------------------
(* The gate                                                                *)

Reply(r, status, cors) ==
    /\ answer' = [answer EXCEPT ![r] = [status |-> status, cors |-> cors]]
    /\ query' = [query EXCEPT ![r] = Absent]
    /\ UNCHANGED <<env, process, message>>

Pending(r) == service = "serving" /\ Waiting(r) /\ query[r] = Absent

Health(r) == /\ Pending(r)
             /\ message[r].path = "health"
             /\ Reply(r, "healthy", Absent)
             /\ UNCHANGED sessions

(* /mcp is not mounted.                                                    *)
NotFound(r) == /\ Pending(r)
               /\ message[r].path = "mcp"
               /\ ~config.mcp_enabled
               /\ Reply(r, "not found", Absent)
               /\ UNCHANGED sessions

AllowedOrigin(r) == message[r].origin \in config.origins

Gated(r) == Pending(r) /\ message[r].path = "mcp" /\ config.mcp_enabled

Forbidden(r) == /\ Gated(r)
                /\ ~AllowedOrigin(r)
                /\ Reply(r, "forbidden", Absent)
                /\ UNCHANGED sessions

Preflight(r) == /\ Gated(r)
                /\ AllowedOrigin(r)
                /\ message[r].method = "OPTIONS"
                /\ Reply(r, "preflight", message[r].origin)
                /\ UNCHANGED sessions

\* A variant that asks for the token once per session.
AuthorizedBySession(r) ==
    message[r].token = config.token \/ message[r].session # Absent

Authorized(r) == message[r].token = config.token

\* A variant that does not let the client read why.
UnauthorizedPlain(r) == /\ Gated(r)
                        /\ AllowedOrigin(r)
                        /\ message[r].method # "OPTIONS"
                        /\ ~Authorized(r)
                        /\ Reply(r, "unauthorized", Absent)
                        /\ UNCHANGED sessions

Unauthorized(r) == /\ Gated(r)
                   /\ AllowedOrigin(r)
                   /\ message[r].method # "OPTIONS"
                   /\ ~Authorized(r)
                   /\ Reply(r, "unauthorized", message[r].origin)
                   /\ UNCHANGED sessions

Admitted(r) == /\ Gated(r)
               /\ AllowedOrigin(r)
               /\ message[r].method # "OPTIONS"
               /\ Authorized(r)

-----------------------------------------------------------------------------
(* The sessions of rmcp                                                    *)

Opening(r) == /\ message[r].method = "POST"
              /\ message[r].call = "initialize"
              /\ message[r].session = Absent

InSession(r) == message[r].session # Absent /\ sessions[message[r].session] = "open"

Initialize(r, s) == /\ Admitted(r)
                    /\ Opening(r)
                    /\ sessions[s] = "unused"
                    /\ sessions' = [sessions EXCEPT ![s] = "open"]
                    /\ Reply(r, "opened", message[r].origin)

(* For its session, its headers or its host.                               *)
RefusedByRmcp(r) == /\ Admitted(r)
                    /\ Reply(r, "refused", message[r].origin)
                    /\ UNCHANGED sessions

CloseSession(r) == /\ Admitted(r)
                   /\ InSession(r)
                   /\ message[r].method = "DELETE"
                   /\ sessions' = [sessions EXCEPT ![message[r].session] = "over"]
                   /\ Reply(r, "closed", message[r].origin)

(* A stream of events, tools/list, a notification.                         *)
OtherCall(r) == /\ Admitted(r)
                /\ InSession(r)
                /\ \/ message[r].method = "GET"
                   \/ message[r].method = "POST" /\ message[r].call # "tool"
                /\ Reply(r, "listed", message[r].origin)
                /\ UNCHANGED sessions

(* rmcp closes a session that is idle.                                     *)
Expire(s) == /\ service = "serving"
             /\ sessions[s] = "open"
             /\ sessions' = [sessions EXCEPT ![s] = "over"]
             /\ UNCHANGED <<env, process, message, query, answer>>

-----------------------------------------------------------------------------
(* Metrics, over REST or as MCP tools                                      *)

Route(r) == Pending(r) /\ message[r].path = "metric"

Tool(r) == /\ Admitted(r)
           /\ InSession(r)
           /\ message[r].method = "POST"
           /\ message[r].call = "tool"

Cors(r) == IF message[r].path = "mcp" THEN message[r].origin ELSE Absent

Reject(r, now) == /\ Route(r) \/ Tool(r)
                  /\ Query(message[r].metric, message[r].params, now) = Invalid
                  /\ Reply(r, "invalid", Cors(r))
                  /\ UNCHANGED sessions

Ask(r, now) == /\ Route(r) \/ Tool(r)
               /\ Query(message[r].metric, message[r].params, now) # Invalid
               /\ query' = [query EXCEPT ![r] = Query(message[r].metric, message[r].params, now)]
               /\ UNCHANGED <<env, process, sessions, message, answer>>

(* DuckDbEngine::query is over.                                            *)
Conclude(r, status) == /\ query[r] # Absent
                       /\ Reply(r, status, Cors(r))
                       /\ UNCHANGED sessions

(* The connection is lost, or the session a tool runs in.                  *)
Disconnect(r) == /\ Waiting(r)
                 /\ Reply(r, "reset", Absent)
                 /\ UNCHANGED sessions

-----------------------------------------------------------------------------

Init == /\ env \in Environment
        /\ service = "down"
        /\ config = Absent
        /\ sessions = [s \in Session |-> "unused"]
        /\ message = [r \in Request |-> Absent]
        /\ query = [r \in Request |-> Absent]
        /\ answer = [r \in Request |-> Absent]

Handle(r) ==
    \/ Health(r) \/ NotFound(r) \/ Forbidden(r) \/ Preflight(r) \/ Unauthorized(r)
    \/ RefusedByRmcp(r) \/ CloseSession(r) \/ OtherCall(r) \/ Disconnect(r)
    \/ \E s \in Session : Initialize(r, s)
    \/ \E now \in Clock : Reject(r, now) \/ Ask(r, now)
    \/ \E status \in {"rows", "error"} : Conclude(r, status)

Next == \/ \E e \in Environment : Deploy(e)
        \/ Bind \/ Serve \/ Exit
        \/ \E s \in Session : Expire(s)
        \/ \E r \in Request : Handle(r) \/ \E m \in Message : Send(r, m)

Spec == Init /\ [][Next]_vars

-----------------------------------------------------------------------------
(* Properties                                                              *)

Entitled(r) == /\ config # Absent
               /\ message[r].origin \in config.origins
               /\ message[r].token = config.token

(***************************************************************************)
(* No caller, over either entry, makes a query too large                   *)
(* (validation.rs:45-88, routes.rs:77-176, mcp.rs:82-231).                 *)
(***************************************************************************)
QueriesAreBounded == \A r \in Request : query[r] # Absent => Bounded(query[r])

(***************************************************************************)
(* The two checks of the MCP settings agree: a process that has bound the  *)
(* port does not end because of them (config.rs:42-56 and 72-90,           *)
(* main.rs:12-17).                                                         *)
(***************************************************************************)
BoundIsMountable == service # "down" => Mountable(config)

(***************************************************************************)
(* The invariant: types, a mountable configuration, and behind every query *)
(* in progress a bounded range and, over MCP, a client entitled in this    *)
(* process, which has had no answer (main.rs:12-17, mcp.rs:259-284).       *)
(***************************************************************************)
RequestInv ==
    \A r \in Request : query[r] # Absent =>
        /\ service = "serving" /\ message[r] # Absent /\ answer[r] = Absent
        /\ Bounded(query[r])
        /\ message[r].path = "mcp" => Entitled(r)

ProcessInv == service # "down" => config # Absent /\ Mountable(config)

IInv == TypeOK /\ ProcessInv /\ RequestInv

(***************************************************************************)
(* A browser may read exactly what is meant for an allowed origin, errors  *)
(* included: every answer behind the origin check names the origin, and    *)
(* no answer names one that was not sent (mcp.rs:264-304).                 *)
(***************************************************************************)
OriginsAreEchoed ==
    \A r \in Request : answer[r] # Absent =>
        IF message[r].path = "mcp"
               /\ answer[r].status \notin {"reset", "not found", "forbidden"}
        THEN answer[r].cors = message[r].origin /\ message[r].origin # Absent
        ELSE answer[r].cors = Absent

(***************************************************************************)
(* Behind the gate nothing happens for a request without the token and an  *)
(* allowed origin of the process that serves it, in whatever session it    *)
(* claims to be, whichever token an earlier process had: no session is     *)
(* opened or closed, no tool is run and no answer comes from behind        *)
(* (mcp.rs:259-284).                                                       *)
(***************************************************************************)
Behind == {"opened", "listed", "closed", "refused", "invalid", "rows", "error"}

OnlyThroughTheGate ==
    [][\A r \in Request : message[r] # Absent /\ message[r].path = "mcp" =>
           /\ query'[r] # Absent => Entitled(r)
           /\ answer'[r] # answer[r] /\ answer'[r].status \in Behind => Entitled(r)]_vars

=============================================================================

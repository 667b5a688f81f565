----------------------------- MODULE MCQueryApi -----------------------------
(***************************************************************************)
(* QueryApi for TLC: integers of six bits, days of two ticks, ranges of at *)
(* most three days.                                                        *)
(***************************************************************************)
EXTENDS QueryApi, TLC

CONSTANTS s1, r1, r2

MCMinInt == -32

MCMinTime == -20

Mcp(method, origin, token, call, session) ==
    [path |-> "mcp", method |-> method, origin |-> origin, token |-> token, call |-> call,
     session |-> session, metric |-> "limit",
     params |-> [from |-> Absent, to |-> Absent, limit |-> Absent, unit |-> Absent]]

\* From pages of two origins, with the token of today, that of yesterday or none.
MCMcpMessages ==
    { Mcp("OPTIONS", "app", Absent, "other", Absent),
      Mcp("POST", "app", "old", "initialize", Absent),
      Mcp("POST", "app", "new", "initialize", Absent),
      Mcp("POST", "other", "new", "initialize", Absent),
      Mcp("POST", Absent, "new", "tool", s1),
      [Mcp("POST", "app", "new", "tool", s1) EXCEPT !.params.limit = 0] }
    \cup {Mcp(method, "app", token, call, s) :
             method \in {"GET", "POST", "DELETE"}, token \in {"old", "new", Absent},
             call \in {"tool", "other"}, s \in {s1}}

Rest(metric, from, to, limit, unit) ==
    [path |-> "metric", metric |-> metric,
     params |-> [from |-> from, to |-> to, limit |-> limit, unit |-> unit]]

\* Both ends of the integers, of chrono's times and of the longest range.
MCTimes == {-32, -20, 0, 1, 6, 7, 31, Absent}

MCMetricMessages ==
    {Rest("range", from, to, Absent, Absent) : from, to \in MCTimes}
    \cup {Rest("limit", 0, 1, limit, Absent) : limit \in {0, 1, 3, 4, Absent}}
    \cup {Rest("unit", 0, 1, Absent, unit) : unit \in {"hours", "weeks", Absent}}
    \cup {[path |-> "health"]}

Env(mcp, token, origins) ==
    [events_path |-> TRUE, mcp_enabled |-> mcp, token |-> token, origins |-> origins]

MCEnvironments ==
    { Env(TRUE, "old", {"app"}), Env(TRUE, "new", {"app"}), Env(FALSE, Blank, Absent),
      Env(TRUE, "old", {}), Env(TRUE, Blank, {"app"}) }

MCMessages == MCMcpMessages \cup MCMetricMessages

Symmetry == Permutations(Request)

=============================================================================

-------------------------------- MODULE Routes --------------------------------
(***************************************************************************)
(* The routes of the server (src/src/api/routes.rs), the permission each   *)
(* asks for (src/src/api/middleware.rs) and the calls of the client SDK    *)
(* (src/crates/orderbook-client/src/client.rs), which know nothing of each *)
(* other: two lists of verbs and paths that have to agree, and a rule that *)
(* reads a permission off a path.  What Access says of kinds of requests is*)
(* said here of each route.                                                *)
(*                                                                         *)
(* A path is a sequence of segments, a segment the pieces a value has      *)
(* between its slashes: <<"orders">> is a plain one, <<"A", "B">> is what  *)
(* "A/B" is encoded as.                                                    *)
(***************************************************************************)
EXTENDS Access, Naturals, Sequences

CONSTANTS
    Names,    \* what a client puts for a symbol, a date, a style
    Ids       \* ids the server gives out: none is spelled like a route

S(name) == << <<name>> >>
Param == <<>>
P == <<Param>>

-----------------------------------------------------------------------------
(* The server.                                                             *)

Api == S("api") \o S("v1")
R(verb, path, handler) == [verb |-> verb, path |-> path, handler |-> handler]

OpenRoutes ==
    { R("GET", S("health"), "health_check"),
      R("GET", S("ws"), "ws_handler"),
      R("GET", Api \o S("stats"), "get_global_stats"),
      R("POST", Api \o S("auth") \o S("token"), "issue_token") }

ControlRoutes ==
    LET base == Api \o S("controls")
    IN  { R("GET", base, "get_controls"),
          R("POST", base \o S("kill-switch"), "kill_switch"),
          R("POST", base \o S("enable"), "enable_quoting"),
          R("POST", base \o S("parameters"), "update_parameters"),
          R("GET", base \o S("instruments"), "list_instruments"),
          R("POST", base \o S("instrument") \o P \o S("toggle"), "toggle_instrument") }

PriceRoutes ==
    LET base == Api \o S("prices")
    IN  { R("GET", base, "get_all_prices"),
          R("POST", base, "insert_price"),
          R("GET", base \o P, "get_latest_price") }

UnderlyingRoutes ==
    LET all == Api \o S("underlyings")
        underlying == all \o P
        expiration == underlying \o S("expirations") \o P
        strike == expiration \o S("strikes") \o P
    IN  { R("GET", all, "list_underlyings"),
          R("POST", underlying, "create_underlying"),
          R("GET", underlying, "get_underlying"),
          R("DELETE", underlying, "delete_underlying"),
          R("GET", underlying \o S("expirations"), "list_expirations"),
          R("POST", expiration, "create_expiration"),
          R("GET", expiration, "get_expiration"),
          R("GET", underlying \o S("volatility-surface"), "get_volatility_surface"),
          R("GET", expiration \o S("chain"), "get_option_chain"),
          R("GET", expiration \o S("strikes"), "list_strikes"),
          R("POST", strike, "create_strike"),
          R("GET", strike, "get_strike") }

OptionRoutes ==
    LET option == Api \o S("underlyings") \o P \o S("expirations") \o P \o S("strikes") \o P
                    \o S("options") \o P
        orders == option \o S("orders")
    IN  { R("GET", option, "get_option_book"),
          R("POST", orders, "add_order"),
          R("POST", orders \o S("market"), "submit_market_order"),
          R("DELETE", orders \o P, "cancel_order"),
          R("PATCH", orders \o P, "modify_order"),
          R("GET", option \o S("quote"), "get_option_quote"),
          R("GET", option \o S("greeks"), "get_option_greeks"),
          R("GET", option \o S("snapshot"), "get_option_snapshot"),
          R("GET", option \o S("last-trade"), "get_last_trade"),
          R("GET", option \o S("ohlc"), "get_ohlc"),
          R("GET", option \o S("metrics"), "get_orderbook_metrics") }

QueryRoutes ==
    LET orders == Api \o S("orders")
    IN  { R("GET", orders, "list_orders"),
          R("GET", orders \o P, "get_order_status"),
          R("POST", orders \o S("bulk"), "bulk_submit_orders"),
          R("DELETE", orders \o S("bulk"), "bulk_cancel_orders"),
          R("DELETE", orders \o S("cancel-all"), "cancel_all_orders"),
          R("GET", Api \o S("positions"), "list_positions"),
          R("GET", Api \o S("positions") \o P, "get_position"),
          R("GET", Api \o S("executions"), "list_executions"),
          R("GET", Api \o S("executions") \o P, "get_execution") }

AdminRoutes ==
    LET snapshots == Api \o S("admin") \o S("snapshots")
    IN  { R("POST", Api \o S("admin") \o S("snapshot"), "create_snapshot"),
          R("GET", snapshots, "list_snapshots"),
          R("GET", snapshots \o P, "get_snapshot"),
          R("POST", snapshots \o P \o S("restore"), "restore_snapshot") }

AllRoutes ==
    OpenRoutes \cup ControlRoutes \cup PriceRoutes \cup UnderlyingRoutes \cup OptionRoutes
      \cup QueryRoutes \cup AdminRoutes

\* The router: a plain segment goes before a parameter, whatever its verbs.
Fits(pattern, path) ==
    /\ Len(pattern) = Len(path)
    /\ \A i \in 1..Len(path) : pattern[i] \in {Param, path[i]}

Before(p, q) ==
    \A i \in 1..Len(p) : p[i] # q[i] => p[i] # Param \/ \E j \in 1..i - 1 : p[j] # q[j]

Dispatched(verb, path) ==
    {r.handler : r \in {s \in AllRoutes :
        /\ s.verb = verb
        /\ Fits(s.path, path)
        /\ \A q \in AllRoutes : Fits(q.path, path) => Before(s.path, q.path)}}

Under(path, base) == Len(path) >= Len(base) /\ SubSeq(path, 1, Len(base)) = base

IsUnderlyingRoot(path) == Len(path) = 4 /\ Under(path, Api \o S("underlyings"))

\* required_permission, which sees the path and not the route.
PermissionOf(verb, path) ==
    IF Under(path, Api \o S("controls")) \/ Under(path, Api \o S("admin")) THEN "Admin"
    ELSE IF verb = "DELETE" /\ IsUnderlyingRoot(path) THEN "Admin"
    ELSE IF verb = "GET" THEN "Read"
    ELSE "Trade"

\* The kind Access knows a request by.
KindOf(r) ==
    CASE r.handler = "health_check" -> "health"
      [] r.handler = "issue_token" -> "token"
      [] r.handler = "ws_handler" -> "ws"
      [] r.handler = "kill_switch" -> "kill"
      [] r.handler = "enable_quoting" -> "enable"
      [] r.handler = "delete_underlying" -> "drop"
      [] r \in (ControlRoutes \cup AdminRoutes)
           /\ r.handler \notin {"kill_switch", "enable_quoting"} -> "parameters"
      [] r \in (OpenRoutes \cup PriceRoutes \cup UnderlyingRoutes \cup OptionRoutes
                  \cup QueryRoutes)
           /\ r.handler \notin {"health_check", "issue_token", "ws_handler", "delete_underlying"}
           -> IF r.verb = "GET" THEN "read" ELSE "trade"

-----------------------------------------------------------------------------
(* The client SDK.                                                         *)

\* A value is one segment whatever slashes it has; a strike is a number.
EncodeSegment(value) == <<value>>
Number == S("100")
C(name, verb, path) == [name |-> name, verb |-> verb, path |-> path]

PlainCalls ==
    { C("health_check", "GET", S("health")),
      C("get_global_stats", "GET", Api \o S("stats")),
      C("list_underlyings", "GET", Api \o S("underlyings")) }

\* The URL WsClient connects to.
WsUrl == C("ws_handler", "GET", S("ws"))

\* What names an underlying, an expiration or a strike.
ChainCalls(u, e) ==
    LET underlying == Api \o S("underlyings") \o EncodeSegment(u)
        expiration == underlying \o S("expirations") \o EncodeSegment(e)
        strike == expiration \o S("strikes") \o Number
    IN  { C("create_underlying", "POST", underlying),
          C("get_underlying", "GET", underlying),
          C("delete_underlying", "DELETE", underlying),
          C("list_expirations", "GET", underlying \o S("expirations")),
          C("create_expiration", "POST", expiration),
          C("get_expiration", "GET", expiration),
          C("list_strikes", "GET", expiration \o S("strikes")),
          C("create_strike", "POST", strike),
          C("get_strike", "GET", strike) }

OptionBase(u, e, style) ==
    Api \o S("underlyings") \o EncodeSegment(u) \o S("expirations") \o EncodeSegment(e)
      \o S("strikes") \o Number \o S("options") \o EncodeSegment(style)

OrderCalls(base, id) ==
    { C("get_option_book", "GET", base),
      C("get_option_quote", "GET", base \o S("quote")),
      C("add_order", "POST", base \o S("orders")),
      C("submit_market_order", "POST", base \o S("orders") \o S("market")),
      C("cancel_order", "DELETE", base \o S("orders") \o EncodeSegment(id)),
      C("get_option_snapshot", "GET", base \o S("snapshot")) }

ControlCalls(symbol) ==
    { C("get_controls", "GET", Api \o S("controls")),
      C("kill_switch", "POST", Api \o S("controls") \o S("kill-switch")),
      C("enable_quoting", "POST", Api \o S("controls") \o S("enable")),
      C("update_parameters", "POST", Api \o S("controls") \o S("parameters")),
      C("list_instruments", "GET", Api \o S("controls") \o S("instruments")),
      C("toggle_instrument", "POST",
        Api \o S("controls") \o S("instrument") \o EncodeSegment(symbol) \o S("toggle")) }

PriceCalls(symbol) ==
    { C("insert_price", "POST", Api \o S("prices")),
      C("get_latest_price", "GET", Api \o S("prices") \o EncodeSegment(symbol)),
      C("get_all_prices", "GET", Api \o S("prices")),
      C("issue_token", "POST", Api \o S("auth") \o S("token")) }

RecordCalls(symbol, id) ==
    { C("list_executions", "GET", Api \o S("executions")),
      C("get_execution", "GET", Api \o S("executions") \o EncodeSegment(id)),
      C("list_positions", "GET", Api \o S("positions")),
      C("get_position", "GET", Api \o S("positions") \o EncodeSegment(symbol)) }

SnapshotCalls(id) ==
    LET snapshots == Api \o S("admin") \o S("snapshots")
    IN  { C("create_snapshot", "POST", Api \o S("admin") \o S("snapshot")),
          C("list_snapshots", "GET", snapshots),
          C("get_snapshot", "GET", snapshots \o EncodeSegment(id)),
          C("restore_snapshot", "POST", snapshots \o EncodeSegment(id) \o S("restore")) }

BulkCalls(base, id) ==
    LET orders == Api \o S("orders")
    IN  { C("list_orders", "GET", orders),
          C("get_order_status", "GET", orders \o EncodeSegment(id)),
          C("modify_order", "PATCH", base \o S("orders") \o EncodeSegment(id)),
          C("bulk_submit_orders", "POST", orders \o S("bulk")),
          C("bulk_cancel_orders", "DELETE", orders \o S("bulk")),
          C("cancel_all_orders", "DELETE", orders \o S("cancel-all")) }

MarketDataCalls(base, u, e) ==
    LET underlying == Api \o S("underlyings") \o EncodeSegment(u)
    IN  { C("get_option_greeks", "GET", base \o S("greeks")),
          C("get_last_trade", "GET", base \o S("last-trade")),
          C("get_ohlc", "GET", base \o S("ohlc")),
          C("get_orderbook_metrics", "GET", base \o S("metrics")),
          C("get_volatility_surface", "GET", underlying \o S("volatility-surface")),
          C("get_option_chain", "GET",
            underlying \o S("expirations") \o EncodeSegment(e) \o S("chain")) }

Calls(u, e, style, id) ==
    LET base == OptionBase(u, e, style)
    IN  PlainCalls \cup {WsUrl} \cup ChainCalls(u, e) \cup OrderCalls(base, id) \cup ControlCalls(u)
          \cup PriceCalls(u) \cup RecordCalls(u, id) \cup SnapshotCalls(id)
          \cup BulkCalls(base, id) \cup MarketDataCalls(base, u, e)

-----------------------------------------------------------------------------
\* Whatever a client names, be it spelled like a route or with a slash in it,
\* each call of the SDK reaches the handler it is named for, and that alone.
ASSUME CallsAreRouted ==
    \A u, e, style \in Names, id \in Ids : \A c \in Calls(u, e, style, id) :
      Dispatched(c.verb, c.path) = {c.name}

\* Each route has its call.
ASSUME RoutesAreCalled ==
    \A u, e, style \in Names, id \in Ids :
      {r.handler : r \in AllRoutes} = {c.name : c \in Calls(u, e, style, id)}

\* What required_permission reads off the path a client sent is what Access says
\* of the kind of the route that path is dispatched to.
ASSUME PermissionsAgree ==
    \A u, e, style \in Names, id \in Ids : \A c \in Calls(u, e, style, id), r \in AllRoutes :
      Dispatched(c.verb, c.path) = {r.handler} /\ KindOf(r) \notin {"health", "token"}
        => PermissionOf(c.verb, c.path) = RequiredPermission(KindOf(r))
=============================================================================

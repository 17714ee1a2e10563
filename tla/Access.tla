-------------------------------- MODULE Access --------------------------------
(***************************************************************************)
(* Who may do what: the middleware every HTTP request passes               *)
(* (src/src/api/middleware.rs), the tokens it verifies                     *)
(* (src/src/auth.rs), the endpoint that issues them and the handlers of the*)
(* engine's master switch (src/src/api/controls.rs).                       *)
(*                                                                         *)
(* A request that is refused, for its token (401), by the limiter (429,    *)
(* RateLimiter says when) or for its permission (403), leaves no trace     *)
(* here.  Of time only that a token expires.                               *)
(***************************************************************************)
EXTENDS FiniteSets

CONSTANTS
    Requests,    \* HTTP requests served at the same time
    Subjects,    \* the `sub' of tokens: random, one per token
    Kinds,       \* what requests ask for, as far as the middleware tells
    Permissions, \* Subjects -> the permissions of its token
    Nobody       \* the bearer of no token, of a forged or a malformed one

Controls == {"kill", "enable", "drop", "parameters"}

ASSUME KindsAssumption == Kinds \subseteq {"health", "token", "read", "ws", "trade"} \cup Controls
ASSUME PermissionsAssumption ==
    /\ Permissions \in [Subjects -> SUBSET {"Read", "Trade", "Admin"}]
    /\ Nobody \notin Subjects

VARIABLES
    token,       \* Subjects -> "none", "live" or "expired" (leeway included)
    request,     \* Requests -> what its handler does, and for whom
    enabled,     \* the master switch of the market maker
    phase        \* main.rs: serving, draining, joining or down

accessVars == <<token, request, enabled, phase>>

Free == [kind |-> "none", sub |-> Nobody]

AccessInit ==
    /\ token = [u \in Subjects |-> "none"]
    /\ request = [r \in Requests |-> Free]
    /\ enabled = TRUE
    /\ phase = "serving"

-----------------------------------------------------------------------------
\* Mutant: the controls are protected as any other mutation is.
RequiredPermissionByMethod(kind) ==
    IF kind \in {"read", "ws"} THEN "Read" ELSE "Trade"

\* The controls and the deletion of an underlying need Admin even to read.
RequiredPermission(kind) ==
    IF kind \in Controls THEN "Admin"
    ELSE IF kind \in {"read", "ws"} THEN "Read" ELSE "Trade"

HasPermission(u, p) == Permissions[u] \cap {p, "Admin"} # {}

\* The signature, the issuer and the expiry of the token all hold, and its
\* permissions cover what is asked for.
Allowed(u, kind) == token[u] = "live" /\ HasPermission(u, RequiredPermission(kind))

\* A request passes the middleware, which awaits nothing.  Health checks are
\* open, and who asks for a token has none.
Admit(r) ==
    /\ phase = "serving"
    /\ request[r] = Free
    /\ \/ \E kind \in Kinds \cap {"health", "token"} :
            request' = [request EXCEPT ![r] = [kind |-> kind, sub |-> Nobody]]
       \/ \E u \in Subjects, kind \in Kinds \ {"health", "token"} :
            /\ Allowed(u, kind)
            /\ request' = [request EXCEPT ![r] = [kind |-> kind, sub |-> u]]
    /\ UNCHANGED <<token, enabled, phase>>

Answered(r) == request' = [request EXCEPT ![r] = Free]

-----------------------------------------------------------------------------
Handling(r, kind) == request[r].kind = kind

\* Handlers whose effect other modules describe.
Serve(r) ==
    /\ \E kind \in {"health", "read", "trade", "drop", "parameters"} : Handling(r, kind)
    /\ Answered(r)
    /\ UNCHANGED <<token, enabled, phase>>

\* issue_token: to who knows the bootstrap secret, under a subject of its own.
IssueToken(r) ==
    /\ Handling(r, "token")
    /\ \E u \in Subjects : token[u] = "none" /\ token' = [token EXCEPT ![u] = "live"]
    /\ Answered(r)
    /\ UNCHANGED <<enabled, phase>>

\* Issuing is disabled, the secret is wrong, no permission is asked for or the
\* lifetime overflows.
IssueNothing(r) ==
    /\ Handling(r, "token")
    /\ Answered(r)
    /\ UNCHANGED <<token, enabled, phase>>

KillSwitch(r) ==
    /\ Handling(r, "kill")
    /\ enabled' = FALSE
    /\ Answered(r)
    /\ UNCHANGED <<token, phase>>

EnableQuoting(r) ==
    /\ Handling(r, "enable")
    /\ enabled' = TRUE
    /\ Answered(r)
    /\ UNCHANGED <<token, phase>>

\* exp, and the leeway after it, go by.
Expire(u) ==
    /\ token[u] = "live"
    /\ token' = [token EXCEPT ![u] = "expired"]
    /\ UNCHANGED <<request, enabled, phase>>

\* A handler answers, but for that of an upgrade.
Handle(r) ==
    \/ Serve(r) \/ IssueToken(r) \/ IssueNothing(r) \/ KillSwitch(r) \/ EnableQuoting(r)

AccessTypeOK ==
    /\ token \in [Subjects -> {"none", "live", "expired"}]
    /\ request \in [Requests -> [kind : Kinds \cup {"none"}, sub : Subjects \cup {Nobody}]]
    /\ enabled \in BOOLEAN
    /\ phase \in {"serving", "draining", "joining", "down"}
=============================================================================

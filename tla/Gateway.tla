------------------------------ MODULE Gateway ------------------------------
(***************************************************************************)
(* The gateway: the sliding-window limiter every API call passes           *)
(* (main.py), the tokens of auth.py and the roles each route asks for.     *)
(*                                                                         *)
(* Time is counted in ticks; a login is shorter than one. The body of a    *)
(* call is read between the limiter and the check of its token, so ticks   *)
(* and other calls come between the two.                                   *)
(***************************************************************************)
EXTENDS Integers, Sequences, FiniteSets, FiniteSetsExt

CONSTANTS
    Client,     \* addresses callers come from
    User,
    Call,       \* API calls under way at a time
    Used,       \* the routes that are called
    RATE_LIMIT_PER_MIN,
    Minute,     \* the limiter's window, in ticks
    JWT_EXPIRY, \* in ticks
    MaxTime,    \* bound: ticks of a behaviour
    MaxUpsets,  \* bound: changes of a role and restarts in one
    None

ASSUME GatewayConstants ==
    /\ RATE_LIMIT_PER_MIN \in Nat \ {0} /\ Minute \in Nat \ {0}
    /\ JWT_EXPIRY \in Nat \ {0} /\ MaxTime \in Nat /\ MaxUpsets \in Nat

Role == {"admin", "operator", "auditor", "user"}
Time == 0 .. MaxTime

require_admin == {"admin"}
require_operator == {"admin", "operator"}
require_reader == {"admin", "operator", "auditor"}

AdminRoute == {"learning/queue", "learning/map"}

\* Operators upload, propose and carry out, control by control or for a whole run.
UploadRoute == {"upload"}
RemediationRoute == {"remediation/approve", "remediation/generate", "remediation/apply",
                     "remediation/rollback"}
BulkRoute == {"remediation/audit-runs/generate"}

\* Everyone else but a plain user reads.
RunRoute == {"audit-runs", "audit-runs/trust", "audit-runs/counterfactual",
             "audit-runs/topology", "reports/generate"}
FleetRoute == {"fleet-score", "mttr", "reachability-diff", "counterfactual",
               "executive-report", "provenance", "remediation/audit-runs"}
ReportRoute == {"reports/download", "reports/preview", "reports/json", "reports/cef"}

OperatorRoute == UploadRoute \cup RemediationRoute \cup BulkRoute
ReaderRoute == RunRoute \cup FleetRoute \cup ReportRoute

ASSUME UsedRoutes == Used \subseteq AdminRoute \cup OperatorRoute \cup ReaderRoute

allowed(route) ==
    IF route \in AdminRoute THEN require_admin
    ELSE IF route \in OperatorRoute THEN require_operator ELSE require_reader

VARIABLES
    now,
    users,            \* the role column of users
    tokens,           \* the tokens callers hold
    request_windows,  \* the times of the calls of a client that were let in
    call,             \* the calls; what they were let through with
    counted,          \* history: how many of a client's calls the process let in, by tick
    held,             \* history: the last tick in which a user had a role, or Never
    upsets            \* changes of a role and restarts so far

vars == <<now, users, tokens, request_windows, call, counted, held, upsets>>

Never == -JWT_EXPIRY

Unchecked(pc, route) ==
    [pc |-> pc, route |-> route, user |-> None, role |-> None, at |-> 0, held |-> 0]
Unused == Unchecked("idle", None)

Init ==
    /\ now = 0
    /\ users \in [User -> Role]
    /\ tokens = {}
    /\ request_windows = [c \in Client |-> << >>]
    /\ call = [q \in Call |-> Unused]
    /\ counted = [c \in Client |-> [t \in Time |-> 0]]
    /\ held = [u \in User |-> [r \in Role |-> IF r = users[u] THEN 0 ELSE Never]]
    /\ upsets = 0

tick ==
    /\ now < MaxTime
    /\ now' = now + 1
    /\ held' = [u \in User |-> [held[u] EXCEPT ![users[u]] = now + 1]]
    /\ UNCHANGED <<users, tokens, request_windows, call, counted, upsets>>

\* Somebody edits the table; tokens that were issued stay as they are.
change_role(u, r) ==
    /\ users' = [users EXCEPT ![u] = r]
    /\ upsets < MaxUpsets /\ upsets' = upsets + 1
    /\ held' = [held EXCEPT ![u][r] = now]
    /\ UNCHANGED <<now, tokens, request_windows, call, counted>>

-----------------------------------------------------------------------------
(* OperationalMiddleware.                                                  *)

\* MUTANT: a window that starts over when its first minute has passed.
starts_over(window) ==
    IF window # << >> /\ window[1] <= now - Minute THEN << >> ELSE window

\* Calls are dropped from the left, up to one that is less than a minute old.
expired(window) ==
    CHOOSE k \in 0 .. Len(window) :
        /\ \A i \in 1 .. k : window[i] <= now - Minute
        /\ k < Len(window) => window[k + 1] > now - Minute

slid(window) == SubSeq(window, expired(window) + 1, Len(window))

\* The client is counted in before anything else is known of the call.
let_in(c) ==
    LET window == slid(request_windows[c])
    IN  /\ Len(window) < RATE_LIMIT_PER_MIN
        /\ request_windows' = [request_windows EXCEPT ![c] = Append(window, now)]
        /\ counted' = [counted EXCEPT ![c][now] = @ + 1]

rate_limited(c) ==
    LET window == slid(request_windows[c])
    IN  /\ Len(window) >= RATE_LIMIT_PER_MIN
        /\ request_windows' = [request_windows EXCEPT ![c] = window]
        /\ UNCHANGED <<now, users, tokens, call, counted, held, upsets>>

-----------------------------------------------------------------------------
(* Login, and the calls that need a token.                                 *)

issue_token(u) == [user |-> u, role |-> users[u], exp |-> now + JWT_EXPIRY]

login(c, u) ==
    /\ let_in(c)
    /\ tokens' = tokens \cup {issue_token(u)}
    /\ UNCHANGED <<now, users, call, held, upsets>>

\* The password is wrong.
login_fails(c) ==
    /\ let_in(c)
    /\ UNCHANGED <<now, users, tokens, call, held, upsets>>

begin(q, c, route) ==
    /\ call[q].pc # "reading"
    /\ let_in(c)
    /\ call' = [call EXCEPT ![q] = Unchecked("reading", route)]
    /\ UNCHANGED <<now, users, tokens, held, upsets>>

\* MUTANT: the age of a token is not looked at.
undated == tokens

\* What jwt.decode does not refuse.
get_current_user == {k \in tokens : k.exp > now}

\* The dependency lets the call through, and the handler passes on who makes it.
forward(q) ==
    /\ call[q].pc = "reading"
    /\ \E k \in get_current_user :
         /\ k.role \in allowed(call[q].route)
         /\ call' = [call EXCEPT ![q].pc = "forwarded", ![q].user = k.user,
                                 ![q].role = k.role, ![q].at = now,
                                 ![q].held = held[k.user][k.role]]
    /\ UNCHANGED <<now, users, tokens, request_windows, counted, held, upsets>>

\* No token, or 401, or 403.
refuse(q) ==
    /\ call[q].pc = "reading"
    /\ call' = [call EXCEPT ![q] = Unused]
    /\ UNCHANGED <<now, users, tokens, request_windows, counted, held, upsets>>

\* The windows are in the memory of the process.
restart ==
    /\ upsets < MaxUpsets /\ upsets' = upsets + 1
    /\ request_windows' = [c \in Client |-> << >>]
    /\ counted' = [c \in Client |-> [t \in Time |-> 0]]
    /\ call' = [q \in Call |-> IF call[q].pc = "reading" THEN Unused ELSE call[q]]
    /\ UNCHANGED <<now, users, tokens, held>>

Next ==
    \/ tick \/ restart
    \/ \E u \in User, r \in Role : change_role(u, r)
    \/ \E c \in Client : rate_limited(c) \/ login_fails(c)
    \/ \E c \in Client, u \in User : login(c, u)
    \/ \E q \in Call, c \in Client, route \in Used : begin(q, c, route)
    \/ \E q \in Call : forward(q) \/ refuse(q)

Spec == Init /\ [][Next]_vars

-----------------------------------------------------------------------------
(* Properties.                                                             *)

\* However a client spreads its calls over the clock, no minute, wherever it starts, holds
\* more of them than the limit. A restart of the process forgets the calls before it.
RateIsBounded ==
    \A c \in Client, t \in Time :
        SumFunctionOnSet(counted[c], {s \in Time : t <= s /\ s < t + Minute})
            <= RATE_LIMIT_PER_MIN

\* A role that was taken from a user is good for one lifetime of a token at most: whoever is
\* let through to a service had the role he is let through for, a role the route asks for,
\* less than JWT_EXPIRY ago. The approval matrix trusts the role that is passed on.
RoleWasHeld ==
    \A q \in Call : call[q].pc = "forwarded" =>
        /\ call[q].role \in allowed(call[q].route)
        /\ call[q].at < call[q].held + JWT_EXPIRY

=============================================================================

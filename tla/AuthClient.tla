----------------------------- MODULE AuthClient -----------------------------
(***************************************************************************)
(* The session of one browser tab (frontend/src/api/client.ts, the auth    *)
(* store and its hooks) with the token service of RefreshTokens behind an  *)
(* unreliable network: requests answered 401, the refresh they share, the  *)
(* retry, logout, and reloading the page.                                  *)
(*                                                                         *)
(* The access token of a pair has the name of its refresh token; the       *)
(* server checks its expiry only, so a call that carries it is answered or *)
(* gets a 401.  JavaScript runs one handler at a time: a handler up to its *)
(* await, and what its promise wakes, is one step.  A message that is sent *)
(* may arrive late, or never; the client may give up on a call that the    *)
(* server still runs.                                                      *)
(***************************************************************************)
EXTENDS RefreshTokens

CONSTANT Call       \* bound: requests of the application at the same time

\* What /auth/refresh and /auth/logout are sent.
Message == [op : {"refresh", "logout"}, pair : Token]

ASSUME ClientAssumption == NULL \notin Req /\ NULL \notin Message

VARIABLES
    store,          \* the persisted pair (useAuthStore), or NULL
    stale,          \* pairs whose access token has expired
    calls,          \* requests made through the axios instance
    refreshing,     \* the shared promise: the refresh call, or NULL
    logout,         \* the logout call the page waits for, or NULL
    outbound,       \* messages to /auth/refresh and /auth/logout on their way
    crossed         \* a logout or a reload met a refresh that was under way

serverVars == <<tokens, pc, req, seen, reply>>
pageVars   == <<calls, refreshing, logout>>
clientVars == <<store, stale, calls, refreshing, logout, outbound, crossed>>
allVars    == <<tokens, pc, req, seen, reply, store, stale, calls, refreshing,
                logout, outbound, crossed>>

\* header is the pair whose access token the request carries, waits the
\* refresh it awaits.
CallRow == [stage : {"idle", "sent", "waiting"}, header : Token \cup {NULL},
            retried : BOOLEAN, waits : Req \cup {NULL}]

Quiet == [stage |-> "idle", header |-> NULL, retried |-> FALSE, waits |-> NULL]

ClientInit ==
    /\ Init
    /\ store = NULL /\ stale = {}
    /\ calls = [c \in Call |-> Quiet]
    /\ refreshing = NULL /\ logout = NULL
    /\ outbound = [r \in Req |-> NULL]
    /\ crossed = FALSE

-----------------------------------------------------------------------------
(* Messages and ids of calls.                                              *)

\* A call id nobody uses.
Free(r) == pc[r] = "idle" /\ outbound[r] = NULL

Awaited(r) == refreshing = r \/ logout = r \/ \E c \in Call : calls[c].waits = r

\* A call of this kind is on its way or runs at the server.
UnderWay(op) ==
    \E r \in Req : \/ outbound[r] # NULL /\ outbound[r].op = op
                   \/ pc[r] = "read" /\ req[r].op = op
                   \/ pc[r] \in {"done", "dropped"} /\ Awaited(r) /\ req[r].op = op

\* The request carries the pair of the store.
Post(r, op) ==
    /\ Free(r)
    /\ outbound' = [outbound EXCEPT ![r] = [op |-> op, pair |-> store]]

\* The id can be used again once the client is done with the call.
Recycle(r) ==
    /\ pc' = [pc EXCEPT ![r] = "idle"]
    /\ req' = [req EXCEPT ![r] = NULL]
    /\ reply' = [reply EXCEPT ![r] = NULL]
    /\ UNCHANGED <<tokens, seen>>

\* The server receives the message.  The logout endpoint needs a valid access
\* token as well (CurrentUser).
Arrive(r) ==
    LET m == outbound[r]
    IN  /\ m # NULL
        /\ m.op = "logout" => m.pair \notin stale
        /\ ReadToken(r, m.op, m.pair)
        /\ outbound' = [outbound EXCEPT ![r] = NULL]
        /\ UNCHANGED <<store, stale, pageVars, crossed>>

ServerStep(r) == CallStep(r) /\ UNCHANGED clientVars

\* A message or an answer nobody waits for goes away.
Forget(r) ==
    /\ ~Awaited(r)
    /\ pc[r] \in {"done", "dropped"} \/ (pc[r] = "idle" /\ outbound[r] # NULL)
    /\ Recycle(r)
    /\ outbound' = [outbound EXCEPT ![r] = NULL]
    /\ UNCHANGED <<store, stale, pageVars, crossed>>

\* ACCESS_TOKEN_EXPIRE_MINUTES pass, or REFRESH_TOKEN_EXPIRE_DAYS; the expiry
\* of a token that nobody carries makes no difference.
Carried(t) == t = store \/ \E c \in Call : calls[c].header = t

ExpireAccess(t) ==
    /\ t \in Issued \ stale
    /\ Carried(t)
    /\ stale' = stale \cup {t}
    /\ UNCHANGED <<serverVars, store, pageVars, outbound, crossed>>

ExpireRefresh(t) == t = store /\ Expire(t) /\ UNCHANGED clientVars

-----------------------------------------------------------------------------
(* Requests and the refresh they share.                                    *)

\* useLogin.
SignIn(u, t) ==
    /\ store = NULL
    /\ Login(u, t)
    /\ store' = t
    /\ UNCHANGED <<stale, calls, refreshing, logout, outbound, crossed>>

\* A request with the access token of the store (request interceptor).
Send(c) ==
    /\ store # NULL
    /\ calls[c].stage = "idle"
    /\ calls' = [calls EXCEPT ![c] = [Quiet EXCEPT !.stage = "sent", !.header = store]]
    /\ UNCHANGED <<serverVars, store, stale, refreshing, logout, outbound, crossed>>

\* get_current_user accepts the request, and the answer reaches the tab.
Served(c) ==
    /\ calls[c].stage = "sent" /\ calls[c].header \notin stale
    /\ calls' = [calls EXCEPT ![c] = Quiet]
    /\ UNCHANGED <<serverVars, store, stale, refreshing, logout, outbound, crossed>>

\* The 401 of a request reaches the response interceptor.
Unauthorized(c) == calls[c].stage = "sent" /\ calls[c].header \in stale

\* The request was retried already, or there is nothing to refresh with
\* (refreshAccessToken clears the store and throws).
GiveUp(c) ==
    /\ Unauthorized(c)
    /\ calls[c].retried \/ (refreshing = NULL /\ store = NULL)
    /\ calls' = [calls EXCEPT ![c] = Quiet]
    /\ UNCHANGED <<serverVars, store, stale, refreshing, logout, outbound, crossed>>

Waiting(c, r) ==
    calls' = [calls EXCEPT ![c] = [stage |-> "waiting", header |-> NULL,
                                   retried |-> TRUE, waits |-> r]]

\* A refresh is under way: its promise is shared.
Join(c) ==
    /\ Unauthorized(c) /\ ~calls[c].retried
    /\ refreshing # NULL
    /\ Waiting(c, refreshing)
    /\ UNCHANGED <<serverVars, store, stale, refreshing, logout, outbound, crossed>>

StartRefresh_Unshared(c, r) ==
    /\ Unauthorized(c) /\ ~calls[c].retried
    /\ store # NULL
    /\ Post(r, "refresh")
    /\ refreshing' = r
    /\ Waiting(c, r)
    /\ crossed' = (crossed \/ UnderWay("logout"))
    /\ UNCHANGED <<serverVars, store, stale, logout>>

\* None is: refreshAccessToken, up to its await.
StartRefresh(c, r) ==
    /\ Unauthorized(c) /\ ~calls[c].retried
    /\ refreshing = NULL /\ store # NULL
    /\ Post(r, "refresh")
    /\ refreshing' = r
    /\ Waiting(c, r)
    /\ crossed' = (crossed \/ UnderWay("logout"))
    /\ UNCHANGED <<serverVars, store, stale, logout>>

Wake_NoFinally(r, row) ==
    /\ refreshing' = refreshing
    /\ calls' = [c \in Call |-> IF calls[c].waits = r THEN row ELSE calls[c]]

\* The promise of refresh r settles: finally resets it, and the requests that
\* await it go on.
Wake(r, row) ==
    /\ refreshing' = NULL
    /\ calls' = [c \in Call |-> IF calls[c].waits = r THEN row ELSE calls[c]]

\* The new pair is stored and the requests are sent again with it.
RefreshSucceeds(r) ==
    /\ Awaited(r) /\ logout # r
    /\ pc[r] = "done" /\ reply[r] # NULL
    /\ store' = reply[r]
    /\ Wake(r, [stage |-> "sent", header |-> reply[r], retried |-> TRUE, waits |-> NULL])
    /\ Recycle(r)
    /\ UNCHANGED <<stale, logout, outbound, crossed>>

\* The server refused, or went away: the session is dead for the client.
RefreshRefused(r) ==
    /\ Awaited(r) /\ logout # r
    /\ pc[r] = "dropped" \/ (pc[r] = "done" /\ reply[r] = NULL)
    /\ store' = NULL
    /\ Wake(r, Quiet)
    /\ Recycle(r)
    /\ UNCHANGED <<stale, logout, outbound, crossed>>

RefreshLost_Keeps(r) ==
    /\ Awaited(r) /\ logout # r
    /\ Wake(r, Quiet)
    /\ UNCHANGED <<serverVars, store, stale, logout, outbound, crossed>>

\* The network fails: the same for the client, whatever the server does.
RefreshLost(r) ==
    /\ Awaited(r) /\ logout # r
    /\ store' = NULL
    /\ Wake(r, Quiet)
    /\ UNCHANGED <<serverVars, stale, logout, outbound, crossed>>

-----------------------------------------------------------------------------
(* Logout and page loads.                                                  *)

\* useLogout, up to the await of the POST.
StartLogout(r) ==
    /\ store # NULL /\ logout = NULL
    /\ Post(r, "logout")
    /\ logout' = r
    /\ crossed' = (crossed \/ UnderWay("refresh"))
    /\ UNCHANGED <<serverVars, store, stale, calls, refreshing>>

\* onSettled: the answer, a 401 for the access token, or a network failure
\* (the catch ignores both).
LogoutAnswered(r) ==
    /\ logout = r
    /\ pc[r] \in {"done", "dropped"}
    /\ store' = NULL /\ logout' = NULL
    /\ Recycle(r)
    /\ UNCHANGED <<stale, calls, refreshing, outbound, crossed>>

LogoutUnauthorized(r) ==
    /\ logout = r
    /\ outbound[r] # NULL /\ outbound[r].pair \in stale
    /\ store' = NULL /\ logout' = NULL
    /\ outbound' = [outbound EXCEPT ![r] = NULL]
    /\ UNCHANGED <<serverVars, stale, calls, refreshing, crossed>>

LogoutLost(r) ==
    /\ logout = r
    /\ store' = NULL /\ logout' = NULL
    /\ UNCHANGED <<serverVars, stale, calls, refreshing, outbound, crossed>>

\* The page is loaded again: the memory of the page is gone, the store is
\* read from localStorage.
Reload ==
    /\ store # NULL
    /\ calls' = [c \in Call |-> Quiet]
    /\ refreshing' = NULL /\ logout' = NULL
    /\ crossed' = (crossed \/ UnderWay("refresh") \/ UnderWay("logout"))
    /\ UNCHANGED <<serverVars, store, stale, outbound>>

RefreshSettles(r) == RefreshSucceeds(r) \/ RefreshRefused(r) \/ RefreshLost(r)
LogoutSettles(r)  == LogoutAnswered(r) \/ LogoutUnauthorized(r) \/ LogoutLost(r)
CallHandled(c) ==
    Served(c) \/ GiveUp(c) \/ Join(c) \/ \E r \in Req : StartRefresh(c, r)

ClientNext ==
    \/ \E u \in User, t \in Token : SignIn(u, t)
    \/ \E c \in Call : Send(c) \/ CallHandled(c)
    \/ \E r \in Req : \/ Arrive(r) \/ ServerStep(r) \/ Forget(r)
                      \/ RefreshSettles(r)
                      \/ StartLogout(r) \/ LogoutSettles(r)
    \/ \E t \in Token : ExpireAccess(t) \/ ExpireRefresh(t)
    \/ Reload

\* A message that the page waits for arrives or is lost, the server answers or
\* goes away, and the answer reaches the page.
Progress(r) == Awaited(r) /\ (Arrive(r) \/ ServerStep(r) \/ RefreshSettles(r))

ClientFairness == \A r \in Req : WF_allVars(Progress(r))

ClientSpec == ClientInit /\ [][ClientNext]_allVars /\ ClientFairness

-----------------------------------------------------------------------------
(* Properties.                                                             *)

\* The types of the client's variables.
ClientTypeOK ==
    /\ store \in Token \cup {NULL} /\ stale \subseteq Token
    /\ calls \in [Call -> CallRow]
    /\ refreshing \in Req \cup {NULL} /\ logout \in Req \cup {NULL}
    /\ outbound \in [Req -> Message \cup {NULL}]
    /\ crossed \in BOOLEAN

\* The tab never trips "the backend's reuse detection" (client.ts) as long as
\* no logout or reload meets a refresh: no token it presents was exchanged
\* before, and its sessions are not revoked behind its back.
NeverReused ==
    \A r \in Req :
        Refreshing(r) /\ ~crossed =>
            ~seen[r].revoked /\ Children(req[r].token) = {}

\* The stored refresh token is live whenever nobody is about to change it, as
\* long as no logout or reload meets a refresh: the user is not logged out by
\* a 401, a lost answer or a late one.
StoreIsLive ==
    store # NULL /\ ~UnderWay("refresh") /\ ~UnderWay("logout") /\ ~crossed =>
        ~tokens[store].revoked

\* A logout that the server has answered leaves no live token of the login
\* behind, as long as it met no refresh: the token it presents is the last of
\* its rotation, whatever was lost or retried before.
LogoutEndsLogin ==
    [][\A r \in Req :
          logout = r /\ pc[r] = "done" /\ logout' = NULL /\ ~crossed =>
              \A t \in Issued :
                  tokens[t].login = tokens[req[r].token].login => tokens[t].revoked]_allVars

\* Requests that share a refresh all go on when it settles, even when a logout
\* or a reload meets it: none waits for a promise that settled before.
RequestsGoOn ==
    \A c \in Call : calls[c].stage = "waiting" ~> calls[c].stage # "waiting"
=============================================================================

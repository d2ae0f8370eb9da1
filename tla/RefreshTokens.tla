--------------------------- MODULE RefreshTokens ----------------------------
(***************************************************************************)
(* The refresh tokens of services/auth_service.py: login issues one,       *)
(* refresh exchanges one for a new one (rotation) and revokes every live   *)
(* token of the user when the presented one was revoked before (reuse      *)
(* detection), logout revokes one or all.                                  *)
(*                                                                         *)
(* refresh and logout first SELECT the token by its hash and act on the    *)
(* loaded row; nothing locks the row or checks it again.  The commit       *)
(* writes revoked_at by primary key, and revoke_all_for_user is an UPDATE  *)
(* of the rows that are live when it runs.                                 *)
(*                                                                         *)
(* A token's secret, its hash and its row are one element of Token; a      *)
(* login reads nothing that other calls change, so it is one step.  No     *)
(* operation deactivates a user or deletes a token.                        *)
(*                                                                         *)
(* A definition named X_Something stands before the definition X of the    *)
(* code and changes it the way a slip would; no action uses it.            *)
(***************************************************************************)
EXTENDS Naturals, FiniteSets

CONSTANTS
    User,           \* active users
    Token,          \* bound: the refresh tokens that can be issued
    Req,            \* ids of calls to /auth/refresh and /auth/logout
    NULL

VARIABLES
    tokens,         \* the table refresh_tokens
    pc,             \* stage of a call
    req,            \* what it asks for
    seen,           \* the row it has loaded
    reply           \* the refresh token of the pair it answers with

vars == <<tokens, pc, req, seen, reply>>

\* login and parent are not columns: the first token of the token's session
\* and the token it was exchanged for, to state the properties with.
Row == [user : User, revoked : BOOLEAN, expired : BOOLEAN,
        login : Token, parent : Token \cup {NULL}]

ASSUME TokenAssumption == NULL \notin Token /\ NULL \notin Row

Issued == {t \in Token : tokens[t] # NULL}
Live(u) == {t \in Issued : tokens[t].user = u /\ ~tokens[t].revoked}

\* refresh, logout, and logout with everywhere = true, each with the presented
\* token.  A token that was never issued is refused or ignored at once.
Request == [op : {"refresh", "logout", "everywhere"}, token : Token]

Init ==
    /\ tokens = [t \in Token |-> NULL]
    /\ pc     = [r \in Req |-> "idle"]
    /\ req    = [r \in Req |-> NULL]
    /\ seen   = [r \in Req |-> NULL]
    /\ reply  = [r \in Req |-> NULL]

Answer(r, t) ==
    /\ pc' = [pc EXCEPT ![r] = "done"]
    /\ seen' = [seen EXCEPT ![r] = NULL]
    /\ reply' = [reply EXCEPT ![r] = t]
    /\ UNCHANGED req

\* The new row of _issue_tokens.
NewRow(user, login, parent) ==
    [user |-> user, revoked |-> FALSE, expired |-> FALSE,
     login |-> login, parent |-> parent]

\* A new secret: a token that was not issued.
Fresh(t) == t \notin Issued

\* AuthService.login, with the right password.
Login(u, t) ==
    /\ Fresh(t)
    /\ tokens' = [tokens EXCEPT ![t] = NewRow(u, t, NULL)]
    /\ UNCHANGED <<pc, req, seen, reply>>

\* get_by_hash.
ReadToken(r, op, t) ==
    /\ pc[r] = "idle"
    /\ t \in Issued
    /\ pc' = [pc EXCEPT ![r] = "read"]
    /\ req' = [req EXCEPT ![r] = [op |-> op, token |-> t]]
    /\ seen' = [seen EXCEPT ![r] = tokens[t]]
    /\ UNCHANGED <<tokens, reply>>

Refreshing(r) == pc[r] = "read" /\ req[r].op = "refresh"

\* revoke_all_for_user: UPDATE ... WHERE revoked_at IS NULL.
RevokeAll(u) ==
    [t \in Token |-> IF t \in Live(u) THEN [tokens[t] EXCEPT !.revoked = TRUE]
                     ELSE tokens[t]]

DetectReuse_Refuses(r) ==
    /\ Refreshing(r)
    /\ seen[r].revoked
    /\ Answer(r, NULL)
    /\ UNCHANGED tokens

\* The presented token was revoked when it was loaded: reuse.
DetectReuse(r) ==
    /\ Refreshing(r)
    /\ seen[r].revoked
    /\ tokens' = RevokeAll(seen[r].user)
    /\ Answer(r, NULL)

\* The presented token has expired.
RefuseExpired(r) ==
    /\ Refreshing(r)
    /\ ~seen[r].revoked /\ seen[r].expired
    /\ Answer(r, NULL)
    /\ UNCHANGED tokens

Rotated_KeepsPresented(r, t) ==
    [tokens EXCEPT ![t] = NewRow(seen[r].user, seen[r].login, req[r].token)]

\* The rows a rotation writes: the presented token revoked, t issued.
Rotated(r, t) ==
    [tokens EXCEPT ![req[r].token].revoked = TRUE,
                   ![t] = NewRow(seen[r].user, seen[r].login, req[r].token)]

Rotate_Revoked(r, t) ==
    /\ Refreshing(r)
    /\ ~seen[r].expired
    /\ Fresh(t)
    /\ tokens' = Rotated(r, t)
    /\ Answer(r, t)

\* The presented token was live when it was loaded.
Rotate(r, t) ==
    /\ Refreshing(r)
    /\ ~seen[r].revoked /\ ~seen[r].expired
    /\ Fresh(t)
    /\ tokens' = Rotated(r, t)
    /\ Answer(r, t)

\* logout: the token is revoked whatever it was.
Logout(r) ==
    /\ pc[r] = "read" /\ req[r].op = "logout"
    /\ tokens' = [tokens EXCEPT ![req[r].token].revoked = TRUE]
    /\ Answer(r, NULL)

LogoutEverywhere(r) ==
    /\ pc[r] = "read" /\ req[r].op = "everywhere"
    /\ tokens' = RevokeAll(seen[r].user)
    /\ Answer(r, NULL)

\* The database or the process goes away before the commit.
Drop(r) ==
    /\ pc[r] = "read"
    /\ pc' = [pc EXCEPT ![r] = "dropped"]
    /\ seen' = [seen EXCEPT ![r] = NULL]
    /\ UNCHANGED <<tokens, req, reply>>

\* REFRESH_TOKEN_EXPIRE_DAYS pass.
Expire(t) ==
    /\ t \in Issued
    /\ ~tokens[t].expired
    /\ tokens' = [tokens EXCEPT ![t].expired = TRUE]
    /\ UNCHANGED <<pc, req, seen, reply>>

CallStep(r) ==
    \/ DetectReuse(r) \/ RefuseExpired(r) \/ Logout(r) \/ LogoutEverywhere(r)
    \/ Drop(r)
    \/ \E t \in Token : Rotate(r, t)

Next ==
    \/ \E u \in User, t \in Token : Login(u, t)
    \/ \E r \in Req, t \in Token, op \in {"refresh", "logout", "everywhere"} :
          ReadToken(r, op, t)
    \/ \E r \in Req : CallStep(r)
    \/ \E t \in Token : Expire(t)

Spec == Init /\ [][Next]_vars

\* At most one call is between its SELECT and its commit.
OneAtATime == \A r, q \in Req : pc[r] = "read" /\ pc[q] = "read" => r = q

SerialSpec == Init /\ [][Next /\ OneAtATime']_vars

-----------------------------------------------------------------------------
(* Properties.                                                             *)

\* The types of all the variables.
TypeOK ==
    /\ tokens \in [Token -> Row \cup {NULL}]
    /\ pc \in [Req -> {"idle", "read", "done", "dropped"}]
    /\ req \in [Req -> Request \cup {NULL}]
    /\ seen \in [Req -> Row \cup {NULL}]
    /\ reply \in [Req -> Token \cup {NULL}]

Children(t) == {c \in Issued : tokens[c].parent = t}

\* Refresh tokens are "single-use" (module docstring): a token is exchanged
\* once.
SingleUse == \A t \in Token : Cardinality(Children(t)) <= 1

\* Rotation leaves a session with one live token at most: the session's tokens
\* are those exchanged, one after the other, for the token of one login.
OneLivePerLogin ==
    \A u \in User : \A t1, t2 \in Live(u) :
        tokens[t1].login = tokens[t2].login => t1 = t2

\* A user without a live token (logged out, or reuse was detected) has none
\* until the next login.
OnlyLoginRevives ==
    [][\A u \in User : Live(u) = {} =>
          \A t \in Live(u)' : tokens'[t].parent = NULL]_vars

\* "Presenting an already-revoked token ... every live token for that user is
\* revoked": the answer to a refresh with a token that was exchanged already
\* leaves its user without a live token.
ReplayEndsSessions ==
    [][\A r \in Req :
          Refreshing(r) /\ Children(req[r].token) # {} /\ pc'[r] = "done" =>
              Live(tokens[req[r].token].user)' = {}]_vars

\* The table as login sessions.
Owner == [s \in Token |-> IF s \in Issued /\ tokens[s].login = s
                          THEN tokens[s].user ELSE NULL]
Valid == [s \in Token |->
            {t \in Issued : tokens[t].login = s /\ ~tokens[t].revoked}]

Logins == INSTANCE LoginSessions
            WITH owner <- Owner, valid <- Valid, given <- Issued

\* Rotation, reuse detection and logout implement login sessions: of one owner,
\* with one valid token at most, over for good once they have ended.
KeepsLogins == Logins!Spec
=============================================================================

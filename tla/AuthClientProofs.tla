-------------------------- MODULE AuthClientProofs --------------------------
(***************************************************************************)
(* Theorems about AuthClient, for all tokens, calls and requests: as long  *)
(* as no logout or reload meets a refresh, the tab never presents a token  *)
(* that was exchanged, its stored token stays live, and a logout ends its  *)
(* login.  Whatever meets, what the tab and the server do together are     *)
(* steps of overlapping login sessions, and no waiting request is left.    *)
(***************************************************************************)
EXTENDS AuthClient, RefreshTokensProofs

\* What a call that runs has loaded.
Loaded ==
    \A r \in Req : pc[r] = "read" =>
        req[r] \in Request /\ req[r].token \in Issued /\ seen[r] \in Row

Types == TypeOK /\ ClientTypeOK /\ Loaded

\* Call r, on its way or at the server, presents token t.
Carries(r, t) ==
    \/ outbound[r] # NULL /\ outbound[r].pair = t
    \/ pc[r] = "read" /\ req[r].token = t

On(r, op) ==
    \/ outbound[r] # NULL /\ outbound[r].op = op
    \/ pc[r] # "idle" /\ req[r] \in Request /\ req[r].op = op

\* The page waits for one call at most, and for calls that there are.
WaitsFit ==
    /\ \A c \in Call : calls[c].waits # NULL => calls[c].waits = refreshing
    /\ refreshing = NULL \/ logout = NULL
    /\ \A r \in Req : /\ refreshing = r => On(r, "refresh") /\ store # NULL
                      /\ logout = r => On(r, "logout") /\ store # NULL

MessagesFit ==
    \A r \in Req : /\ outbound[r] # NULL => pc[r] = "idle"
                   /\ pc[r] = "read" => req[r].op # "everywhere"

\* The token that a call presents is live, and it is stored only while the page
\* waits for the call.
CarriedAreLive ==
    \A r \in Req, t \in Token : Carries(r, t) =>
        /\ t \in Issued /\ ~tokens[t].revoked
        /\ t = store => refreshing = r \/ logout = r

\* No two calls present one token.
CarriedOnce ==
    \A r, q \in Req, t \in Token : Carries(r, t) /\ Carries(q, t) => r = q

\* The stored token is live unless its refresh or logout has been answered.
StoredIsLive ==
    store # NULL =>
        /\ store \in Issued
        /\ tokens[store].revoked =>
              \E r \in Req : (refreshing = r \/ logout = r) /\ pc[r] = "done"

\* The answer to the refresh the page waits for brings a live token that
\* nobody has presented.
AnswerIsLive ==
    \A r \in Req : refreshing = r /\ pc[r] = "done" /\ reply[r] # NULL =>
        /\ reply[r] \in Issued /\ ~tokens[reply[r]].revoked
        /\ \A q \in Req : ~Carries(q, reply[r])

\* A logout that was answered has ended its login.
LoginsAreOver ==
    \A r \in Req : logout = r /\ pc[r] = "done" =>
        /\ req[r].token \in Issued
        /\ \A t \in Issued : tokens[t].login = tokens[req[r].token].login =>
              tokens[t].revoked

Page == /\ WaitsFit /\ MessagesFit /\ CarriedAreLive /\ CarriedOnce
        /\ StoredIsLive /\ AnswerIsLive /\ LoginsAreOver

Rows == Lineage /\ OneLive /\ OneChild /\ LoadedIsStored

Uncrossed == Rows /\ Page

IInv == Types /\ (~crossed => Uncrossed)

-----------------------------------------------------------------------------
(* Types.                                                                  *)

\* NULL is none of the things it stands for the absence of.
LEMMA NullIsNone ==
    /\ NULL \notin Req /\ NULL \notin Message /\ NULL \notin Token
    /\ NULL \notin Row
  BY TokenAssumption, ClientAssumption

LEMMA TokensOnlyRevoked ==
    ASSUME Types, OnlyRevokes,
           pc' \in [Req -> {"idle", "read", "done", "dropped"}],
           req' \in [Req -> Request \cup {NULL}],
           seen' \in [Req -> Row \cup {NULL}],
           reply' \in [Req -> Token \cup {NULL}],
           \A q \in Req : pc'[q] = "read" =>
              pc[q] = "read" /\ req'[q] = req[q] /\ seen'[q] = seen[q]
    PROVE  TypeOK' /\ Loaded'
  <1>1. \A t \in Issued : t \in Token
    BY DEF Issued
  <1>. QED  BY <1>1 DEF Types, OnlyRevokes, TypeOK, Loaded

LEMMA RotateTypes ==
    ASSUME Types, NEW r \in Req, NEW t \in Token, Rotate(r, t)
    PROVE  TypeOK' /\ Loaded'
  <1>. DEFINE p   == req[r].token
              new == NewRow(seen[r].user, seen[r].login, p)
  <1>0. TypeOK
    BY DEF Types
  <1>1. pc[r] = "read" /\ Answer(r, t) /\ t \notin Issued
    BY DEF Rotate, Refreshing, Fresh
  <1>2. p \in Issued /\ p \in Token /\ seen[r] \in Row /\ tokens[p] \in Row
    BY <1>0, <1>1, IssuedRows DEF Types, Loaded, Issued
  <1>3. new \in Row
    BY <1>2 DEF NewRow, Row
  <1>4. tokens' = [tokens EXCEPT ![p].revoked = TRUE, ![t] = new]
    BY DEF Rotate, Rotated
  <1>. HIDE DEF new, p
  <1>. DEFINE old == [tokens[p] EXCEPT !.revoked = TRUE]
  <1>5. old \in Row
    BY <1>2, RowType
  <1>6. /\ tokens'[t] = new /\ tokens'[p] = old
        /\ \A x \in Token \ {t, p} : tokens'[x] = tokens[x]
    BY <1>0, <1>1, <1>2, <1>4 DEF TypeOK
  <1>. HIDE DEF old
  <1>7. tokens' \in [Token -> Row \cup {NULL}]
    BY <1>0, <1>2, <1>3, <1>4, <1>5, <1>6 DEF TypeOK
  <1>8. \A x \in Issued : x \in Issued'
    BY <1>3, <1>5, <1>6, RowIsThere DEF Issued
  <1>. QED
    BY <1>0, <1>1, <1>7, <1>8, AnswerEffect DEF TypeOK, Loaded, Types

\* A step of a call at the server.
LEMMA ServerTypes ==
    ASSUME Types, NEW r \in Req, CallStep(r)
    PROVE  TypeOK' /\ Loaded'
  <1>0. TypeOK
    BY DEF Types
  <1>1. ASSUME DetectReuse(r) \/ RefuseExpired(r) \/ Logout(r) \/ LogoutEverywhere(r)
        PROVE  TypeOK' /\ Loaded'
    <2>1. pc[r] = "read" /\ Answer(r, NULL)
      BY <1>1 DEF DetectReuse, RefuseExpired, Logout, LogoutEverywhere, Refreshing
    <2>2. req[r].token \in Issued
      BY <2>1 DEF Types, Loaded
    <2>3. OnlyRevokes
      <3>1. CASE RefuseExpired(r)
        BY <1>0, <3>1 DEF RefuseExpired, OnlyRevokes, TypeOK, Issued
      <3>. QED
        BY <1>0, <1>1, <2>2, <3>1, RevokeOne, RevokeMany
           DEF DetectReuse, Logout, LogoutEverywhere
    <2>. QED  BY <1>0, <2>1, <2>3, AnswerEffect, TokensOnlyRevoked
  <1>2. CASE Drop(r)
    BY <1>0, <1>2 DEF Drop, TypeOK, Types, Loaded, Issued
  <1>3. CASE \E t \in Token : Rotate(r, t)
    BY <1>3, RotateTypes
  <1>. QED  BY <1>1, <1>2, <1>3 DEF CallStep

\* A call the client is done with.
LEMMA RecycleTypes ==
    ASSUME Types, NEW r \in Req, Recycle(r)
    PROVE  /\ TypeOK' /\ Loaded'
           /\ pc'[r] = "idle"
           /\ \A q \in Req \ {r} :
                 pc'[q] = pc[q] /\ req'[q] = req[q] /\ reply'[q] = reply[q]
  BY DEF Types, TypeOK, Loaded, Recycle, Issued

LEMMA SameServer ==
    ASSUME Types, UNCHANGED serverVars
    PROVE  TypeOK' /\ Loaded'
  BY DEF Types, TypeOK, Loaded, serverVars, Issued

LEMMA QuietRow == Quiet \in CallRow
  BY DEF Quiet, CallRow

\* Requests of the page keep their types when one of them, or those that await
\* a refresh, change.
LEMMA CallTypes ==
    ASSUME ClientTypeOK, NEW row \in CallRow,
           \/ \E c \in Call : calls' = [calls EXCEPT ![c] = row]
           \/ \E r \in Req : calls' = [c \in Call |-> IF calls[c].waits = r
                                                      THEN row ELSE calls[c]]
    PROVE  calls' \in [Call -> CallRow]
  BY DEF ClientTypeOK

\* A message of the page.
LEMMA PostTypes ==
    ASSUME ClientTypeOK, NEW r \in Req, NEW op \in {"refresh", "logout"},
           store # NULL, Post(r, op)
    PROVE  /\ outbound' \in [Req -> Message \cup {NULL}]
           /\ store \in Token
           /\ outbound'[r] # NULL /\ outbound'[r].op = op /\ outbound'[r].pair = store
           /\ \A q \in Req \ {r} : outbound'[q] = outbound[q]
           /\ pc[r] = "idle" /\ outbound[r] = NULL
  <1>1. store \in Token
    BY DEF ClientTypeOK
  <1>. DEFINE m == [op |-> op, pair |-> store]
  <1>2. m \in Message /\ m.op = op /\ m.pair = store
    BY <1>1 DEF Message
  <1>. HIDE DEF m
  <1>3. outbound' = [outbound EXCEPT ![r] = m] /\ pc[r] = "idle" /\ outbound[r] = NULL
    BY DEF Post, Free, m
  <1>. QED  BY <1>1, <1>2, <1>3, NullIsNone DEF ClientTypeOK

\* A row of a request that waits, and one that is sent.
LEMMA WaitingRow ==
    ASSUME NEW r \in Req
    PROVE  [stage |-> "waiting", header |-> NULL, retried |-> TRUE, waits |-> r]
               \in CallRow
  BY DEF CallRow

LEMMA SentRow ==
    ASSUME NEW t \in Token, NEW b \in BOOLEAN
    PROVE  [stage |-> "sent", header |-> t, retried |-> b, waits |-> NULL] \in CallRow
  BY DEF CallRow

LEMMA TypesNext == Types /\ ClientNext => Types'
  <1>. SUFFICES ASSUME Types, ClientNext PROVE Types'
    OBVIOUS
  <1>0. TypeOK /\ ClientTypeOK
    BY DEF Types
  <1>1. ASSUME NEW u \in User, NEW t \in Token, SignIn(u, t)
        PROVE  Types'
    <2>. DEFINE new == NewRow(u, t, NULL)
    <2>1. new \in Row
      BY DEF NewRow, Row
    <2>2. tokens' = [tokens EXCEPT ![t] = new] /\ UNCHANGED <<pc, req, seen, reply>>
      BY <1>1 DEF SignIn, Login
    <2>. HIDE DEF new
    <2>3. TypeOK' /\ Loaded'
      BY <1>0, <2>1, <2>2, NullIsNone DEF Types, TypeOK, Loaded, Issued
    <2>4. ClientTypeOK'
      BY <1>0, <1>1 DEF SignIn, ClientTypeOK
    <2>. QED  BY <2>3, <2>4 DEF Types
  <1>2. ASSUME NEW c \in Call, Send(c) \/ Served(c) \/ GiveUp(c) \/ Join(c)
        PROVE  Types'
    <2>1. TypeOK' /\ Loaded'
      BY <1>2, SameServer DEF Send, Served, GiveUp, Join
    <2>2. calls' \in [Call -> CallRow]
      <3>1. CASE Send(c)
        <4>1. [Quiet EXCEPT !.stage = "sent", !.header = store] \in CallRow
          BY <1>0, <3>1 DEF Send, Quiet, CallRow, ClientTypeOK
        <4>. QED  BY <1>0, <3>1, <4>1, CallTypes DEF Send
      <3>2. CASE Join(c)
        <4>1. refreshing \in Req
          BY <1>0, <3>2 DEF Join, ClientTypeOK
        <4>. QED  BY <1>0, <3>2, <4>1, WaitingRow, CallTypes DEF Join, Waiting
      <3>. QED  BY <1>0, <1>2, <3>1, <3>2, QuietRow, CallTypes DEF Served, GiveUp
    <2>3. ClientTypeOK'
      BY <1>0, <1>2, <2>2 DEF Send, Served, GiveUp, Join, ClientTypeOK
    <2>. QED  BY <2>1, <2>3 DEF Types
  <1>3. ASSUME NEW c \in Call, NEW r \in Req, StartRefresh(c, r)
        PROVE  Types'
    <2>1. TypeOK' /\ Loaded'
      BY <1>3, SameServer DEF StartRefresh
    <2>2. calls' \in [Call -> CallRow]
      BY <1>0, <1>3, WaitingRow, CallTypes DEF StartRefresh, Waiting
    <2>3. outbound' \in [Req -> Message \cup {NULL}]
      BY <1>0, <1>3, PostTypes DEF StartRefresh
    <2>4. ClientTypeOK'
      BY <1>0, <1>3, <2>2, <2>3 DEF StartRefresh, ClientTypeOK
    <2>. QED  BY <2>1, <2>4 DEF Types
  <1>4. ASSUME NEW r \in Req, Arrive(r)
        PROVE  Types'
    <2>. DEFINE m == outbound[r]
    <2>1. m \in Message /\ m.op \in {"refresh", "logout"} /\ m.pair \in Token
      BY <1>0, <1>4 DEF Arrive, ClientTypeOK, Message
    <2>2. ReadToken(r, m.op, m.pair)
      BY <1>4 DEF Arrive
    <2>3. TypeOK' /\ Loaded'
      <3>1. tokens[m.pair] \in Row /\ m.pair \in Issued /\ UNCHANGED <<tokens, reply>>
        BY <1>0, <2>1, <2>2, IssuedRows DEF ReadToken
      <3>2. /\ pc' = [pc EXCEPT ![r] = "read"]
            /\ req' = [req EXCEPT ![r] = [op |-> m.op, token |-> m.pair]]
            /\ seen' = [seen EXCEPT ![r] = tokens[m.pair]]
            /\ [op |-> m.op, token |-> m.pair] \in Request
        BY <2>1, <2>2 DEF ReadToken, Request
      <3>. HIDE DEF m
      <3>. QED  BY <1>0, <3>1, <3>2 DEF Types, TypeOK, Loaded, Issued
    <2>4. ClientTypeOK'
      BY <1>0, <1>4 DEF Arrive, ClientTypeOK, pageVars
    <2>. QED  BY <2>3, <2>4 DEF Types
  <1>5. ASSUME NEW r \in Req, ServerStep(r)
        PROVE  Types'
    BY <1>0, <1>5, ServerTypes DEF ServerStep, clientVars, ClientTypeOK, Types
  <1>6. ASSUME NEW r \in Req, Forget(r) \/ LogoutAnswered(r)
        PROVE  Types'
    <2>1. TypeOK' /\ Loaded'
      BY <1>6, RecycleTypes DEF Forget, LogoutAnswered
    <2>2. ClientTypeOK'
      BY <1>0, <1>6 DEF Forget, LogoutAnswered, ClientTypeOK, pageVars
    <2>. QED  BY <2>1, <2>2 DEF Types
  <1>7. ASSUME NEW r \in Req, RefreshSucceeds(r)
        PROVE  Types'
    <2>1. reply[r] \in Token /\ TypeOK' /\ Loaded'
      BY <1>0, <1>7, RecycleTypes DEF RefreshSucceeds, TypeOK
    <2>2. calls' \in [Call -> CallRow]
      BY <1>0, <1>7, <2>1, SentRow, CallTypes DEF RefreshSucceeds, Wake
    <2>3. ClientTypeOK'
      BY <1>0, <1>7, <2>1, <2>2 DEF RefreshSucceeds, Wake, ClientTypeOK
    <2>. QED  BY <2>1, <2>3 DEF Types
  <1>8. ASSUME NEW r \in Req, RefreshRefused(r) \/ RefreshLost(r)
        PROVE  Types'
    <2>1. TypeOK' /\ Loaded'
      BY <1>8, RecycleTypes, SameServer DEF RefreshRefused, RefreshLost
    <2>2. calls' \in [Call -> CallRow]
      BY <1>0, <1>8, QuietRow, CallTypes DEF RefreshRefused, RefreshLost, Wake
    <2>3. ClientTypeOK'
      BY <1>0, <1>8, <2>2 DEF RefreshRefused, RefreshLost, Wake, ClientTypeOK
    <2>. QED  BY <2>1, <2>3 DEF Types
  <1>9. ASSUME NEW r \in Req, StartLogout(r)
        PROVE  Types'
    <2>1. TypeOK' /\ Loaded'
      BY <1>9, SameServer DEF StartLogout
    <2>2. outbound' \in [Req -> Message \cup {NULL}]
      BY <1>0, <1>9, PostTypes DEF StartLogout
    <2>. QED  BY <1>0, <1>9, <2>1, <2>2 DEF StartLogout, ClientTypeOK, Types
  <1>10. ASSUME NEW r \in Req, LogoutUnauthorized(r) \/ LogoutLost(r)
         PROVE  Types'
    BY <1>0, <1>10, SameServer
       DEF LogoutUnauthorized, LogoutLost, ClientTypeOK, Types
  <1>11. ASSUME NEW t \in Token, ExpireAccess(t)
         PROVE  Types'
    BY <1>0, <1>11, SameServer DEF ExpireAccess, ClientTypeOK, Types, pageVars
  <1>12. ASSUME NEW t \in Token, ExpireRefresh(t)
         PROVE  Types'
    <2>1. OnlyRevokes /\ UNCHANGED <<pc, req, seen, reply>>
      BY <1>0, <1>12, ExpireEffect DEF ExpireRefresh
    <2>2. TypeOK' /\ Loaded'
      BY <1>0, <2>1, TokensOnlyRevoked DEF TypeOK
    <2>. QED  BY <1>0, <1>12, <2>2 DEF ExpireRefresh, clientVars, ClientTypeOK, Types
  <1>13. CASE Reload
    BY <1>0, <1>13, SameServer, QuietRow DEF Reload, ClientTypeOK, Types
  <1>. QED
    BY <1>1, <1>2, <1>3, <1>4, <1>5, <1>6, <1>7, <1>8, <1>9, <1>10, <1>11, <1>12,
       <1>13 DEF ClientNext, CallHandled, RefreshSettles, LogoutSettles

-----------------------------------------------------------------------------
(* The page and the calls it waits for.                                    *)

LEMMA SameRows == Rows /\ UNCHANGED serverVars => Rows'
  BY DEF Rows, serverVars, Lineage, OneLive, OneChild, LoadedIsStored, Issued

\* What the page waits for is under way.
LEMMA NothingAwaited ==
    ASSUME Types, WaitsFit
    PROVE  /\ ~UnderWay("refresh") => refreshing = NULL
           /\ ~UnderWay("logout") => logout = NULL
  <1>1. ASSUME NEW r \in Req, refreshing = r PROVE UnderWay("refresh")
    <2>1. On(r, "refresh")
      BY <1>1 DEF WaitsFit
    <2>2. Awaited(r) /\ pc[r] \in {"idle", "read", "done", "dropped"}
      BY <1>1 DEF Awaited, Types, TypeOK
    <2>. QED  BY <2>1, <2>2 DEF On, UnderWay
  <1>2. ASSUME NEW r \in Req, logout = r PROVE UnderWay("logout")
    <2>1. On(r, "logout")
      BY <1>2 DEF WaitsFit
    <2>2. Awaited(r) /\ pc[r] \in {"idle", "read", "done", "dropped"}
      BY <1>2 DEF Awaited, Types, TypeOK
    <2>. QED  BY <2>1, <2>2 DEF On, UnderWay
  <1>. QED  BY <1>1, <1>2 DEF Types, ClientTypeOK

\* An awaited call that is not the logout is the refresh of the page.
LEMMA AwaitedRefresh ==
    ASSUME WaitsFit, NEW r \in Req, Awaited(r), logout # r
    PROVE  refreshing = r /\ logout = NULL
  BY NullIsNone DEF WaitsFit, Awaited

\* Requests come and go, and join the refresh: the page waits for the same call.
LEMMA RequestsKeep ==
    ASSUME Page, UNCHANGED <<serverVars, store, refreshing, logout, outbound>>,
           \A c \in Call : calls'[c].waits = calls[c].waits
                        \/ calls'[c].waits = NULL \/ calls'[c].waits = refreshing
    PROVE  Page'
  <1>1. WaitsFit'
    BY DEF serverVars, Page, WaitsFit, On
  <1>2. /\ MessagesFit' /\ CarriedAreLive' /\ CarriedOnce'
        /\ StoredIsLive' /\ AnswerIsLive' /\ LoginsAreOver'
    BY DEF serverVars, Page, MessagesFit, CarriedAreLive, CarriedOnce,
           StoredIsLive, AnswerIsLive, LoginsAreOver, Carries, Issued
  <1>. QED  BY <1>1, <1>2 DEF Page

\* The page posts its token: nobody else presents it, and it is live.
LEMMA PostKeeps ==
    ASSUME Types, Page, NEW r \in Req, NEW op \in {"refresh", "logout"},
           refreshing = NULL, logout = NULL, store # NULL, Post(r, op),
           UNCHANGED <<serverVars, store>>,
           \/ /\ op = "refresh" /\ refreshing' = r /\ logout' = NULL
              /\ \A c \in Call : calls'[c].waits = r \/ calls'[c] = calls[c]
           \/ op = "logout" /\ logout' = r /\ UNCHANGED <<refreshing, calls>>
    PROVE  Page'
  <1>1. /\ outbound'[r] # NULL /\ outbound'[r].op = op /\ outbound'[r].pair = store
        /\ \A q \in Req \ {r} : outbound'[q] = outbound[q]
        /\ pc[r] = "idle" /\ outbound[r] = NULL
    BY PostTypes DEF Types
  <1>2. UNCHANGED <<tokens, pc, req, seen, reply, store>>
    BY DEF serverVars
  <1>3. \A q \in Req : q # NULL
    BY NullIsNone
  <1>4. WaitsFit'
    BY <1>1, <1>2, <1>3 DEF Page, WaitsFit, On
  <1>5. MessagesFit'
    BY <1>1, <1>2 DEF Page, MessagesFit
  <1>6. store \in Issued /\ ~tokens[store].revoked
    BY <1>3 DEF Page, StoredIsLive
  <1>7. \A q \in Req : ~Carries(q, store)
    BY <1>3, <1>6 DEF Page, CarriedAreLive, Issued
  <1>8. \A q \in Req, t \in Token : Carries(q, t)' <=> \/ q = r /\ t = store
                                                       \/ q # r /\ Carries(q, t)
    BY <1>1, <1>2 DEF Carries
  <1>9. CarriedAreLive'
    BY <1>2, <1>3, <1>6, <1>8 DEF Page, CarriedAreLive, Issued
  <1>10. CarriedOnce'
    BY <1>7, <1>8 DEF Page, CarriedOnce
  <1>11. StoredIsLive'
    BY <1>2, <1>6 DEF StoredIsLive, Issued
  <1>12. AnswerIsLive' /\ LoginsAreOver'
    BY <1>1, <1>2, <1>3 DEF AnswerIsLive, LoginsAreOver
  <1>. QED  BY <1>4, <1>5, <1>9, <1>10, <1>11, <1>12 DEF Page

\* The page waits for nothing any more, and stores nothing or a live token that
\* nobody presents.
LEMMA QuietPage ==
    ASSUME Types, Page, refreshing' = NULL, logout' = NULL,
           \A c \in Call : calls'[c].waits = NULL,
           UNCHANGED tokens,
           \A q \in Req, t \in Token : Carries(q, t)' => Carries(q, t),
           MessagesFit',
           store' # NULL => /\ store' \in Issued /\ ~tokens[store'].revoked
                            /\ \A q \in Req : ~Carries(q, store')
    PROVE  Page'
  <1>1. \A q \in Req : q # NULL
    BY NullIsNone
  <1>2. WaitsFit'
    BY <1>1 DEF WaitsFit
  <1>3. CarriedAreLive'
    <2>. SUFFICES ASSUME NEW q \in Req, NEW t \in Token, Carries(q, t)'
                  PROVE  t \in Issued /\ ~tokens[t].revoked /\ t # store'
      BY DEF CarriedAreLive, Issued
    <2>1. Carries(q, t)
      OBVIOUS
    <2>2. t # NULL
      BY NullIsNone
    <2>. QED  BY <2>1, <2>2 DEF Page, CarriedAreLive
  <1>4. CarriedOnce'
    BY DEF Page, CarriedOnce
  <1>5. StoredIsLive'
    BY DEF StoredIsLive, Issued
  <1>6. AnswerIsLive' /\ LoginsAreOver'
    BY <1>1 DEF AnswerIsLive, LoginsAreOver
  <1>. QED  BY <1>2, <1>3, <1>4, <1>5, <1>6 DEF Page

\* An answer is taken: nobody presents anything more than before.
LEMMA RecycleKeeps ==
    ASSUME Types, Rows, Page, NEW r \in Req, Recycle(r),
           \/ outbound' = [outbound EXCEPT ![r] = NULL]
           \/ outbound' = outbound /\ outbound[r] = NULL
    PROVE  /\ Rows' /\ MessagesFit'
           /\ outbound'[r] = NULL /\ pc'[r] = "idle"
           /\ \A q \in Req \ {r} : /\ outbound'[q] = outbound[q] /\ pc'[q] = pc[q]
                                   /\ req'[q] = req[q] /\ reply'[q] = reply[q]
           /\ \A q \in Req, t \in Token : Carries(q, t)' => Carries(q, t)
  <1>1. /\ outbound'[r] = NULL
        /\ \A q \in Req \ {r} : outbound'[q] = outbound[q]
    BY DEF Types, ClientTypeOK
  <1>2. /\ pc'[r] = "idle"
        /\ \A q \in Req \ {r} :
              pc'[q] = pc[q] /\ req'[q] = req[q] /\ reply'[q] = reply[q]
    BY RecycleTypes
  <1>3. UNCHANGED <<tokens, seen>>
    BY DEF Recycle
  <1>4. Lineage' /\ OneLive' /\ OneChild'
    BY <1>3 DEF Rows, Lineage, OneLive, OneChild, Issued
  <1>5. LoadedIsStored'
    BY <1>2, <1>3 DEF Rows, LoadedIsStored, Issued
  <1>6. MessagesFit'
    BY <1>1, <1>2 DEF Page, MessagesFit
  <1>7. \A q \in Req, t \in Token : Carries(q, t)' => Carries(q, t)
    BY <1>1, <1>2 DEF Carries
  <1>. QED  BY <1>1, <1>2, <1>4, <1>5, <1>6, <1>7 DEF Rows

\* Nobody presents the token of a page that waits for nothing.
LEMMA StoredIsUnseen ==
    ASSUME Types, Page, refreshing = NULL, logout = NULL, store # NULL
    PROVE  /\ store \in Issued /\ ~tokens[store].revoked
           /\ \A q \in Req : ~Carries(q, store)
  <1>1. \A q \in Req : q # NULL
    BY NullIsNone
  <1>2. store \in Issued /\ ~tokens[store].revoked
    BY <1>1 DEF Page, StoredIsLive
  <1>. QED  BY <1>1, <1>2 DEF Page, CarriedAreLive, Issued

\* A refresh settles.
LEMMA RefreshSettlesKeeps ==
    ASSUME Types, Uncrossed, NEW r \in Req, RefreshSettles(r)
    PROVE  Uncrossed'
  <1>. USE DEF Uncrossed
  <1>1. Awaited(r) /\ logout # r /\ UNCHANGED <<logout, outbound>>
    BY DEF RefreshSettles, RefreshSucceeds, RefreshRefused, RefreshLost
  <1>2. refreshing = r /\ logout = NULL
    BY <1>1, AwaitedRefresh DEF Page
  <1>3. refreshing' = NULL
    BY DEF RefreshSettles, RefreshSucceeds, RefreshRefused, RefreshLost, Wake
  <1>4. \A c \in Call : calls'[c].waits = NULL
    <2>1. PICK row : /\ row.waits = NULL
                     /\ calls' = [c \in Call |-> IF calls[c].waits = r THEN row ELSE calls[c]]
      <3>1. CASE RefreshSucceeds(r)
        <4>1. [stage |-> "sent", header |-> reply[r], retried |-> TRUE,
               waits |-> NULL].waits = NULL
          OBVIOUS
        <4>. QED  BY <3>1, <4>1 DEF RefreshSucceeds, Wake
      <3>2. CASE RefreshRefused(r) \/ RefreshLost(r)
        <4>1. Quiet.waits = NULL
          BY DEF Quiet
        <4>. QED  BY <3>2, <4>1 DEF RefreshRefused, RefreshLost, Wake
      <3>. QED  BY <3>1, <3>2 DEF RefreshSettles
    <2>. QED  BY <1>2, <2>1 DEF Page, WaitsFit
  <1>5. CASE RefreshSucceeds(r) \/ RefreshRefused(r)
    <2>1. Recycle(r) /\ pc[r] # "idle"
      BY <1>5 DEF RefreshSucceeds, RefreshRefused
    <2>2. outbound[r] = NULL
      BY <2>1 DEF Page, MessagesFit
    <2>3. /\ Rows' /\ MessagesFit'
          /\ \A q \in Req, t \in Token : Carries(q, t)' => Carries(q, t)
      BY <1>1, <2>1, <2>2, RecycleKeeps
    <2>4. store' # NULL => /\ store' \in Issued /\ ~tokens[store'].revoked
                           /\ \A q \in Req : ~Carries(q, store')
      BY <1>2, <1>5 DEF RefreshSucceeds, RefreshRefused, Page, AnswerIsLive
    <2>5. UNCHANGED tokens
      BY <2>1 DEF Recycle
    <2>6. Page'
      BY <1>1, <1>2, <1>3, <1>4, <2>3, <2>4, <2>5, QuietPage
    <2>. QED  BY <2>3, <2>6
  <1>6. CASE RefreshLost(r)
    <2>1. UNCHANGED serverVars /\ store' = NULL
      BY <1>6 DEF RefreshLost
    <2>2. Rows'
      BY <2>1, SameRows
    <2>3. \A q \in Req, t \in Token : Carries(q, t)' => Carries(q, t)
      BY <1>1, <2>1 DEF Carries, serverVars
    <2>4. MessagesFit' /\ UNCHANGED tokens
      BY <1>1, <2>1 DEF Page, MessagesFit, serverVars
    <2>5. Page'
      BY <1>1, <1>2, <1>3, <1>4, <2>1, <2>3, <2>4, QuietPage
    <2>. QED  BY <2>2, <2>5
  <1>. QED  BY <1>5, <1>6 DEF RefreshSettles

\* A logout settles: the store is empty.
LEMMA LogoutSettlesKeeps ==
    ASSUME Types, Uncrossed, NEW r \in Req, LogoutSettles(r)
    PROVE  Uncrossed'
  <1>. USE DEF Uncrossed
  <1>1. /\ logout = r /\ store' = NULL /\ logout' = NULL
        /\ UNCHANGED <<refreshing, calls>>
    BY DEF LogoutSettles, LogoutAnswered, LogoutUnauthorized, LogoutLost
  <1>2. refreshing = NULL /\ \A c \in Call : calls'[c].waits = NULL
    BY <1>1, NullIsNone DEF Page, WaitsFit
  <1>3. /\ Rows' /\ MessagesFit' /\ UNCHANGED tokens
        /\ \A q \in Req, t \in Token : Carries(q, t)' => Carries(q, t)
    <2>1. CASE LogoutAnswered(r)
      <3>1. Recycle(r) /\ pc[r] # "idle" /\ outbound' = outbound
        BY <2>1 DEF LogoutAnswered
      <3>2. outbound[r] = NULL
        BY <3>1 DEF Page, MessagesFit
      <3>3. UNCHANGED tokens
        BY <3>1 DEF Recycle
      <3>. QED  BY <3>1, <3>2, <3>3, RecycleKeeps
    <2>2. CASE LogoutUnauthorized(r) \/ LogoutLost(r)
      <3>1. UNCHANGED serverVars
        BY <2>2 DEF LogoutUnauthorized, LogoutLost
      <3>2. \A q \in Req : outbound'[q] = NULL \/ outbound'[q] = outbound[q]
        BY <2>2 DEF LogoutUnauthorized, LogoutLost, Types, ClientTypeOK
      <3>3. MessagesFit' /\ UNCHANGED tokens
        BY <3>1, <3>2 DEF Page, MessagesFit, serverVars
      <3>4. \A q \in Req, t \in Token : Carries(q, t)' => Carries(q, t)
        BY <3>1, <3>2 DEF Carries, serverVars
      <3>. QED  BY <3>1, <3>3, <3>4, SameRows
    <2>. QED  BY <2>1, <2>2 DEF LogoutSettles
  <1>. QED  BY <1>1, <1>2, <1>3, QuietPage

\* A message or an answer that nobody waits for goes away.
LEMMA ForgetKeeps ==
    ASSUME Types, Uncrossed, NEW r \in Req, Forget(r)
    PROVE  Uncrossed'
  <1>. USE DEF Uncrossed
  <1>1. /\ Recycle(r) /\ outbound' = [outbound EXCEPT ![r] = NULL]
        /\ ~Awaited(r) /\ UNCHANGED <<store, calls, refreshing, logout>>
    BY DEF Forget, pageVars
  <1>2. refreshing # r /\ logout # r
    BY <1>1 DEF Awaited
  <1>3. /\ Rows' /\ MessagesFit'
        /\ outbound'[r] = NULL /\ pc'[r] = "idle"
        /\ \A q \in Req \ {r} : /\ outbound'[q] = outbound[q] /\ pc'[q] = pc[q]
                                /\ req'[q] = req[q] /\ reply'[q] = reply[q]
        /\ \A q \in Req, t \in Token : Carries(q, t)' => Carries(q, t)
    BY <1>1, RecycleKeeps
  <1>4. UNCHANGED tokens
    BY <1>1 DEF Recycle
  <1>5. WaitsFit'
    BY <1>1, <1>2, <1>3 DEF Page, WaitsFit, On
  <1>6. CarriedAreLive'
    BY <1>1, <1>3, <1>4 DEF Page, CarriedAreLive, Issued
  <1>7. CarriedOnce'
    BY <1>3 DEF Page, CarriedOnce
  <1>8. StoredIsLive'
    BY <1>1, <1>2, <1>3, <1>4 DEF Page, StoredIsLive, Issued
  <1>9. AnswerIsLive'
    <2>. SUFFICES ASSUME NEW q \in Req, refreshing' = q, pc'[q] = "done",
                         reply'[q] # NULL
                  PROVE  /\ reply'[q] \in Issued' /\ ~tokens'[reply'[q]].revoked
                         /\ \A x \in Req : ~Carries(x, reply[q])'
      BY <1>1, <1>2, <1>3 DEF AnswerIsLive
    <2>1. q # r /\ refreshing = q /\ pc[q] = "done" /\ reply[q] # NULL /\ reply'[q] = reply[q]
      BY <1>1, <1>2, <1>3
    <2>2. /\ reply[q] \in Issued /\ ~tokens[reply[q]].revoked
          /\ \A x \in Req : ~Carries(x, reply[q])
      BY <2>1 DEF Page, AnswerIsLive
    <2>3. reply[q] \in Token
      BY <2>2 DEF Issued
    <2>. QED  BY <1>3, <1>4, <2>1, <2>2, <2>3 DEF Issued
  <1>10. LoginsAreOver'
    BY <1>1, <1>2, <1>3, <1>4 DEF Page, LoginsAreOver, Issued
  <1>. QED  BY <1>3, <1>5, <1>6, <1>7, <1>8, <1>9, <1>10 DEF Page

-----------------------------------------------------------------------------
(* The server.                                                             *)

\* The server receives a message: it presents the same token, a live one.
LEMMA ArriveKeeps ==
    ASSUME Types, Uncrossed, NEW r \in Req, Arrive(r)
    PROVE  Uncrossed'
  <1>. USE DEF Uncrossed
  <1>. DEFINE m == outbound[r]
  <1>0. m # NULL /\ m \in Message /\ ReadToken(r, m.op, m.pair)
    BY DEF Arrive, Types, ClientTypeOK
  <1>1. m.op \in {"refresh", "logout"} /\ m.pair \in Token /\ m.pair \in Issued
    BY <1>0 DEF Message, ReadToken
  <1>2. /\ UNCHANGED <<tokens, reply, store, calls, refreshing, logout>>
        /\ pc[r] = "idle" /\ outbound' = [outbound EXCEPT ![r] = NULL]
    BY <1>0 DEF Arrive, ReadToken, pageVars
  <1>3. /\ pc'[r] = "read" /\ outbound'[r] = NULL
        /\ req'[r] = [op |-> m.op, token |-> m.pair]
        /\ seen'[r] = tokens[m.pair]
        /\ \A q \in Req \ {r} : /\ pc'[q] = pc[q] /\ req'[q] = req[q]
                                /\ seen'[q] = seen[q] /\ outbound'[q] = outbound[q]
    BY <1>0, <1>2 DEF ReadToken, Types, TypeOK, ClientTypeOK
  <1>4. req'[r].op = m.op /\ req'[r].token = m.pair /\ req'[r] \in Request
    BY <1>1, <1>3 DEF Request
  <1>. HIDE DEF m
  <1>5. Lineage' /\ OneLive' /\ OneChild'
    BY <1>2 DEF Rows, Lineage, OneLive, OneChild, Issued
  <1>6. tokens[m.pair] \in Row
    BY <1>1, IssuedRows DEF Types
  <1>7. LoadedIsStored'
    BY <1>1, <1>2, <1>3, <1>4, <1>6 DEF Rows, LoadedIsStored, Issued
  <1>8. \A q \in Req, t \in Token : Carries(q, t)' <=> Carries(q, t)
    BY <1>0, <1>2, <1>3, <1>4 DEF Carries, m
  <1>9. WaitsFit'
    BY <1>0, <1>2, <1>3, <1>4 DEF Page, WaitsFit, On, m
  <1>10. MessagesFit'
    BY <1>1, <1>3, <1>4 DEF Page, MessagesFit
  <1>11. CarriedAreLive' /\ CarriedOnce'
    BY <1>2, <1>8 DEF Page, CarriedAreLive, CarriedOnce, Issued
  <1>12. StoredIsLive'
    BY <1>2, <1>3 DEF Page, StoredIsLive, Issued
  <1>13. AnswerIsLive'
    <2>. SUFFICES ASSUME NEW q \in Req, refreshing = q, pc'[q] = "done",
                         reply[q] # NULL
                  PROVE  /\ reply[q] \in Issued /\ ~tokens[reply[q]].revoked
                         /\ \A x \in Req : ~Carries(x, reply[q])'
      BY <1>2 DEF AnswerIsLive, Issued
    <2>1. /\ reply[q] \in Issued /\ ~tokens[reply[q]].revoked
          /\ \A x \in Req : ~Carries(x, reply[q])
      BY <1>3 DEF Page, AnswerIsLive
    <2>2. reply[q] \in Token /\ reply' = reply
      BY <1>2, <2>1 DEF Issued
    <2>3. PICK t \in Token : t = reply[q] /\ t = reply'[q]
      BY <2>2
    <2>. QED  BY <1>8, <2>1, <2>3
  <1>14. LoginsAreOver'
    BY <1>2, <1>3 DEF Page, LoginsAreOver, Issued
  <1>. QED
    BY <1>5, <1>7, <1>9, <1>10, <1>11, <1>12, <1>13, <1>14 DEF Page, Rows

\* Call r leaves the server: no other call moves, and it presents its token no
\* more.
Leaves(r) ==
    /\ pc[r] = "read" /\ pc'[r] \in {"done", "dropped"}
    /\ req' = req
    /\ \A q \in Req \ {r} :
          pc'[q] = pc[q] /\ seen'[q] = seen[q] /\ reply'[q] = reply[q]

LEMMA LeavesEffect ==
    ASSUME Types, NEW r \in Req, UNCHANGED clientVars,
           Drop(r) \/ \E t \in Token \cup {NULL} : pc[r] = "read" /\ Answer(r, t)
    PROVE  Leaves(r)
  BY DEF Types, TypeOK, Drop, Answer, Leaves

\* The parts of the invariant about the calls alone.
LEMMA LeavesKeeps ==
    ASSUME Types, Uncrossed, NEW r \in Req, Leaves(r), UNCHANGED clientVars
    PROVE  /\ WaitsFit' /\ MessagesFit' /\ CarriedOnce'
           /\ \A q \in Req, t \in Token : Carries(q, t)' <=> Carries(q, t) /\ q # r
           /\ req[r] \in Request /\ req[r].token \in Issued
           /\ \A t \in Token : t = req[r].token => Carries(r, t)
           /\ ~tokens[req[r].token].revoked
           /\ refreshing = r => req[r].op = "refresh"
           /\ logout = r => req[r].op = "logout"
  <1>. USE DEF Uncrossed
  <1>1. UNCHANGED <<store, calls, refreshing, logout, outbound>> /\ outbound[r] = NULL
    BY DEF clientVars, Leaves, Page, MessagesFit
  <1>2. req[r] \in Request /\ req[r].token \in Issued /\ req[r].token \in Token
    BY DEF Types, Loaded, Leaves, Issued
  <1>3. WaitsFit'
    BY <1>1, <1>2 DEF Page, WaitsFit, On, Leaves
  <1>4. MessagesFit'
    BY <1>1 DEF Page, MessagesFit, Leaves
  <1>5. \A q \in Req, t \in Token : Carries(q, t)' <=> Carries(q, t) /\ q # r
    BY <1>1 DEF Carries, Leaves
  <1>6. CarriedOnce'
    BY <1>5 DEF Page, CarriedOnce
  <1>7. Carries(r, req[r].token)
    BY DEF Carries, Leaves
  <1>8. ~tokens[req[r].token].revoked
    BY <1>2, <1>7 DEF Page, CarriedAreLive
  <1>9. /\ refreshing = r => req[r].op = "refresh"
        /\ logout = r => req[r].op = "logout"
    BY <1>1 DEF Page, WaitsFit, On
  <1>. QED  BY <1>2, <1>3, <1>4, <1>5, <1>6, <1>7, <1>8, <1>9

\* A call that changes no token: it is lost, or refused for its expiry.
LEMMA RefuseKeeps ==
    ASSUME Types, Uncrossed, NEW r \in Req, RefuseExpired(r) \/ Drop(r),
           UNCHANGED clientVars
    PROVE  Uncrossed'
  <1>. USE DEF Uncrossed
  <1>1. Leaves(r) /\ UNCHANGED tokens
    BY LeavesEffect DEF RefuseExpired, Drop, Refreshing
  <1>2. UNCHANGED <<store, calls, refreshing, logout, outbound>>
    BY DEF clientVars
  <1>3. /\ WaitsFit' /\ MessagesFit' /\ CarriedOnce'
        /\ \A q \in Req, t \in Token : Carries(q, t)' <=> Carries(q, t) /\ q # r
        /\ logout = r => req[r].op = "logout"
    BY <1>1, LeavesKeeps
  <1>4. Rows'
    <2>1. Lineage' /\ OneLive' /\ OneChild'
      BY <1>1 DEF Rows, Lineage, OneLive, OneChild, Issued
    <2>2. LoadedIsStored'
      BY <1>1 DEF Rows, LoadedIsStored, Leaves, Issued
    <2>. QED  BY <2>1, <2>2 DEF Rows
  <1>5. CarriedAreLive'
    BY <1>1, <1>2, <1>3 DEF Page, CarriedAreLive, Issued
  <1>6. StoredIsLive'
    BY <1>1, <1>2 DEF Page, StoredIsLive, Leaves, Issued
  <1>7. pc'[r] = "done" => reply'[r] = NULL /\ req[r].op = "refresh"
    BY DEF RefuseExpired, Drop, Refreshing, Answer, Types, TypeOK
  <1>8. AnswerIsLive'
    <2>. SUFFICES ASSUME NEW q \in Req, NEW t \in Token, t = reply'[q],
                         refreshing = q, pc'[q] = "done"
                  PROVE  /\ t \in Issued /\ ~tokens[t].revoked
                         /\ \A x \in Req : ~Carries(x, t)'
      <3>1. reply' \in [Req -> Token \cup {NULL}]
        BY ServerTypes DEF CallStep, TypeOK
      <3>. QED  BY <1>1, <1>2, <3>1 DEF AnswerIsLive, Issued
    <2>1. q # r /\ reply[q] = t /\ pc[q] = "done"
      BY <1>1, <1>7, NullIsNone DEF Leaves
    <2>2. t # NULL
      BY NullIsNone
    <2>. QED  BY <1>3, <2>1, <2>2 DEF Page, AnswerIsLive
  <1>9. LoginsAreOver'
    BY <1>1, <1>2, <1>3, <1>7 DEF Page, LoginsAreOver, Leaves, Issued
  <1>. QED  BY <1>3, <1>4, <1>5, <1>6, <1>8, <1>9 DEF Page

\* A logout revokes the last token of its login.
LEMMA LogoutKeeps ==
    ASSUME Types, Uncrossed, NEW r \in Req, Logout(r), UNCHANGED clientVars
    PROVE  Uncrossed'
  <1>. USE DEF Uncrossed
  <1>. DEFINE p == req[r].token
  <1>1. Leaves(r)
    BY LeavesEffect DEF Logout
  <1>2. UNCHANGED <<store, calls, refreshing, logout, outbound>>
    BY DEF clientVars
  <1>3. /\ WaitsFit' /\ MessagesFit' /\ CarriedOnce'
        /\ \A q \in Req, t \in Token : Carries(q, t)' <=> Carries(q, t) /\ q # r
        /\ p \in Issued /\ p \in Token /\ Carries(r, p) /\ ~tokens[p].revoked
        /\ refreshing = r => req[r].op = "refresh"
    BY <1>1, LeavesKeeps DEF Issued
  <1>4. /\ OnlyRevokes /\ tokens'[p].revoked
        /\ \A x \in Issued \ {p} : tokens'[x] = tokens[x]
    BY <1>3, RevokeOne DEF Logout, Types
  <1>5. /\ req[r].op = "logout" /\ pc'[r] = "done"
        /\ UNCHANGED req
    BY DEF Logout, Answer, Types, TypeOK
  <1>. HIDE DEF p
  <1>6. \A t \in Token : t \in Issued' <=> t \in Issued
    BY <1>4 DEF OnlyRevokes
  <1>7. Lineage' /\ OneLive' /\ OneChild'
    BY <1>4, RevokingKeeps DEF Rows, Types
  <1>8. \A q \in Req, t \in Token : Carries(q, t)' => t # p
    BY <1>3 DEF Page, CarriedOnce
  <1>9. LoadedIsStored'
    <2>. SUFFICES ASSUME NEW q \in Req, pc'[q] = "read"
                  PROVE  /\ req[q] \in Request /\ req[q].token \in Issued'
                         /\ seen'[q] \in Row
                         /\ seen'[q].user = tokens'[req[q].token].user
                         /\ seen'[q].login = tokens'[req[q].token].login
                         /\ seen'[q].revoked = tokens'[req[q].token].revoked
      BY <1>5 DEF LoadedIsStored
    <2>1. q # r /\ pc[q] = "read" /\ seen'[q] = seen[q]
      BY <1>1, <1>5 DEF Leaves
    <2>2. req[q].token \in Issued /\ req[q].token \in Token
      BY <2>1 DEF Rows, LoadedIsStored, Issued
    <2>3. req[q].token # p
      BY <1>8, <1>5, <2>2 DEF Carries
    <2>. QED  BY <1>4, <1>6, <2>1, <2>2, <2>3 DEF Rows, LoadedIsStored
  <1>10. CarriedAreLive'
    BY <1>2, <1>3, <1>4, <1>6, <1>8 DEF Page, CarriedAreLive
  <1>11. StoredIsLive'
    <2>. SUFFICES ASSUME store # NULL
                  PROVE  /\ store \in Issued'
                         /\ tokens'[store].revoked =>
                               \E q \in Req : (refreshing = q \/ logout = q)
                                              /\ pc'[q] = "done"
      BY <1>2 DEF StoredIsLive
    <2>1. store \in Issued /\ store \in Token
      BY DEF Page, StoredIsLive, Issued
    <2>2. CASE store = p
      BY <1>3, <1>5, <1>6, <2>1, <2>2 DEF Page, CarriedAreLive
    <2>3. CASE store # p
      BY <1>1, <1>4, <1>6, <2>1, <2>3 DEF Page, StoredIsLive, Leaves
    <2>. QED  BY <2>2, <2>3
  <1>12. AnswerIsLive'
    <2>. SUFFICES ASSUME NEW q \in Req, NEW t \in Token, t = reply'[q],
                         refreshing = q, pc'[q] = "done"
                  PROVE  /\ t \in Issued' /\ ~tokens'[t].revoked
                         /\ \A x \in Req : ~Carries(x, t)'
      <3>1. reply' \in [Req -> Token \cup {NULL}]
        BY ServerTypes DEF CallStep, TypeOK
      <3>. QED  BY <1>2, <3>1 DEF AnswerIsLive
    <2>1. q # r /\ reply[q] = t /\ pc[q] = "done" /\ t # NULL
      BY <1>1, <1>3, <1>5, NullIsNone DEF Leaves
    <2>2. /\ t \in Issued /\ ~tokens[t].revoked
          /\ \A x \in Req : ~Carries(x, t)
      BY <2>1 DEF Page, AnswerIsLive
    <2>3. t # p
      BY <1>3, <2>2
    <2>. QED  BY <1>3, <1>4, <1>6, <2>2, <2>3
  <1>13. LoginsAreOver'
    <2>. SUFFICES ASSUME NEW q \in Req, logout = q, pc'[q] = "done"
                  PROVE  /\ req[q].token \in Issued'
                         /\ \A t \in Issued' :
                               tokens'[t].login = tokens'[req[q].token].login =>
                                   tokens'[t].revoked
      BY <1>2, <1>5 DEF LoginsAreOver
    <2>0. \A t \in Issued' : t \in Issued /\ t \in Token
      BY <1>6 DEF Issued
    <2>1. CASE q = r
      <3>1. \A t \in Issued : tokens[t].login = tokens[p].login /\ t # p =>
                                  tokens[t].revoked
        BY <1>3 DEF Rows, OneLive
      <3>. QED  BY <1>3, <1>4, <1>6, <2>0, <2>1, <3>1 DEF OnlyRevokes, p
    <2>2. CASE q # r
      <3>1. /\ pc[q] = "done" /\ req[q].token \in Issued /\ req[q].token \in Token
            /\ \A t \in Issued : tokens[t].login = tokens[req[q].token].login =>
                  tokens[t].revoked
        BY <1>1, <2>2 DEF Page, LoginsAreOver, Leaves, Issued
      <3>. QED  BY <1>4, <1>6, <2>0, <3>1 DEF OnlyRevokes
    <2>. QED  BY <2>1, <2>2
  <1>. QED  BY <1>3, <1>7, <1>9, <1>10, <1>11, <1>12, <1>13 DEF Page, Rows

\* A rotation revokes the live token of its login and issues the next one.
LEMMA RotationKeeps ==
    ASSUME Types, Uncrossed, NEW r \in Req, NEW n \in Token, Rotate(r, n),
           UNCHANGED clientVars
    PROVE  Uncrossed'
  <1>. USE DEF Uncrossed
  <1>. DEFINE p == req[r].token
  <1>1. Leaves(r)
    BY LeavesEffect DEF Rotate, Refreshing
  <1>2. UNCHANGED <<store, calls, refreshing, logout, outbound>>
    BY DEF clientVars
  <1>3. /\ WaitsFit' /\ MessagesFit' /\ CarriedOnce'
        /\ \A q \in Req, t \in Token : Carries(q, t)' <=> Carries(q, t) /\ q # r
        /\ p \in Issued /\ p \in Token /\ Carries(r, p) /\ ~tokens[p].revoked
        /\ logout = r => req[r].op = "logout"
    BY <1>1, LeavesKeeps DEF Issued
  <1>4. /\ Lineage' /\ OneLive' /\ OneChild'
        /\ n \notin Issued /\ n \in Issued' /\ ~tokens'[n].revoked
        /\ tokens'[n].login = tokens[p].login /\ tokens'[p].revoked
        /\ \A x \in Issued' : x \in Issued \/ x = n
        /\ \A x \in Issued : x \in Issued' /\ tokens'[x].login = tokens[x].login
        /\ \A x \in Issued \ {p} : tokens'[x] = tokens[x]
    BY RotateKeeps DEF Rows, Types
  <1>5. /\ req[r].op = "refresh" /\ pc'[r] = "done" /\ reply'[r] = n
        /\ UNCHANGED req
    BY DEF Rotate, Refreshing, Answer, Types, TypeOK
  <1>. HIDE DEF p
  <1>6. \A t \in Issued : t \in Token
    BY DEF Issued
  <1>7. \A q \in Req, t \in Token : Carries(q, t)' => t # p /\ t \in Issued
    BY <1>3 DEF Page, CarriedOnce, CarriedAreLive
  <1>8. LoadedIsStored'
    <2>. SUFFICES ASSUME NEW q \in Req, pc'[q] = "read"
                  PROVE  /\ req[q] \in Request /\ req[q].token \in Issued'
                         /\ seen'[q] \in Row
                         /\ seen'[q].user = tokens'[req[q].token].user
                         /\ seen'[q].login = tokens'[req[q].token].login
                         /\ seen'[q].revoked = tokens'[req[q].token].revoked
      BY <1>5 DEF LoadedIsStored
    <2>1. q # r /\ pc[q] = "read" /\ seen'[q] = seen[q]
      BY <1>1, <1>5 DEF Leaves
    <2>2. req[q].token \in Issued /\ req[q].token \in Token
      BY <1>6, <2>1 DEF Rows, LoadedIsStored
    <2>3. req[q].token # p
      BY <1>7, <1>5, <2>2 DEF Carries
    <2>. QED  BY <1>4, <2>1, <2>2, <2>3 DEF Rows, LoadedIsStored
  <1>9. CarriedAreLive'
    BY <1>2, <1>3, <1>4, <1>7 DEF Page, CarriedAreLive
  <1>10. StoredIsLive'
    <2>. SUFFICES ASSUME store # NULL
                  PROVE  /\ store \in Issued'
                         /\ tokens'[store].revoked =>
                               \E q \in Req : (refreshing = q \/ logout = q)
                                              /\ pc'[q] = "done"
      BY <1>2 DEF StoredIsLive
    <2>1. store \in Issued
      BY DEF Page, StoredIsLive
    <2>2. CASE store = p
      BY <1>3, <1>4, <1>5, <2>1, <2>2 DEF Page, CarriedAreLive
    <2>3. CASE store # p
      BY <1>1, <1>4, <2>1, <2>3 DEF Page, StoredIsLive, Leaves
    <2>. QED  BY <2>2, <2>3
  <1>11. AnswerIsLive'
    <2>. SUFFICES ASSUME NEW q \in Req, NEW t \in Token, t = reply'[q],
                         refreshing = q, pc'[q] = "done"
                  PROVE  /\ t \in Issued' /\ ~tokens'[t].revoked
                         /\ \A x \in Req : ~Carries(x, t)'
      <3>1. reply' \in [Req -> Token \cup {NULL}]
        BY ServerTypes DEF CallStep, TypeOK
      <3>. QED  BY <1>2, <3>1 DEF AnswerIsLive
    <2>1. CASE q = r
      BY <1>4, <1>5, <1>7, <2>1
    <2>2. CASE q # r
      <3>1. reply[q] = t /\ pc[q] = "done" /\ t # NULL
        BY <1>1, <2>2, NullIsNone DEF Leaves
      <3>2. /\ t \in Issued /\ ~tokens[t].revoked
            /\ \A x \in Req : ~Carries(x, t)
        BY <3>1 DEF Page, AnswerIsLive
      <3>. QED  BY <1>3, <1>4, <3>2
    <2>. QED  BY <2>1, <2>2
  <1>12. LoginsAreOver'
    <2>. SUFFICES ASSUME NEW q \in Req, logout = q, pc'[q] = "done"
                  PROVE  /\ req[q].token \in Issued'
                         /\ \A t \in Issued' :
                               tokens'[t].login = tokens'[req[q].token].login =>
                                   tokens'[t].revoked
      BY <1>2, <1>5 DEF LoginsAreOver
    <2>1. /\ pc[q] = "done" /\ req[q].token \in Issued
          /\ \A t \in Issued : tokens[t].login = tokens[req[q].token].login =>
                tokens[t].revoked
      BY <1>1, <1>3, <1>5 DEF Page, LoginsAreOver, Leaves
    <2>2. tokens[p].login # tokens[req[q].token].login
      BY <1>3, <2>1
    <2>. QED  BY <1>3, <1>4, <2>1, <2>2
  <1>. QED  BY <1>3, <1>4, <1>8, <1>9, <1>10, <1>11, <1>12 DEF Page, Rows

\* A step of a call at the server.
LEMMA ServerKeeps ==
    ASSUME Types, Uncrossed, NEW r \in Req, ServerStep(r)
    PROVE  Uncrossed'
  <1>1. UNCHANGED clientVars /\ CallStep(r)
    BY DEF ServerStep
  <1>2. ~DetectReuse(r)
    <2>. SUFFICES ASSUME Refreshing(r), seen[r].revoked PROVE FALSE
      BY DEF DetectReuse
    <2>1. pc[r] = "read" /\ req[r].token \in Issued /\ req[r].token \in Token
      BY DEF Refreshing, Types, Loaded, Issued
    <2>2. ~tokens[req[r].token].revoked
      BY <2>1 DEF Uncrossed, Page, CarriedAreLive, Carries
    <2>. QED  BY <2>1, <2>2 DEF Uncrossed, Rows, LoadedIsStored
  <1>3. ~LogoutEverywhere(r)
    BY DEF LogoutEverywhere, Uncrossed, Page, MessagesFit
  <1>. QED
    BY <1>1, <1>2, <1>3, RefuseKeeps, LogoutKeeps, RotationKeeps DEF CallStep

\* A login of a page without a session.
LEMMA SignInKeeps ==
    ASSUME Types, Uncrossed, NEW u \in User, NEW n \in Token, SignIn(u, n)
    PROVE  Uncrossed'
  <1>. USE DEF Uncrossed
  <1>1. store = NULL /\ store' = n
        /\ UNCHANGED <<calls, refreshing, logout, outbound>>
    BY DEF SignIn
  <1>2. /\ \A x \in Issued : x \in Issued' /\ tokens'[x] = tokens[x]
        /\ \A x \in Issued' : x \in Issued \/ x = n
        /\ n \notin Issued /\ n \in Issued'
        /\ ~tokens'[n].revoked /\ tokens'[n].login = n
        /\ UNCHANGED <<pc, req, seen, reply>>
        /\ Lineage' /\ OneLive' /\ OneChild'
    BY LoginKeeps DEF SignIn, Rows, Types
  <1>3. /\ \A q \in Req : refreshing # q /\ logout # q
        /\ refreshing = NULL /\ logout = NULL
    BY <1>1, NullIsNone DEF Page, WaitsFit, Types, ClientTypeOK
  <1>4. LoadedIsStored'
    BY <1>2 DEF Rows, LoadedIsStored
  <1>5. \A q \in Req, t \in Token : Carries(q, t)' <=> Carries(q, t)
    BY <1>1, <1>2 DEF Carries
  <1>6. WaitsFit'
    BY <1>1, <1>3 DEF Page, WaitsFit
  <1>7. MessagesFit'
    BY <1>1, <1>2 DEF Page, MessagesFit
  <1>8. CarriedAreLive' /\ CarriedOnce'
    BY <1>1, <1>2, <1>5 DEF Page, CarriedAreLive, CarriedOnce
  <1>9. StoredIsLive' /\ AnswerIsLive' /\ LoginsAreOver'
    BY <1>1, <1>2, <1>3 DEF StoredIsLive, AnswerIsLive, LoginsAreOver
  <1>. QED  BY <1>2, <1>4, <1>6, <1>7, <1>8, <1>9 DEF Page, Rows

\* A refresh token expires.
LEMMA ExpiryKeeps ==
    ASSUME Types, Uncrossed, NEW e \in Token, ExpireRefresh(e)
    PROVE  Uncrossed'
  <1>. USE DEF Uncrossed
  <1>1. UNCHANGED <<store, calls, refreshing, logout, outbound>>
    BY DEF ExpireRefresh, clientVars
  <1>2. /\ OnlyRevokes /\ UNCHANGED <<pc, req, seen, reply>>
        /\ \A x \in Issued : tokens'[x].revoked = tokens[x].revoked
    BY ExpireEffect DEF ExpireRefresh, Types
  <1>3. Lineage' /\ OneLive' /\ OneChild'
    BY <1>2, RevokingKeeps DEF Rows, Types
  <1>4. /\ \A x \in Issued : x \in Issued' /\ tokens'[x].login = tokens[x].login
                             /\ tokens'[x].user = tokens[x].user
        /\ \A x \in Issued' : x \in Issued
    BY <1>2 DEF OnlyRevokes, Issued
  <1>5. LoadedIsStored'
    BY <1>2, <1>4 DEF Rows, LoadedIsStored
  <1>6. \A q \in Req, t \in Token : Carries(q, t)' <=> Carries(q, t)
    BY <1>1, <1>2 DEF Carries
  <1>7. WaitsFit' /\ MessagesFit'
    BY <1>1, <1>2 DEF Page, WaitsFit, MessagesFit, On
  <1>8. CarriedAreLive' /\ CarriedOnce'
    BY <1>1, <1>2, <1>4, <1>6 DEF Page, CarriedAreLive, CarriedOnce
  <1>9. StoredIsLive' /\ LoginsAreOver'
    BY <1>1, <1>2, <1>4 DEF Page, StoredIsLive, LoginsAreOver
  <1>10. AnswerIsLive'
    <2>. SUFFICES ASSUME NEW q \in Req, NEW t, t = reply[q],
                         refreshing = q, pc[q] = "done", t # NULL
                  PROVE  /\ t \in Issued' /\ ~tokens'[t].revoked
                         /\ \A x \in Req : ~Carries(x, t)'
      BY <1>1, <1>2 DEF AnswerIsLive
    <2>1. /\ t \in Issued /\ ~tokens[t].revoked
          /\ \A x \in Req : ~Carries(x, t)
      BY DEF Page, AnswerIsLive
    <2>2. t \in Token
      BY <2>1 DEF Issued
    <2>. QED  BY <1>2, <1>4, <1>6, <2>1, <2>2
  <1>. QED  BY <1>3, <1>5, <1>7, <1>8, <1>9, <1>10 DEF Page, Rows

-----------------------------------------------------------------------------
(* The invariant and the theorems.                                         *)

\* A page that is loaded again while nothing is under way.
LEMMA ReloadKeeps ==
    ASSUME Types, Uncrossed, Reload, ~crossed'
    PROVE  Uncrossed'
  <1>. USE DEF Uncrossed
  <1>1. /\ store # NULL /\ UNCHANGED <<serverVars, store, outbound>>
        /\ refreshing' = NULL /\ logout' = NULL
        /\ ~UnderWay("refresh") /\ ~UnderWay("logout")
    BY DEF Reload
  <1>2. refreshing = NULL /\ logout = NULL
    BY <1>1, NothingAwaited DEF Page
  <1>3. /\ store \in Issued /\ ~tokens[store].revoked
        /\ \A q \in Req : ~Carries(q, store)
    BY <1>1, <1>2, StoredIsUnseen
  <1>4. \A c \in Call : calls'[c].waits = NULL
    BY DEF Reload, Quiet
  <1>5. /\ MessagesFit' /\ UNCHANGED tokens
        /\ \A q \in Req, t \in Token : Carries(q, t)' => Carries(q, t)
    BY <1>1 DEF Page, MessagesFit, Carries, serverVars
  <1>6. Page'
    BY <1>1, <1>3, <1>4, <1>5, QuietPage
  <1>. QED  BY <1>1, <1>6, SameRows

LEMMA UncrossedNext ==
    ASSUME Types, Uncrossed, ClientNext, ~crossed'
    PROVE  Uncrossed'
  <1>1. ASSUME NEW u \in User, NEW t \in Token, SignIn(u, t)
        PROVE  Uncrossed'
    BY <1>1, SignInKeeps
  <1>2. ASSUME NEW c \in Call, Send(c) \/ Served(c) \/ GiveUp(c) \/ Join(c)
        PROVE  Uncrossed'
    <2>1. UNCHANGED <<serverVars, store, refreshing, logout, outbound>>
      BY <1>2 DEF Send, Served, GiveUp, Join
    <2>2. PICK row : /\ calls' = [calls EXCEPT ![c] = row]
                     /\ row.waits = NULL \/ row.waits = refreshing
      <3>1. CASE Send(c)
        <4>1. [Quiet EXCEPT !.stage = "sent", !.header = store].waits = NULL
          BY DEF Quiet
        <4>. QED  BY <3>1, <4>1 DEF Send
      <3>2. CASE Served(c) \/ GiveUp(c)
        <4>1. Quiet.waits = NULL
          BY DEF Quiet
        <4>. QED  BY <3>2, <4>1 DEF Served, GiveUp
      <3>3. CASE Join(c)
        <4>1. [stage |-> "waiting", header |-> NULL, retried |-> TRUE,
               waits |-> refreshing].waits = refreshing
          OBVIOUS
        <4>. QED  BY <3>3, <4>1 DEF Join, Waiting
      <3>. QED  BY <1>2, <3>1, <3>2, <3>3
    <2>3. \A d \in Call : calls'[d].waits = calls[d].waits
                       \/ calls'[d].waits = NULL \/ calls'[d].waits = refreshing
      BY <2>2 DEF Types, ClientTypeOK
    <2>4. Page'
      BY <2>1, <2>3, RequestsKeep DEF Uncrossed
    <2>. QED  BY <2>1, <2>4, SameRows DEF Uncrossed
  <1>3. ASSUME NEW c \in Call, NEW r \in Req, StartRefresh(c, r)
        PROVE  Uncrossed'
    <2>1. /\ UNCHANGED <<serverVars, store>> /\ store # NULL /\ Post(r, "refresh")
          /\ refreshing = NULL /\ refreshing' = r /\ UNCHANGED logout
          /\ ~UnderWay("logout")
      BY <1>3 DEF StartRefresh
    <2>2. logout = NULL
      BY <2>1, NothingAwaited DEF Uncrossed, Page
    <2>3. \A d \in Call : calls'[d].waits = r \/ calls'[d] = calls[d]
      <3>. DEFINE row == [stage |-> "waiting", header |-> NULL, retried |-> TRUE,
                          waits |-> r]
      <3>1. row.waits = r
        OBVIOUS
      <3>2. calls' = [calls EXCEPT ![c] = row]
        BY <1>3 DEF StartRefresh, Waiting
      <3>. HIDE DEF row
      <3>. QED  BY <3>1, <3>2 DEF Types, ClientTypeOK
    <2>4. Page'
      BY <2>1, <2>2, <2>3, PostKeeps DEF Uncrossed
    <2>. QED  BY <2>1, <2>4, SameRows DEF Uncrossed
  <1>4. ASSUME NEW r \in Req,
               Arrive(r) \/ ServerStep(r) \/ Forget(r) \/ RefreshSettles(r)
                         \/ LogoutSettles(r)
        PROVE  Uncrossed'
    BY <1>4, ArriveKeeps, ServerKeeps, ForgetKeeps, RefreshSettlesKeeps,
       LogoutSettlesKeeps
  <1>5. ASSUME NEW r \in Req, StartLogout(r)
        PROVE  Uncrossed'
    <2>1. /\ UNCHANGED <<serverVars, store, calls, refreshing>>
          /\ store # NULL /\ Post(r, "logout")
          /\ logout = NULL /\ logout' = r /\ ~UnderWay("refresh")
      BY <1>5 DEF StartLogout
    <2>2. refreshing = NULL
      BY <2>1, NothingAwaited DEF Uncrossed, Page
    <2>3. Page'
      BY <2>1, <2>2, PostKeeps DEF Uncrossed
    <2>. QED  BY <2>1, <2>3, SameRows DEF Uncrossed
  <1>6. ASSUME NEW t \in Token, ExpireAccess(t)
        PROVE  Uncrossed'
    <2>1. UNCHANGED <<serverVars, store, calls, refreshing, logout, outbound>>
      BY <1>6 DEF ExpireAccess, pageVars
    <2>2. Page'
      BY <2>1, RequestsKeep DEF Uncrossed
    <2>. QED  BY <2>1, <2>2, SameRows DEF Uncrossed
  <1>7. ASSUME NEW t \in Token, ExpireRefresh(t)
        PROVE  Uncrossed'
    BY <1>7, ExpiryKeeps
  <1>8. CASE Reload
    BY <1>8, ReloadKeeps
  <1>. QED
    BY <1>1, <1>2, <1>3, <1>4, <1>5, <1>6, <1>7, <1>8 DEF ClientNext, CallHandled

\* A conflict is not forgotten.
LEMMA CrossedStays == Types /\ ClientNext /\ crossed => crossed'
  BY DEF ClientNext, SignIn, Send, CallHandled, Served, GiveUp, Join,
     StartRefresh, Arrive, ServerStep, clientVars, Forget, RefreshSettles,
     RefreshSucceeds, RefreshRefused, RefreshLost, StartLogout, LogoutSettles,
     LogoutAnswered, LogoutUnauthorized, LogoutLost, ExpireAccess,
     ExpireRefresh, Reload

LEMMA IInvInit == ClientInit => IInv
  <1>. SUFFICES ASSUME ClientInit PROVE IInv
    OBVIOUS
  <1>1. TypeOK /\ Loaded /\ Rows
    BY DEF ClientInit, Init, TypeOK, Loaded, Rows, LoadedIsStored, Lineage,
       OneLive, OneChild, Issued
  <1>2. ClientTypeOK
    BY QuietRow DEF ClientInit, ClientTypeOK
  <1>3. \A r \in Req : r # NULL
    BY NullIsNone
  <1>4. Page
    BY <1>3 DEF ClientInit, Init, Page, WaitsFit, MessagesFit, CarriedAreLive,
       CarriedOnce, Carries, StoredIsLive, AnswerIsLive, LoginsAreOver, Quiet
  <1>. QED  BY <1>1, <1>2, <1>4 DEF IInv, Types, Uncrossed

LEMMA IInvNext == IInv /\ [ClientNext]_allVars => IInv'
  <1>. SUFFICES ASSUME IInv, [ClientNext]_allVars PROVE IInv'
    OBVIOUS
  <1>1. CASE UNCHANGED allVars
    BY <1>1 DEF allVars, IInv, Types, TypeOK, ClientTypeOK, Loaded, Uncrossed,
       Rows, Lineage, OneLive, OneChild, LoadedIsStored, Page, WaitsFit, On,
       MessagesFit, CarriedAreLive, CarriedOnce, Carries, StoredIsLive,
       AnswerIsLive, LoginsAreOver, Issued
  <1>2. CASE ClientNext
    <2>1. Types'
      BY <1>2, TypesNext DEF IInv
    <2>2. ASSUME ~crossed' PROVE Uncrossed'
      BY <1>2, <2>2, CrossedStays, UncrossedNext DEF IInv
    <2>. QED  BY <2>1, <2>2 DEF IInv
  <1>. QED  BY <1>1, <1>2

\* The inductive invariant of the tab and the token service.
THEOREM ClientInvariance == ClientSpec => []IInv
  BY IInvInit, IInvNext, PTL DEF ClientSpec

\* The types of the tab's state, and of the server's below it.
THEOREM ClientTypes == ClientSpec => [](TypeOK /\ ClientTypeOK)
  <1>1. IInv => TypeOK /\ ClientTypeOK
    BY DEF IInv, Types
  <1>. QED  BY <1>1, ClientInvariance, PTL

\* Unless a logout or a reload met a refresh, the tab presents no token that was
\* exchanged before, whatever is lost, late or given up.
THEOREM NeverReusedHolds == ClientSpec => []NeverReused
  <1>1. IInv => NeverReused
    <2>. SUFFICES ASSUME IInv, NEW r \in Req, Refreshing(r), ~crossed
                  PROVE  ~seen[r].revoked /\ Children(req[r].token) = {}
      BY DEF NeverReused
    <2>1. Uncrossed /\ pc[r] = "read"
      BY DEF IInv, Refreshing
    <2>2. /\ req[r].token \in Issued /\ req[r].token \in Token
          /\ seen[r].revoked = tokens[req[r].token].revoked
      BY <2>1 DEF Uncrossed, Rows, LoadedIsStored, Issued
    <2>3. Carries(r, req[r].token)
      BY <2>1 DEF Carries
    <2>4. ~tokens[req[r].token].revoked
      BY <2>1, <2>2, <2>3 DEF Uncrossed, Page, CarriedAreLive
    <2>5. Children(req[r].token) = {}
      BY <2>1, <2>2, <2>4, NullIsNone DEF Uncrossed, Rows, Lineage, Children
    <2>. QED  BY <2>2, <2>4, <2>5
  <1>. QED  BY <1>1, ClientInvariance, PTL

\* The stored token is live whenever nobody is about to change it.
THEOREM StoreIsLiveHolds == ClientSpec => []StoreIsLive
  <1>1. IInv => StoreIsLive
    BY NothingAwaited, StoredIsUnseen DEF IInv, Uncrossed, Page, StoreIsLive
  <1>. QED  BY <1>1, ClientInvariance, PTL

\* A logout that was answered, and met no refresh, has revoked every token of its
\* login.
THEOREM LogoutEndsLoginHolds == ClientSpec => LogoutEndsLogin
  <1>1. IInv /\ [ClientNext]_allVars =>
          [\A r \in Req :
              logout = r /\ pc[r] = "done" /\ logout' = NULL /\ ~crossed =>
                  \A t \in Issued :
                      tokens[t].login = tokens[req[r].token].login =>
                          tokens[t].revoked]_allVars
    BY DEF IInv, Uncrossed, Page, LoginsAreOver
  <1>. QED  BY <1>1, ClientInvariance, PTL DEF ClientSpec, LogoutEndsLogin

-----------------------------------------------------------------------------
(* The token service behind the tab: what the theorems about RefreshTokens *)
(* say of it, although ids of calls are used again.                        *)

\* A step of the tab and its messages that is none of the token service leaves
\* its table alone, and no call reads a token in it.
Aside ==
    /\ UNCHANGED tokens
    /\ pc' \in [Req -> {"idle", "read", "done", "dropped"}]
    /\ req' \in [Req -> Request \cup {NULL}]
    /\ seen' \in [Req -> Row \cup {NULL}]
    /\ reply' \in [Req -> Token \cup {NULL}]
    /\ \A q \in Req : pc'[q] = "read" =>
          pc[q] = "read" /\ req'[q] = req[q] /\ seen'[q] = seen[q]

LEMMA ClientKinds ==
    ASSUME Types, ClientNext
    PROVE  \/ Aside
           \/ \E u \in User, t \in Token : SignIn(u, t)
           \/ \E r \in Req : Arrive(r) \/ ServerStep(r)
           \/ \E t \in Token : ExpireRefresh(t)
  <1>0. TypeOK
    BY DEF Types
  <1>1. ASSUME UNCHANGED serverVars PROVE Aside
    BY <1>0, <1>1 DEF Aside, serverVars, TypeOK
  <1>2. ASSUME NEW r \in Req, Recycle(r) PROVE Aside
    BY <1>0, <1>2 DEF Aside, Recycle, TypeOK
  <1>. QED
    BY <1>1, <1>2
       DEF ClientNext, Send, CallHandled, Served, GiveUp, Join, StartRefresh,
           Forget, RefreshSettles, RefreshSucceeds, RefreshRefused, RefreshLost,
           StartLogout, LogoutSettles, LogoutAnswered, LogoutUnauthorized,
           LogoutLost, ExpireAccess, Reload

LEMMA Arrival ==
    ASSUME Types, NEW r \in Req, Arrive(r)
    PROVE  \E op \in {"refresh", "logout"}, t \in Token : ReadToken(r, op, t)
  <1>. DEFINE m == outbound[r]
  <1>1. m \in Message /\ ReadToken(r, m.op, m.pair)
    BY NullIsNone DEF Arrive, Types, ClientTypeOK
  <1>2. m.op \in {"refresh", "logout"} /\ m.pair \in Token
    BY <1>1 DEF Message
  <1>. HIDE DEF m
  <1>. QED  BY <1>1, <1>2

LEMMA ServiceSteps ==
    ASSUME Types, ClientNext
    PROVE  Next \/ Aside
  <1>1. ASSUME NEW r \in Req, Arrive(r) PROVE Next
    BY <1>1, Arrival DEF Next
  <1>. QED
    BY <1>1, ClientKinds DEF Next, SignIn, ServerStep, ExpireRefresh

\* Only the page's sign-in issues the token of a login.
LEMMA LoginsAreSignIns ==
    ASSUME Types, ClientNext, NEW u \in User, NEW t \in Token, Login(u, t)
    PROVE  \E n \in Token : SignIn(u, n)
  <1>0. TypeOK /\ Issues(t, u, t, NULL) /\ UNCHANGED pc
    BY LoginIssues DEF Types
  <1>1. CASE Aside
    BY <1>0, <1>1 DEF Aside, Issues, Issued
  <1>2. ASSUME NEW v \in User, NEW n \in Token, SignIn(v, n)
        PROVE  SignIn(u, n)
    <2>1. Issues(n, v, n, NULL)
      BY <1>0, <1>2, LoginIssues DEF SignIn
    <2>. QED  BY <1>0, <1>2, <2>1 DEF Issues
  <1>3. ASSUME NEW r \in Req, Arrive(r) PROVE FALSE
    BY <1>0, <1>3, Arrival DEF ReadToken, TypeOK
  <1>4. ASSUME NEW r \in Req, ServerStep(r) PROVE FALSE
    <2>1. pc[r] = "read" /\ pc'[r] \in {"done", "dropped"}
      BY <1>0, <1>4
         DEF ServerStep, CallStep, DetectReuse, RefuseExpired, Logout,
             LogoutEverywhere, Drop, Rotate, Refreshing, Answer, TypeOK
    <2>. QED  BY <1>0, <2>1
  <1>5. ASSUME NEW e \in Token, ExpireRefresh(e) PROVE FALSE
    BY <1>0, <1>5, ExpireEffect DEF ExpireRefresh, OnlyRevokes, Issues
  <1>. QED  BY <1>1, <1>2, <1>3, <1>4, <1>5, ClientKinds

LEMMA AsideKeeps ==
    ASSUME OverlapInv, Aside
    PROVE  OverlapInv'
  <1>1. TypeOK' /\ Families'
    BY DEF Aside, OverlapInv, TypeOK, Families, Issued
  <1>2. LoadedBefore'
    BY DEF Aside, OverlapInv, LoadedBefore, Issued
  <1>. QED  BY <1>1, <1>2 DEF OverlapInv

Service == IInv /\ OverlapInv

LEMMA ServiceInit == ClientInit => Service
  BY IInvInit, OverlapInit DEF ClientInit, Service

LEMMA ServiceNext == Service /\ [ClientNext]_allVars => Service'
  <1>1. ASSUME OverlapInv, UNCHANGED allVars PROVE OverlapInv'
    BY <1>1, OverlapNext DEF allVars, vars
  <1>2. ASSUME Service, ClientNext PROVE OverlapInv'
    BY <1>2, ServiceSteps, OverlapNext, AsideKeeps DEF Service, IInv
  <1>. QED  BY <1>1, <1>2, IInvNext DEF Service

\* The rows of the token table behind the tab, also after a logout or a reload
\* met a refresh: a session has one owner, and a token was exchanged for a
\* revoked one of its session.
THEOREM ServiceInvariance == ClientSpec => []Service
  BY ServiceInit, ServiceNext, PTL DEF ClientSpec

\* The tab's refreshes and logouts do to the login sessions what overlapping
\* calls may do, and nothing else, whatever is lost, late, given up or crossed.
THEOREM TabKeepsOverlapLogins == ClientSpec => KeepsOverlapLogins
  <1>1. Service /\ [ClientNext]_allVars => [Logins!OverlapNext]_(Logins!vars)
    <2>1. ASSUME UNCHANGED tokens PROVE UNCHANGED <<Owner, Valid, Issued>>
      BY <2>1, NothingHappens DEF Issued
    <2>. QED
      BY <2>1, ServiceSteps, OverlapSteps
         DEF allVars, Aside, Service, IInv, Logins!vars
  <1>2. ClientInit => Logins!Init
    BY InitMaps DEF ClientInit
  <1>. QED
    BY <1>1, <1>2, ServiceInvariance, PTL
       DEF ClientSpec, KeepsOverlapLogins, Logins!OverlapSpec

\* As long as no logout or reload met a refresh, the tab's steps are those of
\* login sessions in which nothing overlaps, although its calls do at the
\* server: the one valid token is exchanged, or the session ends.
KeepsLoginsUntilCrossed == [][~crossed => Logins!Next]_(Logins!vars)

\* Until a logout or a reload meets a refresh, the tab's steps are those of login
\* sessions without overlap.
THEOREM TabKeepsLogins == ClientSpec => KeepsLoginsUntilCrossed
  <1>1. Service /\ [ClientNext]_allVars => [~crossed => Logins!Next]_(Logins!vars)
    <2>1. ASSUME UNCHANGED tokens PROVE UNCHANGED <<Owner, Valid, Issued>>
      BY <2>1, NothingHappens DEF Issued
    <2>2. ASSUME Service, ClientNext, ~crossed
          PROVE  Logins!Next \/ UNCHANGED <<Owner, Valid, Issued>>
      BY <2>1, <2>2, ServiceSteps, StrictSteps
         DEF Aside, Service, IInv, Uncrossed, Rows
    <2>. QED  BY <2>1, <2>2 DEF allVars, Logins!vars
  <1>. QED
    BY <1>1, ServiceInvariance, PTL DEF ClientSpec, KeepsLoginsUntilCrossed

\* The rotation that the tab drives is single-use until then, and leaves one
\* live token for each login, although nothing keeps its calls apart.
THEOREM TabIsSingleUse ==
    ClientSpec => [](~crossed => SingleUse /\ OneLivePerLogin)
  <1>1. IInv => (~crossed => SingleUse /\ OneLivePerLogin)
    BY NullIsNone, ChildIsOne, LiveIsOne DEF IInv, Uncrossed, Rows
  <1>. QED  BY <1>1, ClientInvariance, PTL

\* A user whose sessions were ended by the reuse detection, with no refresh of
\* theirs at the server, has no live token until the user signs in again: no
\* late message and no retry of the tab brings one back.
SignedOutIsFinal ==
    [][\A u \in User :
          LoggedOut(u) => LoggedOut(u)' \/ \E t \in Token : SignIn(u, t)]_allVars

\* Only a sign-in gives a live token to a user left without one, whatever the tab
\* still has under way.
THEOREM SignedOutIsFinalHolds == ClientSpec => SignedOutIsFinal
  <1>1. Service /\ [ClientNext]_allVars =>
          [\A u \in User :
              LoggedOut(u) => LoggedOut(u)' \/ \E t \in Token : SignIn(u, t)]_allVars
    <2>. SUFFICES ASSUME Service, ClientNext, NEW u \in User, LoggedOut(u),
                         \A t \in Token : ~SignIn(u, t)
                  PROVE  LoggedOut(u)'
      OBVIOUS
    <2>1. CASE Aside
      BY <2>1 DEF Aside, LoggedOut, Live, Issued, Refreshing
    <2>2. CASE Next
      <3>1. \A t \in Token : ~Login(u, t)
        BY LoginsAreSignIns DEF Service, IInv
      <3>. QED  BY <2>2, <3>1, StaysLoggedOut DEF Service
    <2>. QED  BY <2>1, <2>2, ServiceSteps DEF Service, IInv
  <1>. QED  BY <1>1, ServiceInvariance, PTL DEF ClientSpec, SignedOutIsFinal

-----------------------------------------------------------------------------
(* Requests that wait, whatever crosses.                                   *)

\* A request waits for the refresh of the page; the calls the page waits for
\* are on their way, at the server, or over.
PageWaits ==
    /\ \A c \in Call : /\ calls[c].stage = "waiting" <=> calls[c].waits # NULL
                       /\ calls[c].waits # NULL => calls[c].waits = refreshing
    /\ \A r \in Req : /\ outbound[r] # NULL => pc[r] = "idle"
                      /\ refreshing = r => On(r, "refresh")
                      /\ logout = r => On(r, "logout")

\* The request c becomes row, or those that await r do.
LEMMA RowsOfRequests ==
    ASSUME ClientTypeOK, NEW row
    PROVE  /\ \A c \in Call : calls' = [calls EXCEPT ![c] = row] =>
                 calls'[c] = row /\ \A d \in Call \ {c} : calls'[d] = calls[d]
           /\ \A r \in Req :
                 calls' = [c \in Call |-> IF calls[c].waits = r THEN row ELSE calls[c]] =>
                 \A d \in Call : calls'[d] = IF calls[d].waits = r THEN row ELSE calls[d]
  BY DEF ClientTypeOK

\* The server and the messages stay, and with them the calls the page awaits.
LEMMA SameCalls ==
    ASSUME PageWaits, UNCHANGED <<pc, req, outbound, refreshing, logout>>,
           \A c \in Call :
              \/ calls'[c] = calls[c]
              \/ calls'[c].stage # "waiting" /\ calls'[c].waits = NULL
              \/ /\ calls[c].stage # "waiting" /\ calls'[c].stage = "waiting"
                 /\ calls'[c].waits = refreshing /\ refreshing # NULL
    PROVE  PageWaits'
  BY DEF PageWaits, On

\* A request that starts to wait, or stops to, or none: what no step does is to
\* let one that waits for a refresh wait on when the page's refresh changes.
WaitsKeepUp ==
    \A c \in Call :
        calls[c].stage = "waiting" /\ calls'[c].stage = "waiting" =>
            calls'[c].waits = calls[c].waits

\* Ids of calls that are not the page's are used and used again.
LEMMA PostWaits ==
    ASSUME Types, PageWaits, NEW r \in Req, NEW op \in {"refresh", "logout"},
           store # NULL, Post(r, op), UNCHANGED serverVars
    PROVE  /\ refreshing # r /\ logout # r
           /\ outbound'[r] # NULL /\ outbound'[r].op = op
           /\ \A q \in Req : outbound'[q] # NULL => pc'[q] = "idle"
           /\ \A q \in Req \ {r}, o \in {"refresh", "logout"} : On(q, o) => On(q, o)'
  BY PostTypes DEF Types, PageWaits, On, serverVars

LEMMA RecycleWaits ==
    ASSUME Types, PageWaits, NEW r \in Req, Recycle(r),
           \/ UNCHANGED outbound
           \/ outbound' = [outbound EXCEPT ![r] = NULL]
    PROVE  /\ \A q \in Req : outbound'[q] # NULL => pc'[q] = "idle"
           /\ \A q \in Req \ {r}, o \in {"refresh", "logout"} : On(q, o) => On(q, o)'
  BY DEF Types, TypeOK, ClientTypeOK, PageWaits, On, Recycle

LEMMA WaitsNext ==
    ASSUME Types, PageWaits, ClientNext
    PROVE  PageWaits' /\ WaitsKeepUp
  <1>0. TypeOK /\ ClientTypeOK
    BY DEF Types
  <1>1. ASSUME NEW c \in Call, Send(c) \/ Served(c) \/ GiveUp(c) \/ Join(c)
        PROVE  PageWaits' /\ WaitsKeepUp
    <2>1. UNCHANGED <<pc, req, outbound, refreshing, logout>>
      BY <1>1 DEF Send, Served, GiveUp, Join, serverVars
    <2>2. /\ \A d \in Call \ {c} : calls'[d] = calls[d]
          /\ calls[c].stage # "waiting"
          /\ \/ calls'[c].stage # "waiting" /\ calls'[c].waits = NULL
             \/ /\ calls'[c].stage = "waiting"
                /\ calls'[c].waits = refreshing /\ refreshing # NULL
      <3>1. CASE Send(c) \/ Served(c) \/ GiveUp(c)
        <4>. DEFINE sent == [Quiet EXCEPT !.stage = "sent", !.header = store]
        <4>1. /\ Quiet.stage # "waiting" /\ Quiet.waits = NULL
              /\ sent.stage # "waiting" /\ sent.waits = NULL
          BY DEF Quiet
        <4>2. /\ \/ calls' = [calls EXCEPT ![c] = sent]
                 \/ calls' = [calls EXCEPT ![c] = Quiet]
              /\ calls[c].stage # "waiting"
          BY <3>1 DEF Send, Served, GiveUp, Unauthorized
        <4>. HIDE DEF sent
        <4>. QED  BY <1>0, <4>1, <4>2, RowsOfRequests
      <3>2. CASE Join(c)
        <4>. DEFINE row == [stage |-> "waiting", header |-> NULL,
                            retried |-> TRUE, waits |-> refreshing]
        <4>1. /\ calls' = [calls EXCEPT ![c] = row] /\ refreshing # NULL
              /\ calls[c].stage = "sent"
          BY <3>2 DEF Join, Waiting, Unauthorized
        <4>2. row.stage = "waiting" /\ row.waits = refreshing
          OBVIOUS
        <4>. HIDE DEF row
        <4>. QED  BY <1>0, <4>1, <4>2, RowsOfRequests
      <3>. QED  BY <1>1, <3>1, <3>2
    <2>. QED  BY <2>1, <2>2, SameCalls DEF WaitsKeepUp
  <1>2. ASSUME NEW c \in Call, NEW r \in Req, StartRefresh(c, r)
        PROVE  PageWaits' /\ WaitsKeepUp
    <2>. DEFINE row == [stage |-> "waiting", header |-> NULL,
                        retried |-> TRUE, waits |-> r]
    <2>1. /\ calls' = [calls EXCEPT ![c] = row] /\ refreshing = NULL
          /\ calls[c].stage = "sent" /\ refreshing' = r /\ logout' = logout
          /\ UNCHANGED serverVars
      BY <1>2 DEF StartRefresh, Waiting, Unauthorized
    <2>2. row.stage = "waiting" /\ row.waits = r /\ r # NULL
      BY NullIsNone
    <2>. HIDE DEF row
    <2>3. calls'[c] = row /\ \A d \in Call \ {c} : calls'[d] = calls[d]
      BY <1>0, <2>1, RowsOfRequests
    <2>4. /\ logout # r
          /\ outbound'[r] # NULL /\ outbound'[r].op = "refresh"
          /\ \A q \in Req : outbound'[q] # NULL => pc'[q] = "idle"
          /\ \A q \in Req \ {r} : On(q, "logout") => On(q, "logout")'
      BY <1>2, <2>1, PostWaits DEF StartRefresh
    <2>5. \A d \in Call : calls[d].waits = NULL /\ calls[d].stage # "waiting"
      BY <2>1 DEF PageWaits
    <2>6. On(r, "refresh")'
      BY <2>4 DEF On
    <2>. QED
      BY <2>1, <2>2, <2>3, <2>4, <2>5, <2>6 DEF PageWaits, WaitsKeepUp
  <1>3. ASSUME NEW r \in Req, Arrive(r) PROVE PageWaits' /\ WaitsKeepUp
    <2>. DEFINE m == outbound[r]
                asked == [op |-> m.op, token |-> m.pair]
    <2>1. m \in Message /\ ReadToken(r, m.op, m.pair) /\ UNCHANGED pageVars
          /\ outbound' = [outbound EXCEPT ![r] = NULL]
      BY <1>0, <1>3, NullIsNone DEF Arrive, ClientTypeOK
    <2>2. asked \in Request /\ asked.op = m.op
      BY <2>1 DEF Message, Request
    <2>3. pc' = [pc EXCEPT ![r] = "read"] /\ req' = [req EXCEPT ![r] = asked]
      BY <2>1 DEF ReadToken
    <2>4. pc[r] = "idle" /\ m # NULL
      BY <1>3, <2>1 DEF ReadToken, Arrive
    <2>. HIDE DEF asked
    <2>5. /\ \A q \in Req : outbound'[q] # NULL => pc'[q] = "idle"
          /\ \A q \in Req, o \in {"refresh", "logout"} : On(q, o) => On(q, o)'
      BY <1>0, <2>1, <2>2, <2>3, <2>4 DEF On, TypeOK, ClientTypeOK, PageWaits
    <2>. QED  BY <2>1, <2>5 DEF pageVars, PageWaits, WaitsKeepUp
  <1>4. ASSUME NEW r \in Req, ServerStep(r) PROVE PageWaits' /\ WaitsKeepUp
    <2>1. /\ pc[r] = "read" /\ pc'[r] # "idle" /\ req' = req
          /\ \A q \in Req \ {r} : pc'[q] = pc[q]
      BY <1>0, <1>4
         DEF ServerStep, CallStep, DetectReuse, RefuseExpired, Logout,
             LogoutEverywhere, Drop, Rotate, Refreshing, Answer, TypeOK
    <2>. QED
      BY <1>4, <2>1 DEF ServerStep, clientVars, PageWaits, On, WaitsKeepUp
  <1>5. ASSUME NEW r \in Req, Forget(r) PROVE PageWaits' /\ WaitsKeepUp
    <2>1. /\ \A q \in Req : outbound'[q] # NULL => pc'[q] = "idle"
          /\ \A q \in Req \ {r}, o \in {"refresh", "logout"} : On(q, o) => On(q, o)'
      BY <1>5, RecycleWaits DEF Forget
    <2>. QED
      BY <1>5, <2>1 DEF Forget, Awaited, pageVars, PageWaits, WaitsKeepUp
  <1>6. ASSUME NEW r \in Req, RefreshSettles(r) PROVE PageWaits' /\ WaitsKeepUp
    <2>1. refreshing = r /\ logout # r
      BY <1>6, NullIsNone
         DEF RefreshSettles, RefreshSucceeds, RefreshRefused, RefreshLost,
             Awaited, PageWaits
    <2>2. PICK row : /\ row.stage # "waiting" /\ row.waits = NULL /\ Wake(r, row)
                     /\ logout' = logout
      <3>1. CASE RefreshSucceeds(r)
        <4>. DEFINE sent == [stage |-> "sent", header |-> reply[r],
                             retried |-> TRUE, waits |-> NULL]
        <4>1. sent.stage # "waiting" /\ sent.waits = NULL
          OBVIOUS
        <4>2. Wake(r, sent) /\ logout' = logout
          BY <3>1 DEF RefreshSucceeds
        <4>. QED  BY <4>1, <4>2
      <3>2. CASE RefreshRefused(r) \/ RefreshLost(r)
        <4>1. Quiet.stage # "waiting" /\ Quiet.waits = NULL
          BY DEF Quiet
        <4>2. Wake(r, Quiet) /\ logout' = logout
          BY <3>2 DEF RefreshRefused, RefreshLost
        <4>. QED  BY <4>1, <4>2
      <3>. QED  BY <1>6, <3>1, <3>2 DEF RefreshSettles
    <2>3. /\ refreshing' = NULL
          /\ \A d \in Call : calls'[d].stage # "waiting" /\ calls'[d].waits = NULL
      <3>1. \A d \in Call : calls'[d] = IF calls[d].waits = r THEN row ELSE calls[d]
        BY <1>0, <2>2, RowsOfRequests DEF Wake
      <3>2. \A d \in Call : calls[d].waits # NULL => calls[d].waits = r
        BY <2>1 DEF PageWaits
      <3>. QED  BY <2>2, <3>1, <3>2 DEF PageWaits, Wake
    <2>4. /\ \A q \in Req : outbound'[q] # NULL => pc'[q] = "idle"
          /\ \A q \in Req \ {r} : On(q, "logout") => On(q, "logout")'
      <3>1. CASE UNCHANGED <<serverVars, outbound>>
        BY <3>1 DEF serverVars, PageWaits, On
      <3>2. CASE Recycle(r) /\ UNCHANGED outbound
        BY <3>2, RecycleWaits
      <3>. QED
        BY <1>6, <3>1, <3>2
           DEF RefreshSettles, RefreshSucceeds, RefreshRefused, RefreshLost
    <2>. QED
      BY <2>1, <2>2, <2>3, <2>4, NullIsNone DEF PageWaits, WaitsKeepUp
  <1>7. ASSUME NEW r \in Req, StartLogout(r) PROVE PageWaits' /\ WaitsKeepUp
    <2>1. /\ refreshing # r
          /\ outbound'[r] # NULL /\ outbound'[r].op = "logout"
          /\ \A q \in Req : outbound'[q] # NULL => pc'[q] = "idle"
          /\ \A q \in Req \ {r} : On(q, "refresh") => On(q, "refresh")'
      BY <1>7, PostWaits DEF StartLogout
    <2>2. On(r, "logout")'
      BY <2>1 DEF On
    <2>. QED  BY <1>7, <2>1, <2>2 DEF StartLogout, PageWaits, WaitsKeepUp
  <1>8. ASSUME NEW r \in Req, LogoutSettles(r) PROVE PageWaits' /\ WaitsKeepUp
    <2>1. /\ logout = r /\ logout' = NULL /\ UNCHANGED <<calls, refreshing>>
          /\ On(r, "logout")
      BY <1>8 DEF LogoutSettles, LogoutAnswered, LogoutUnauthorized, LogoutLost,
         PageWaits
    <2>2. refreshing # r
      BY <2>1 DEF PageWaits, On
    <2>3. /\ \A q \in Req : outbound'[q] # NULL => pc'[q] = "idle"
          /\ \A q \in Req \ {r} : On(q, "refresh") => On(q, "refresh")'
      <3>1. CASE LogoutAnswered(r)
        BY <3>1, RecycleWaits DEF LogoutAnswered
      <3>2. CASE LogoutUnauthorized(r) \/ LogoutLost(r)
        BY <1>0, <3>2 DEF LogoutUnauthorized, LogoutLost, serverVars, PageWaits,
           On, ClientTypeOK
      <3>. QED  BY <1>8, <3>1, <3>2 DEF LogoutSettles
    <2>. QED  BY <2>1, <2>2, <2>3, NullIsNone DEF PageWaits, WaitsKeepUp
  <1>9. CASE Reload
    <2>1. \A d \in Call : calls'[d] = Quiet
      BY <1>9 DEF Reload
    <2>. QED
      BY <1>9, <2>1, NullIsNone
         DEF Reload, Quiet, serverVars, PageWaits, WaitsKeepUp
  <1>10. ASSUME UNCHANGED <<pc, req, outbound, calls, refreshing, logout>>
         PROVE  PageWaits' /\ WaitsKeepUp
    BY <1>10, SameCalls DEF WaitsKeepUp
  <1>. QED
    BY <1>1, <1>2, <1>3, <1>4, <1>5, <1>6, <1>7, <1>8, <1>9, <1>10
       DEF ClientNext, CallHandled, SignIn, Login, ExpireAccess, ExpireRefresh,
           Expire, serverVars, pageVars, clientVars

LEMMA WaitsInit == ClientInit => PageWaits
  BY NullIsNone DEF ClientInit, Init, PageWaits, Quiet

LEMMA WaitsInvariance == ClientSpec => []PageWaits
  <1>1. IInv /\ PageWaits /\ [ClientNext]_allVars => PageWaits'
    <2>1. ASSUME PageWaits, UNCHANGED allVars PROVE PageWaits'
      BY <2>1, SameCalls DEF allVars
    <2>. QED  BY <2>1, WaitsNext DEF IInv
  <1>. QED  BY <1>1, WaitsInit, ClientInvariance, PTL DEF ClientSpec

\* The safety behind RequestsGoOn, whatever is lost or crossed: a request that
\* waits has its refresh on its way, at the server or over, it is the one the
\* page knows of, which can settle or be lost, and no request waits on when it
\* did.
NoneIsForgotten ==
    /\ [](\A c \in Call : calls[c].stage = "waiting" =>
             \E r \in Req : /\ calls[c].waits = r /\ refreshing = r /\ logout # r
                            /\ On(r, "refresh"))
    /\ [][\A c \in Call : calls[c].stage = "waiting" /\ refreshing' # refreshing =>
             calls'[c].stage # "waiting"]_allVars

\* A request that waits has somebody to answer it: the safety of RequestsGoOn.
THEOREM NoneIsForgottenHolds == ClientSpec => NoneIsForgotten
  <1>1. IInv /\ PageWaits =>
          \A c \in Call : calls[c].stage = "waiting" =>
             \E r \in Req : /\ calls[c].waits = r /\ refreshing = r /\ logout # r
                            /\ On(r, "refresh")
    <2>. SUFFICES ASSUME IInv, PageWaits, NEW c \in Call, calls[c].stage = "waiting"
                  PROVE  \E r \in Req : /\ calls[c].waits = r /\ refreshing = r
                                        /\ logout # r /\ On(r, "refresh")
      OBVIOUS
    <2>1. refreshing \in Req /\ calls[c].waits = refreshing
      BY DEF PageWaits, IInv, Types, ClientTypeOK
    <2>2. On(refreshing, "refresh")
      BY <2>1 DEF PageWaits
    <2>3. logout # refreshing
      BY <2>1, <2>2 DEF PageWaits, On
    <2>. QED  BY <2>1, <2>2, <2>3
  <1>2. IInv /\ PageWaits /\ PageWaits' /\ [ClientNext]_allVars =>
          [\A c \in Call : calls[c].stage = "waiting" /\ refreshing' # refreshing =>
              calls'[c].stage # "waiting"]_allVars
    <2>1. ASSUME IInv, PageWaits, ClientNext PROVE WaitsKeepUp
      BY <2>1, WaitsNext DEF IInv
    <2>. QED  BY <2>1 DEF WaitsKeepUp, PageWaits
  <1>. QED
    BY <1>1, <1>2, ClientInvariance, WaitsInvariance, PTL
       DEF ClientSpec, NoneIsForgotten
=============================================================================

------------------------ MODULE RefreshTokensProofs -------------------------
(***************************************************************************)
(* Theorems about RefreshTokens, for all users, tokens and calls: the      *)
(* types, what rotation keeps when calls do not overlap, what is left of   *)
(* it when they do, and the login sessions it implements in either case.   *)
(***************************************************************************)
EXTENDS RefreshTokens, FiniteSetTheorems, TLAPS

\* What a call has loaded is what is stored, up to the expiry.
LoadedIsStored ==
    \A r \in Req : pc[r] = "read" =>
        /\ req[r] \in Request /\ req[r].token \in Issued
        /\ seen[r] \in Row
        /\ seen[r].user = tokens[req[r].token].user
        /\ seen[r].login = tokens[req[r].token].login
        /\ seen[r].revoked = tokens[req[r].token].revoked

\* A token that was exchanged is revoked, and was exchanged for one of its own
\* session; the tokens of a session begin with that of a login.
Lineage ==
    \A t \in Issued :
        /\ tokens[t].login \in Issued
        /\ tokens[t].parent # NULL => /\ tokens[t].parent \in Issued
                                      /\ tokens[tokens[t].parent].revoked

OneLive ==
    \A t1, t2 \in Issued :
        /\ ~tokens[t1].revoked /\ ~tokens[t2].revoked
        /\ tokens[t1].login = tokens[t2].login
        => t1 = t2

OneChild ==
    \A c1, c2 \in Issued :
        tokens[c1].parent # NULL /\ tokens[c1].parent = tokens[c2].parent => c1 = c2

SerialInv ==
    /\ TypeOK /\ OneAtATime /\ LoadedIsStored
    /\ Lineage /\ OneLive /\ OneChild

-----------------------------------------------------------------------------
\* An answered call changes its own stage, and no other call moves.
LEMMA AnswerEffect ==
    ASSUME TypeOK, NEW r \in Req, NEW t \in Token \cup {NULL}, Answer(r, t)
    PROVE  /\ pc' \in [Req -> {"idle", "read", "done", "dropped"}]
           /\ req' \in [Req -> Request \cup {NULL}]
           /\ seen' \in [Req -> Row \cup {NULL}]
           /\ reply' \in [Req -> Token \cup {NULL}]
           /\ pc'[r] = "done"
           /\ \A q \in Req \ {r} :
                 pc'[q] = pc[q] /\ req'[q] = req[q] /\ seen'[q] = seen[q]
  BY DEF TypeOK, Answer

\* A row keeps its type when it is revoked or expires.
LEMMA RowType ==
    ASSUME NEW row \in Row
    PROVE  /\ [row EXCEPT !.revoked = TRUE] \in Row
           /\ [row EXCEPT !.revoked = TRUE].revoked
           /\ [row EXCEPT !.revoked = TRUE].login = row.login
           /\ [row EXCEPT !.revoked = TRUE].parent = row.parent
           /\ [row EXCEPT !.revoked = TRUE].user = row.user
           /\ [row EXCEPT !.expired = TRUE] \in Row
           /\ [row EXCEPT !.expired = TRUE].revoked = row.revoked
           /\ [row EXCEPT !.expired = TRUE].login = row.login
           /\ [row EXCEPT !.expired = TRUE].parent = row.parent
           /\ [row EXCEPT !.expired = TRUE].user = row.user
  BY DEF Row

\* A row is not NULL.
LEMMA RowIsThere == \A row \in Row : row # NULL
  BY TokenAssumption

\* Issued tokens are the tokens with a row.
LEMMA IssuedRows ==
    ASSUME TypeOK
    PROVE  \A t \in Token : t \in Issued <=> tokens[t] \in Row
  BY TokenAssumption DEF TypeOK, Issued

\* A step that issues no token, revokes some perhaps, and changes neither the
\* users nor the sessions of tokens.
OnlyRevokes ==
    /\ tokens' \in [Token -> Row \cup {NULL}]
    /\ \A t \in Token : t \in Issued' <=> t \in Issued
    /\ \A t \in Issued :
          /\ tokens'[t].user = tokens[t].user
          /\ tokens'[t].login = tokens[t].login
          /\ tokens'[t].parent = tokens[t].parent
          /\ tokens[t].revoked => tokens'[t].revoked

LEMMA RevokingKeeps ==
    ASSUME TypeOK, Lineage, OneLive, OneChild, OnlyRevokes
    PROVE  Lineage' /\ OneLive' /\ OneChild'
  <1>. USE DEF OnlyRevokes, Issued
  <1>1. Lineage'
    BY TokenAssumption DEF Lineage, TypeOK, Row
  <1>2. OneLive'
    BY DEF OneLive
  <1>3. OneChild'
    BY DEF OneChild
  <1>. QED  BY <1>1, <1>2, <1>3

\* Revoking one token, or all the live ones of a user, does nothing else.
LEMMA RevokeOne ==
    ASSUME TypeOK, NEW t \in Issued,
           tokens' = [tokens EXCEPT ![t].revoked = TRUE]
    PROVE  /\ OnlyRevokes
           /\ tokens'[t].revoked
           /\ \A x \in Issued \ {t} : tokens'[x] = tokens[x]
  <1>1. t \in Token /\ tokens[t] \in Row
    BY IssuedRows DEF Issued
  <1>2. tokens'[t] = [tokens[t] EXCEPT !.revoked = TRUE]
    BY <1>1 DEF TypeOK
  <1>3. \A x \in Token \ {t} : tokens'[x] = tokens[x]
    BY DEF TypeOK
  <1>4. tokens' \in [Token -> Row \cup {NULL}]
    BY <1>1, <1>2, <1>3, RowType DEF TypeOK
  <1>. QED
    <2>. DEFINE new == [tokens[t] EXCEPT !.revoked = TRUE]
    <2>0. /\ new \in Row /\ new.user = tokens[t].user
          /\ new.login = tokens[t].login
          /\ new.parent = tokens[t].parent
          /\ new.revoked
      BY <1>1, RowType
    <2>. HIDE DEF new
    <2>1. /\ tokens'[t] \in Row /\ tokens'[t].user = tokens[t].user
          /\ tokens'[t].login = tokens[t].login
          /\ tokens'[t].parent = tokens[t].parent
          /\ tokens'[t].revoked
      <3>1. tokens'[t] = new
        BY <1>2 DEF new
      <3>. QED  BY <2>0, <3>1
    <2>2. \A x \in Token : x \in Issued' <=> x \in Issued
      BY <1>1, <1>3, <2>1, RowIsThere DEF Issued
    <2>3. \A x \in Issued : x \in Token
      BY DEF Issued
    <2>. QED  BY <1>3, <1>4, <2>1, <2>2, <2>3 DEF OnlyRevokes

LEMMA RevokeMany ==
    ASSUME TypeOK, NEW u, tokens' = RevokeAll(u)
    PROVE  OnlyRevokes
  <1>1. \A t \in Token : tokens'[t] = IF t \in Live(u)
                                      THEN [tokens[t] EXCEPT !.revoked = TRUE]
                                      ELSE tokens[t]
    BY DEF RevokeAll
  <1>2. \A t \in Live(u) : t \in Issued /\ tokens[t] \in Row
    BY IssuedRows DEF Live, Issued
  <1>3. tokens' \in [Token -> Row \cup {NULL}]
    BY <1>1, <1>2, RowType DEF RevokeAll, TypeOK
  <1>4. ASSUME NEW t \in Token
        PROVE  /\ t \in Issued' <=> t \in Issued
               /\ t \in Issued =>
                    /\ tokens'[t].user = tokens[t].user
                    /\ tokens'[t].login = tokens[t].login
                    /\ tokens'[t].parent = tokens[t].parent
                    /\ tokens[t].revoked => tokens'[t].revoked
    <2>1. CASE t \in Live(u)
      <3>1. tokens[t] \in Row /\ tokens'[t] = [tokens[t] EXCEPT !.revoked = TRUE]
        BY <1>1, <1>2, <2>1
      <3>2. /\ tokens'[t] \in Row /\ tokens'[t].user = tokens[t].user
            /\ tokens'[t].login = tokens[t].login
            /\ tokens'[t].parent = tokens[t].parent
            /\ tokens'[t].revoked
        BY <3>1, RowType
      <3>. QED  BY <3>1, <3>2, RowIsThere DEF Issued
    <2>2. CASE t \notin Live(u)
      BY <1>1, <2>2 DEF Issued
    <2>. QED  BY <2>1, <2>2
  <1>. QED  BY <1>3, <1>4 DEF OnlyRevokes, Issued

\* Expiry.
LEMMA ExpireEffect ==
    ASSUME TypeOK, NEW t \in Token, Expire(t)
    PROVE  /\ OnlyRevokes
           /\ \A x \in Issued : tokens'[x].revoked = tokens[x].revoked
           /\ UNCHANGED <<pc, req, seen, reply>>
  <1>1. t \in Token /\ t \in Issued /\ tokens[t] \in Row
    BY IssuedRows DEF Expire
  <1>2. tokens'[t] = [tokens[t] EXCEPT !.expired = TRUE]
    BY <1>1 DEF TypeOK, Expire
  <1>3. \A x \in Token \ {t} : tokens'[x] = tokens[x]
    BY DEF TypeOK, Expire
  <1>4. tokens' \in [Token -> Row \cup {NULL}]
    BY <1>1, <1>2, <1>3, RowType DEF TypeOK, Expire
  <1>. QED
    <2>1. /\ tokens'[t] \in Row /\ tokens'[t].user = tokens[t].user
          /\ tokens'[t].login = tokens[t].login
          /\ tokens'[t].parent = tokens[t].parent
          /\ tokens'[t].revoked = tokens[t].revoked
      BY <1>1, <1>2, RowType
    <2>2. \A x \in Token : x \in Issued' <=> x \in Issued
      BY <1>1, <1>3, <2>1, RowIsThere DEF Issued
    <2>3. \A x \in Issued : x \in Token
      BY DEF Issued
    <2>. QED  BY <1>3, <1>4, <2>1, <2>2, <2>3 DEF OnlyRevokes, Expire

\* A login starts a session with a token of its own.
LEMMA LoginKeeps ==
    ASSUME TypeOK, Lineage, OneLive, OneChild, NEW u \in User, NEW t \in Token,
           Login(u, t)
    PROVE  /\ tokens' \in [Token -> Row \cup {NULL}]
           /\ \A x \in Issued : x \in Issued' /\ tokens'[x] = tokens[x]
           /\ \A x \in Issued' : x \in Issued \/ x = t
           /\ t \notin Issued /\ t \in Issued'
           /\ ~tokens'[t].revoked /\ tokens'[t].login = t
           /\ UNCHANGED <<pc, req, seen, reply>>
           /\ Lineage' /\ OneLive' /\ OneChild'
  <1>. DEFINE new == NewRow(u, t, NULL)
  <1>0. /\ new \in Row /\ new.login = t /\ new.parent = NULL
        /\ ~new.revoked /\ t \notin Issued
    BY DEF NewRow, Row, Login, Fresh
  <1>1. new # NULL
    BY <1>0, RowIsThere
  <1>2. tokens' = [tokens EXCEPT ![t] = new] /\ UNCHANGED <<pc, req, seen, reply>>
    BY DEF Login
  <1>. HIDE DEF new
  <1>3. /\ tokens' \in [Token -> Row \cup {NULL}] /\ tokens'[t] = new
        /\ \A x \in Token \ {t} : tokens'[x] = tokens[x]
    BY <1>0, <1>1, <1>2 DEF TypeOK
  <1>4. \A x \in Token : x \in Issued' <=> x \in Issued \/ x = t
    BY <1>0, <1>1, <1>3 DEF Issued
  <1>5. Issued \subseteq Token /\ Issued' \subseteq Token
    BY DEF Issued
  <1>6. \A x \in Issued : x # t /\ tokens[x].login # t
    BY <1>0 DEF Lineage
  <1>7. Lineage'
    BY <1>0, <1>1, <1>3, <1>4, <1>5 DEF Lineage
  <1>8. OneLive'
    BY <1>0, <1>1, <1>3, <1>4, <1>5, <1>6 DEF OneLive
  <1>9. OneChild'
    BY <1>0, <1>1, <1>3, <1>4, <1>5 DEF OneChild
  <1>. QED  BY <1>0, <1>1, <1>2, <1>3, <1>4, <1>5, <1>7, <1>8, <1>9

\* A rotation exchanges the live token of a session for a new one.
LEMMA RotateKeeps ==
    ASSUME TypeOK, LoadedIsStored, Lineage, OneLive, OneChild,
           NEW r \in Req, NEW t \in Token, Rotate(r, t)
    PROVE  /\ tokens' \in [Token -> Row \cup {NULL}]
           /\ Lineage' /\ OneLive' /\ OneChild'
           /\ t \notin Issued /\ t \in Issued' /\ ~tokens'[t].revoked
           /\ tokens'[t].login = tokens[req[r].token].login
           /\ tokens'[req[r].token].revoked
           /\ \A x \in Issued' : x \in Issued \/ x = t
           /\ \A x \in Issued : x \in Issued' /\ tokens'[x].login = tokens[x].login
           /\ \A x \in Issued \ {req[r].token} : tokens'[x] = tokens[x]
  <1>. DEFINE p   == req[r].token
              new == NewRow(seen[r].user, seen[r].login, p)
  <1>1. /\ p \in Issued /\ p \in Token /\ seen[r] \in Row
        /\ seen[r].login = tokens[p].login
        /\ seen[r].revoked = tokens[p].revoked
        /\ t \notin Issued
    BY DEF LoadedIsStored, Rotate, Refreshing, Issued, Fresh
  <1>2. tokens[p] \in Row /\ ~tokens[p].revoked
    BY <1>1, IssuedRows DEF Rotate
  <1>3. /\ new \in Row /\ new # NULL /\ new.login = tokens[p].login
        /\ new.parent = p /\ ~new.revoked
    <2>1. /\ new \in Row /\ new.login = seen[r].login /\ new.parent = p
          /\ ~new.revoked
      BY <1>1 DEF NewRow, Row
    <2>. QED  BY <1>1, <2>1, RowIsThere
  <1>4. tokens' = [tokens EXCEPT ![p].revoked = TRUE, ![t] = new]
    BY DEF Rotate, Rotated
  <1>. HIDE DEF new, p
  <1>5. t # p /\ p # NULL
    BY <1>1, TokenAssumption
  <1>. DEFINE old == [tokens[p] EXCEPT !.revoked = TRUE]
  <1>6. /\ old \in Row /\ old # NULL /\ old.revoked /\ old.login = tokens[p].login
        /\ old.parent = tokens[p].parent
    BY <1>2, RowType, RowIsThere
  <1>7. /\ tokens'[t] = new /\ tokens'[p] = old
        /\ \A x \in Token \ {t, p} : tokens'[x] = tokens[x]
    BY <1>1, <1>4, <1>5 DEF TypeOK
  <1>8. tokens' \in [Token -> Row \cup {NULL}]
    BY <1>1, <1>3, <1>4, <1>6, <1>7 DEF TypeOK
  <1>. HIDE DEF old
  <1>9. \A x \in Token : x \in Issued' <=> x \in Issued \/ x = t
    BY <1>1, <1>3, <1>6, <1>7 DEF Issued
  <1>10. Issued \subseteq Token /\ Issued' \subseteq Token
    BY DEF Issued
  \* the presented token was live: it was not exchanged before, and its session
  \* has no other live one
  <1>11. \A x \in Issued : tokens[x].parent # p
    BY <1>2, <1>5 DEF Lineage
  <1>12. \A x \in Issued : ~tokens[x].revoked /\ tokens[x].login = tokens[p].login
                             => x = p
    BY <1>1, <1>2 DEF OneLive
  <1>13. Lineage'
    BY <1>1, <1>3, <1>5, <1>6, <1>7, <1>9, <1>10 DEF Lineage
  <1>14. OneLive'
    BY <1>1, <1>3, <1>5, <1>6, <1>7, <1>9, <1>10, <1>12 DEF OneLive
  <1>15. OneChild'
    BY <1>1, <1>3, <1>5, <1>6, <1>7, <1>9, <1>10, <1>11 DEF OneChild
  <1>. QED
    <2>1. /\ t \in Issued' /\ ~tokens'[t].revoked
          /\ tokens'[t].login = tokens[p].login /\ tokens'[p].revoked
          /\ \A x \in Issued' : x \in Issued \/ x = t
      BY <1>3, <1>6, <1>7, <1>9, <1>10
    <2>2. /\ \A x \in Issued : x \in Issued' /\ tokens'[x].login = tokens[x].login
          /\ \A x \in Issued \ {p} : tokens'[x] = tokens[x]
      BY <1>1, <1>6, <1>7, <1>9, <1>10
    <2>. QED  BY <1>1, <1>8, <1>13, <1>14, <1>15, <2>1, <2>2 DEF p

-----------------------------------------------------------------------------
(* The invariant of calls that do not overlap.                             *)

\* The commit of a call, whatever it does to the tokens, leaves no call that
\* has read: the invariant about loaded rows holds again.
LEMMA CommitKeeps ==
    ASSUME SerialInv, NEW r \in Req, pc[r] = "read",
           pc' \in [Req -> {"idle", "read", "done", "dropped"}],
           req' \in [Req -> Request \cup {NULL}],
           seen' \in [Req -> Row \cup {NULL}],
           reply' \in [Req -> Token \cup {NULL}],
           pc'[r] # "read", \A q \in Req \ {r} : pc'[q] = pc[q],
           tokens' \in [Token -> Row \cup {NULL}], Lineage', OneLive', OneChild'
    PROVE  SerialInv'
  <1>1. \A q \in Req : pc'[q] # "read"
    BY DEF SerialInv, OneAtATime
  <1>2. OneAtATime' /\ LoadedIsStored'
    BY <1>1 DEF OneAtATime, LoadedIsStored
  <1>. QED  BY <1>2 DEF SerialInv, TypeOK

LEMMA SerialInit == Init => SerialInv
  BY DEF Init, SerialInv, TypeOK, OneAtATime, LoadedIsStored, Lineage, OneLive,
     OneChild, Issued

LEMMA SerialNext == SerialInv /\ [Next /\ OneAtATime']_vars => SerialInv'
  <1>. SUFFICES ASSUME SerialInv, [Next /\ OneAtATime']_vars PROVE SerialInv'
    OBVIOUS
  <1>0. TypeOK
    BY DEF SerialInv
  <1>1. CASE UNCHANGED vars
    BY <1>1 DEF vars, SerialInv, TypeOK, OneAtATime, LoadedIsStored, Lineage,
       OneLive, OneChild, Issued
  <1>2. ASSUME NEW u \in User, NEW t \in Token, Login(u, t)
        PROVE  SerialInv'
    <2>1. /\ tokens' \in [Token -> Row \cup {NULL}]
          /\ \A x \in Issued : x \in Issued' /\ tokens'[x] = tokens[x]
          /\ UNCHANGED <<pc, req, seen, reply>>
          /\ Lineage' /\ OneLive' /\ OneChild'
      BY <1>0, <1>2, LoginKeeps DEF SerialInv
    <2>2. LoadedIsStored'
      BY <2>1 DEF SerialInv, LoadedIsStored
    <2>. QED  BY <2>1, <2>2 DEF SerialInv, TypeOK, OneAtATime
  <1>3. ASSUME NEW r \in Req, NEW t \in Token,
               NEW op \in {"refresh", "logout", "everywhere"},
               ReadToken(r, op, t), OneAtATime'
        PROVE  SerialInv'
    <2>1. t \in Issued /\ tokens[t] \in Row /\ UNCHANGED <<tokens, reply>>
      BY <1>0, <1>3, IssuedRows DEF ReadToken
    <2>2. /\ pc' = [pc EXCEPT ![r] = "read"]
          /\ req' = [req EXCEPT ![r] = [op |-> op, token |-> t]]
          /\ seen' = [seen EXCEPT ![r] = tokens[t]]
          /\ [op |-> op, token |-> t] \in Request
      BY <1>3 DEF ReadToken, Request
    <2>3. TypeOK'
      BY <1>0, <2>1, <2>2 DEF TypeOK
    <2>4. LoadedIsStored'
      BY <1>0, <2>1, <2>2 DEF LoadedIsStored, SerialInv, TypeOK, Issued
    <2>5. Lineage' /\ OneLive' /\ OneChild'
      BY <2>1 DEF SerialInv, Lineage, OneLive, OneChild, Issued
    <2>. QED  BY <1>3, <2>3, <2>4, <2>5 DEF SerialInv
  <1>4. ASSUME NEW r \in Req, DetectReuse(r) \/ Logout(r) \/ LogoutEverywhere(r)
        PROVE  SerialInv'
    <2>1. pc[r] = "read" /\ Answer(r, NULL)
      BY <1>4 DEF DetectReuse, Logout, LogoutEverywhere, Refreshing
    <2>2. req[r].token \in Issued
      BY <2>1 DEF SerialInv, LoadedIsStored
    <2>3. OnlyRevokes
      BY <1>0, <1>4, <2>2, RevokeOne, RevokeMany
         DEF DetectReuse, Logout, LogoutEverywhere
    <2>4. Lineage' /\ OneLive' /\ OneChild'
      BY <2>3, RevokingKeeps DEF SerialInv
    <2>. QED
      BY <1>0, <2>1, <2>3, <2>4, AnswerEffect, CommitKeeps DEF OnlyRevokes
  <1>5. ASSUME NEW r \in Req, RefuseExpired(r) \/ Drop(r)
        PROVE  SerialInv'
    <2>1. UNCHANGED tokens /\ pc[r] = "read"
      BY <1>5 DEF RefuseExpired, Drop, Refreshing
    <2>2. Lineage' /\ OneLive' /\ OneChild' /\ tokens' \in [Token -> Row \cup {NULL}]
      BY <1>0, <2>1 DEF SerialInv, Lineage, OneLive, OneChild, Issued, TypeOK
    <2>3. /\ pc' \in [Req -> {"idle", "read", "done", "dropped"}]
          /\ req' \in [Req -> Request \cup {NULL}]
          /\ seen' \in [Req -> Row \cup {NULL}]
          /\ reply' \in [Req -> Token \cup {NULL}]
          /\ pc'[r] # "read" /\ \A q \in Req \ {r} : pc'[q] = pc[q]
      <3>1. CASE RefuseExpired(r)
        BY <1>0, <3>1, AnswerEffect DEF RefuseExpired
      <3>2. CASE Drop(r)
        BY <1>0, <3>2 DEF Drop, TypeOK
      <3>. QED  BY <1>5, <3>1, <3>2
    <2>. QED  BY <2>1, <2>2, <2>3, CommitKeeps
  <1>6. ASSUME NEW r \in Req, NEW t \in Token, Rotate(r, t)
        PROVE  SerialInv'
    <2>1. pc[r] = "read" /\ Answer(r, t)
      BY <1>6 DEF Rotate, Refreshing
    <2>2. Lineage' /\ OneLive' /\ OneChild' /\ tokens' \in [Token -> Row \cup {NULL}]
      BY <1>6, RotateKeeps DEF SerialInv
    <2>. QED  BY <1>0, <2>1, <2>2, AnswerEffect, CommitKeeps
  <1>7. ASSUME NEW t \in Token, Expire(t)
        PROVE  SerialInv'
    <2>1. /\ OnlyRevokes /\ UNCHANGED <<pc, req, seen, reply>>
          /\ \A x \in Issued : tokens'[x].revoked = tokens[x].revoked
      BY <1>0, <1>7, ExpireEffect
    <2>2. Lineage' /\ OneLive' /\ OneChild'
      BY <2>1, RevokingKeeps DEF SerialInv
    <2>3. \A x \in Issued : x \in Issued'
      BY <2>1 DEF OnlyRevokes, Issued
    <2>4. LoadedIsStored'
      BY <2>1, <2>3 DEF SerialInv, LoadedIsStored, OnlyRevokes
    <2>. QED
      BY <2>1, <2>2, <2>4 DEF SerialInv, TypeOK, OneAtATime, OnlyRevokes
  <1>. QED
    BY <1>1, <1>2, <1>3, <1>4, <1>5, <1>6, <1>7 DEF Next, CallStep

LEMMA SerialInvariance == SerialSpec => []SerialInv
  BY SerialInit, SerialNext, PTL DEF SerialSpec

\* Rows, calls and answers keep their types: a row in the table has an active
\* user and the login it descends from.
THEOREM TokenTypes == SerialSpec => []TypeOK
  <1>1. SerialInv => TypeOK
    BY DEF SerialInv
  <1>. QED  BY <1>1, SerialInvariance, PTL

LEMMA LiveIsOne == OneLive => OneLivePerLogin
  BY DEF OneLive, OneLivePerLogin, Live

LEMMA ChildIsOne == OneChild => SingleUse
  <1>. SUFFICES ASSUME OneChild, NEW t \in Token
                PROVE  Cardinality(Children(t)) <= 1
    BY DEF SingleUse
  <1>1. t # NULL
    BY TokenAssumption
  <1>2. \A c1, c2 \in Children(t) : c1 = c2
    BY <1>1 DEF OneChild, Children
  <1>3. CASE Children(t) = {}
    BY <1>3, FS_EmptySet
  <1>4. CASE \E c \in Children(t) : TRUE
    <2>1. PICK c \in Children(t) : TRUE
      BY <1>4
    <2>2. Children(t) = {c}
      BY <1>2, <2>1
    <2>3. Cardinality({c}) = 1
      BY FS_Singleton
    <2>. QED  BY <2>2, <2>3
  <1>. QED  BY <1>3, <1>4

\* Rotation without overlapping calls: a session has one live token at most.
THEOREM OneLiveToken == SerialSpec => []OneLivePerLogin
  BY LiveIsOne, SerialInvariance, PTL DEF SerialInv

\* Refresh tokens are single-use when calls do not overlap.
THEOREM RotationIsSingleUse == SerialSpec => []SingleUse
  BY ChildIsOne, SerialInvariance, PTL DEF SerialInv

\* A user without a live token stays so when tokens are revoked only.
LEMMA RevokingRevivesNone ==
    ASSUME OnlyRevokes, NEW u \in User, Live(u) = {}
    PROVE  Live(u)' = {}
  <1>. SUFFICES ASSUME NEW t \in Live(u)' PROVE FALSE
    OBVIOUS
  <1>1. t \in Token /\ t \in Issued' /\ tokens'[t].user = u /\ ~tokens'[t].revoked
    BY DEF Live, Issued
  <1>2. t \in Issued /\ tokens[t].user = u /\ ~tokens[t].revoked
    BY <1>1 DEF OnlyRevokes
  <1>. QED  BY <1>2 DEF Live

\* Logout and reuse detection are final without overlapping calls: only a login
\* gives a live token to a user who has none.
THEOREM OnlyLoginRevivesHolds == SerialSpec => OnlyLoginRevives
  <1>1. SerialInv /\ [Next /\ OneAtATime']_vars =>
          [\A u \in User : Live(u) = {} =>
              \A t \in Live(u)' : tokens'[t].parent = NULL]_vars
    <2>. SUFFICES ASSUME SerialInv, Next, NEW u \in User, Live(u) = {},
                         NEW t \in Live(u)'
                  PROVE  tokens'[t].parent = NULL
      OBVIOUS
    <2>0. TypeOK
      BY DEF SerialInv
    <2>1. ASSUME NEW v \in User, NEW n \in Token, Login(v, n)
          PROVE  tokens'[t].parent = NULL
      <3>1. /\ \A x \in Issued : tokens'[x] = tokens[x]
            /\ \A x \in Issued' : x \in Issued \/ x = n
        BY <2>0, <2>1, LoginKeeps DEF SerialInv
      <3>2. t = n
        BY <3>1 DEF Live
      <3>. DEFINE new == NewRow(v, n, NULL)
      <3>3. new.parent = NULL /\ tokens' = [tokens EXCEPT ![n] = new]
        BY <2>1 DEF NewRow, Login
      <3>. HIDE DEF new
      <3>. QED  BY <2>0, <3>2, <3>3 DEF TypeOK
    <2>2. ASSUME OnlyRevokes PROVE FALSE
      BY <2>2, RevokingRevivesNone
    <2>3. ASSUME UNCHANGED tokens PROVE FALSE
      BY <2>3 DEF Live, Issued
    <2>4. ASSUME NEW r \in Req, NEW n \in Token, Rotate(r, n)
          PROVE  FALSE
      <3>. DEFINE p == req[r].token
      <3>1. /\ p \in Issued /\ p \in Token /\ seen[r] \in Row
            /\ seen[r].user = tokens[p].user /\ ~tokens[p].revoked
        BY <2>4 DEF SerialInv, LoadedIsStored, Rotate, Refreshing, Issued
      <3>2. /\ \A x \in Issued \ {p} : tokens'[x] = tokens[x]
            /\ \A x \in Issued' : x \in Issued \/ x = n
            /\ tokens'[p].revoked /\ n \notin Issued
        BY <2>0, <2>4, RotateKeeps DEF SerialInv
      <3>3. t = n
        BY <3>2 DEF Live
      <3>4. tokens'[n].user = seen[r].user
        <4>. DEFINE new == NewRow(seen[r].user, seen[r].login, p)
        <4>1. new.user = seen[r].user
          BY DEF NewRow
        <4>2. tokens' = [tokens EXCEPT ![p].revoked = TRUE, ![n] = new]
          BY <2>4 DEF Rotate, Rotated
        <4>. HIDE DEF new, p
        <4>. QED  BY <2>0, <4>1, <4>2 DEF TypeOK
      <3>5. tokens'[n].user = u
        BY <3>3 DEF Live
      <3>. QED  BY <3>1, <3>4, <3>5 DEF Live
    <2>5. ASSUME NEW r \in Req, DetectReuse(r) \/ Logout(r) \/ LogoutEverywhere(r)
          PROVE  OnlyRevokes
      <3>1. req[r].token \in Issued
        BY <2>5 DEF DetectReuse, Logout, LogoutEverywhere, Refreshing, SerialInv,
           LoadedIsStored
      <3>. QED
        BY <2>0, <2>5, <3>1, RevokeOne, RevokeMany
           DEF DetectReuse, Logout, LogoutEverywhere
    <2>6. ASSUME NEW e \in Token, Expire(e) PROVE OnlyRevokes
      BY <2>0, <2>6, ExpireEffect
    <2>. QED
      BY <2>1, <2>2, <2>3, <2>4, <2>5, <2>6
         DEF Next, CallStep, ReadToken, RefuseExpired, Drop
  <1>. QED  BY <1>1, SerialInvariance, PTL DEF SerialSpec, OnlyLoginRevives

\* Reuse detection without overlapping calls: the answer to a token that was
\* exchanged before leaves its user without a live token.
THEOREM ReplayEndsSessionsHolds == SerialSpec => ReplayEndsSessions
  <1>1. SerialInv /\ [Next /\ OneAtATime']_vars =>
          [\A r \in Req :
              Refreshing(r) /\ Children(req[r].token) # {} /\ pc'[r] = "done" =>
                  Live(tokens[req[r].token].user)' = {}]_vars
    <2>. SUFFICES ASSUME SerialInv, Next, NEW r \in Req, Refreshing(r),
                         Children(req[r].token) # {}, pc'[r] = "done"
                  PROVE  Live(tokens[req[r].token].user)' = {}
      OBVIOUS
    <2>. DEFINE p == req[r].token
                u == tokens[p].user
    <2>0. TypeOK /\ pc[r] = "read"
      BY DEF SerialInv, Refreshing
    <2>1. /\ p \in Issued /\ p \in Token /\ seen[r] \in Row
          /\ seen[r].user = u /\ seen[r].revoked = tokens[p].revoked
      BY <2>0 DEF SerialInv, LoadedIsStored, Issued
    <2>2. tokens[p].revoked
      <3>1. PICK c \in Children(p) : TRUE
        OBVIOUS
      <3>2. c \in Issued /\ tokens[c].parent = p /\ p # NULL
        BY <2>1, <3>1, TokenAssumption DEF Children
      <3>. QED  BY <3>2 DEF SerialInv, Lineage
    <2>3. DetectReuse(r)
      <3>1. ASSUME NEW q \in Req, CallStep(q) PROVE q = r
        <4>1. pc[q] = "read"
          BY <3>1 DEF CallStep, DetectReuse, RefuseExpired, Logout,
             LogoutEverywhere, Drop, Rotate, Refreshing
        <4>. QED  BY <2>0, <4>1 DEF SerialInv, OneAtATime
      <3>2. CallStep(r)
        <4>1. ASSUME NEW v \in User, NEW n \in Token, Login(v, n) PROVE FALSE
          BY <2>0, <4>1 DEF Login
        <4>2. ASSUME NEW q \in Req, NEW n \in Token, NEW op, ReadToken(q, op, n)
              PROVE  FALSE
          BY <2>0, <4>2 DEF ReadToken, TypeOK
        <4>3. ASSUME NEW n \in Token, Expire(n) PROVE FALSE
          BY <2>0, <4>3 DEF Expire
        <4>. QED  BY <3>1, <4>1, <4>2, <4>3 DEF Next
      <3>. QED
        BY <2>0, <2>1, <2>2, <3>2
           DEF CallStep, RefuseExpired, Logout, LogoutEverywhere, Drop, Rotate,
               Refreshing, TypeOK
    <2>4. tokens' = RevokeAll(u)
      BY <2>1, <2>3 DEF DetectReuse
    <2>. HIDE DEF u, p
    <2>5. OnlyRevokes
      BY <2>0, <2>4, RevokeMany
    <2>6. ASSUME NEW t \in Issued', tokens'[t].user = u, ~tokens'[t].revoked
          PROVE  FALSE
      <3>1. t \in Token /\ t \in Live(u)
        BY <2>5, <2>6 DEF OnlyRevokes, Live, Issued
      <3>2. tokens[t] \in Row
        BY <2>0, <3>1, IssuedRows DEF Live, Issued
      <3>3. tokens'[t] = [tokens[t] EXCEPT !.revoked = TRUE]
        BY <2>4, <3>1 DEF RevokeAll
      <3>. QED  BY <2>6, <3>2, <3>3, RowType
    <2>7. tokens'[req'[r].token].user = u
      <3>1. req' = req
        BY <2>3 DEF DetectReuse, Answer
      <3>2. tokens'[p].user = u
        BY <2>1, <2>5 DEF OnlyRevokes, u
      <3>. QED  BY <3>1, <3>2 DEF p
    <2>. QED  BY <2>6, <2>7 DEF Live
  <1>. QED  BY <1>1, SerialInvariance, PTL DEF SerialSpec, ReplayEndsSessions

-----------------------------------------------------------------------------
(* Calls that overlap.                                                     *)

\* The tokens of a session descend from that of its login, which is of their
\* user; a token was exchanged for one of its own session, and that one is
\* revoked.
Families ==
    \A t \in Issued :
        LET first == tokens[t].login
            from  == tokens[t].parent IN
        /\ first \in Issued
        /\ tokens[first].login = first
        /\ tokens[first].user = tokens[t].user
        /\ from = NULL <=> first = t
        /\ from # NULL => /\ from \in Issued /\ tokens[from].revoked
                          /\ tokens[from].login = first
                          /\ tokens[from].user = tokens[t].user

\* What a call has loaded is of the token it presented, which may have been
\* revoked since.
LoadedBefore ==
    \A r \in Req : pc[r] = "read" =>
        /\ req[r] \in Request /\ req[r].token \in Issued
        /\ seen[r] \in Row
        /\ seen[r].user = tokens[req[r].token].user
        /\ seen[r].login = tokens[req[r].token].login
        /\ seen[r].revoked => tokens[req[r].token].revoked

OverlapInv == TypeOK /\ Families /\ LoadedBefore

\* The rows that were issued are still there, and none is live again.
Grows ==
    \A t \in Issued :
        /\ t \in Issued'
        /\ tokens'[t].user = tokens[t].user
        /\ tokens'[t].login = tokens[t].login
        /\ tokens'[t].parent = tokens[t].parent
        /\ tokens[t].revoked => tokens'[t].revoked

\* The token n is issued, with the user, the session and the parent given.
Issues(n, user, login, parent) ==
    /\ n \in Token /\ n \notin Issued /\ Issued' = Issued \cup {n}
    /\ tokens' \in [Token -> Row \cup {NULL}]
    /\ tokens'[n].user = user /\ tokens'[n].login = login
    /\ tokens'[n].parent = parent /\ ~tokens'[n].revoked

LEMMA LoginIssues ==
    ASSUME TypeOK, NEW u \in User, NEW t \in Token, Login(u, t)
    PROVE  /\ Issues(t, u, t, NULL) /\ Grows
           /\ \A x \in Issued : tokens'[x] = tokens[x]
           /\ UNCHANGED <<pc, req, seen, reply>>
  <1>. DEFINE new == NewRow(u, t, NULL)
  <1>0. /\ new \in Row /\ new.user = u /\ new.login = t /\ new.parent = NULL
        /\ ~new.revoked /\ t \notin Issued
    BY DEF NewRow, Row, Login, Fresh
  <1>1. new # NULL
    BY <1>0, RowIsThere
  <1>2. tokens' = [tokens EXCEPT ![t] = new] /\ UNCHANGED <<pc, req, seen, reply>>
    BY DEF Login
  <1>. HIDE DEF new
  <1>3. /\ tokens' \in [Token -> Row \cup {NULL}] /\ tokens'[t] = new
        /\ \A x \in Token \ {t} : tokens'[x] = tokens[x]
    BY <1>0, <1>1, <1>2 DEF TypeOK
  <1>4. Issued' = Issued \cup {t}
    BY <1>0, <1>1, <1>3 DEF Issued
  <1>5. \A x \in Issued : x \in Token /\ x # t
    BY <1>0 DEF Issued
  <1>. QED  BY <1>0, <1>2, <1>3, <1>4, <1>5 DEF Issues, Grows

LEMMA RotateIssues ==
    ASSUME OverlapInv, NEW r \in Req, NEW t \in Token, Rotate(r, t),
           NEW p, p = req[r].token
    PROVE  /\ p \in Issued /\ t # p
           /\ Issues(t, tokens[p].user, tokens[p].login, p) /\ Grows
           /\ tokens'[p].revoked
           /\ \A x \in Issued \ {p} : tokens'[x] = tokens[x]
  <1>. DEFINE new == NewRow(seen[r].user, seen[r].login, p)
  <1>1. /\ p \in Issued /\ p \in Token /\ seen[r] \in Row
        /\ seen[r].login = tokens[p].login /\ seen[r].user = tokens[p].user
        /\ t \notin Issued
    BY DEF OverlapInv, LoadedBefore, Rotate, Refreshing, Issued, Fresh
  <1>2. tokens[p] \in Row /\ TypeOK
    BY <1>1, IssuedRows DEF OverlapInv
  <1>3. /\ new \in Row /\ new # NULL /\ new.login = tokens[p].login
        /\ new.user = tokens[p].user /\ new.parent = p /\ ~new.revoked
    <2>1. /\ new \in Row /\ new.login = seen[r].login /\ new.parent = p
          /\ new.user = seen[r].user /\ ~new.revoked
      BY <1>1 DEF NewRow, Row
    <2>. QED  BY <1>1, <2>1, RowIsThere
  <1>4. tokens' = [tokens EXCEPT ![p].revoked = TRUE, ![t] = new]
    BY DEF Rotate, Rotated
  <1>5. t # p
    BY <1>1
  <1>. DEFINE old == [tokens[p] EXCEPT !.revoked = TRUE]
  <1>6. /\ old \in Row /\ old # NULL /\ old.revoked /\ old.login = tokens[p].login
        /\ old.user = tokens[p].user /\ old.parent = tokens[p].parent
    BY <1>2, RowType, RowIsThere
  <1>. HIDE DEF new
  <1>7. /\ tokens'[t] = new /\ tokens'[p] = old
        /\ \A x \in Token \ {t, p} : tokens'[x] = tokens[x]
    BY <1>1, <1>2, <1>4, <1>5 DEF TypeOK
  <1>. HIDE DEF old
  <1>8. tokens' \in [Token -> Row \cup {NULL}]
    BY <1>1, <1>2, <1>3, <1>4, <1>6, <1>7 DEF TypeOK
  <1>9. Issued' = Issued \cup {t}
    BY <1>1, <1>3, <1>6, <1>7 DEF Issued
  <1>10. \A x \in Issued : x \in Token /\ x # t
    BY <1>1 DEF Issued
  <1>11. Issues(t, tokens[p].user, tokens[p].login, p)
    BY <1>1, <1>3, <1>7, <1>8, <1>9 DEF Issues
  <1>12. Grows
    BY <1>6, <1>7, <1>9, <1>10 DEF Grows
  <1>13. tokens'[p].revoked /\ \A x \in Issued \ {p} : tokens'[x] = tokens[x]
    BY <1>6, <1>7, <1>10
  <1>. QED  BY <1>1, <1>5, <1>11, <1>12, <1>13

\* All the live tokens of a user are revoked, and no other token changes.
LEMMA RevokeManyEffect ==
    ASSUME TypeOK, NEW u, tokens' = RevokeAll(u)
    PROVE  /\ OnlyRevokes
           /\ \A t \in Live(u) : tokens'[t].revoked
           /\ \A t \in Token \ Live(u) : tokens'[t] = tokens[t]
           /\ Live(u)' = {}
  <1>1. OnlyRevokes
    BY RevokeMany
  <1>2. \A t \in Token : tokens'[t] = IF t \in Live(u)
                                      THEN [tokens[t] EXCEPT !.revoked = TRUE]
                                      ELSE tokens[t]
    BY DEF RevokeAll
  <1>3. \A t \in Live(u) : t \in Token /\ tokens[t] \in Row
    BY IssuedRows DEF Live, Issued
  <1>4. \A t \in Live(u) : tokens'[t].revoked
    <2>. SUFFICES ASSUME NEW t \in Live(u) PROVE tokens'[t].revoked
      OBVIOUS
    <2>1. tokens'[t] = [tokens[t] EXCEPT !.revoked = TRUE] /\ tokens[t] \in Row
      BY <1>2, <1>3
    <2>. QED  BY <2>1, RowType
  <1>5. \A t \in Token \ Live(u) : tokens'[t] = tokens[t]
    BY <1>2
  <1>6. ASSUME NEW t \in Live(u)' PROVE FALSE
    <2>1. t \in Token /\ t \in Issued' /\ tokens'[t].user = u /\ ~tokens'[t].revoked
      BY <1>6 DEF Live, Issued
    <2>2. t \in Live(u)
      BY <1>1, <2>1 DEF OnlyRevokes, Live
    <2>. QED  BY <1>4, <2>1, <2>2
  <1>. QED  BY <1>1, <1>4, <1>5, <1>6

\* A step revokes tokens, or issues one.
LEMMA TokenSteps ==
    ASSUME OverlapInv, Next
    PROVE  \/ OnlyRevokes
           \/ \E u \in User, t \in Token : Login(u, t)
           \/ \E r \in Req, t \in Token : Rotate(r, t)
  <1>0. TypeOK
    BY DEF OverlapInv
  <1>1. ASSUME NEW r \in Req, DetectReuse(r) \/ Logout(r) \/ LogoutEverywhere(r)
        PROVE  OnlyRevokes
    <2>1. req[r].token \in Issued
      BY <1>1 DEF DetectReuse, Logout, LogoutEverywhere, Refreshing, OverlapInv,
         LoadedBefore
    <2>. QED
      BY <1>0, <1>1, <2>1, RevokeOne, RevokeMany
         DEF DetectReuse, Logout, LogoutEverywhere
  <1>2. ASSUME NEW e \in Token, Expire(e) PROVE OnlyRevokes
    BY <1>0, <1>2, ExpireEffect
  <1>3. ASSUME UNCHANGED tokens PROVE OnlyRevokes
    BY <1>0, <1>3 DEF OnlyRevokes, TypeOK, Issued
  <1>. QED
    BY <1>1, <1>2, <1>3 DEF Next, CallStep, ReadToken, RefuseExpired, Drop

\* A call that has read a token did so before the step, or in it.
CallsMove ==
    /\ pc' \in [Req -> {"idle", "read", "done", "dropped"}]
    /\ req' \in [Req -> Request \cup {NULL}]
    /\ seen' \in [Req -> Row \cup {NULL}]
    /\ reply' \in [Req -> Token \cup {NULL}]
    /\ \A q \in Req : pc'[q] = "read" =>
         \/ pc[q] = "read" /\ req'[q] = req[q] /\ seen'[q] = seen[q]
         \/ /\ req'[q] \in Request /\ req'[q].token \in Issued
            /\ seen'[q] = tokens[req'[q].token] /\ tokens' = tokens

LEMMA CallSteps ==
    ASSUME OverlapInv, Next
    PROVE  CallsMove
  <1>0. TypeOK
    BY DEF OverlapInv
  <1>1. ASSUME UNCHANGED <<pc, req, seen, reply>> PROVE CallsMove
    BY <1>0, <1>1 DEF TypeOK, CallsMove
  <1>2. ASSUME NEW r \in Req, NEW t \in Token,
               NEW op \in {"refresh", "logout", "everywhere"}, ReadToken(r, op, t)
        PROVE  CallsMove
    <2>1. t \in Issued /\ tokens[t] \in Row /\ UNCHANGED <<tokens, reply>>
      BY <1>0, <1>2, IssuedRows DEF ReadToken
    <2>. DEFINE asked == [op |-> op, token |-> t]
    <2>2. /\ pc' = [pc EXCEPT ![r] = "read"]
          /\ req' = [req EXCEPT ![r] = asked]
          /\ seen' = [seen EXCEPT ![r] = tokens[t]]
          /\ asked \in Request /\ asked.token = t
      BY <1>2 DEF ReadToken, Request
    <2>. HIDE DEF asked
    <2>. QED  BY <1>0, <2>1, <2>2 DEF TypeOK, CallsMove
  <1>3. ASSUME NEW r \in Req, NEW t \in Token \cup {NULL}, Answer(r, t)
        PROVE  CallsMove
    BY <1>0, <1>3, AnswerEffect DEF CallsMove
  <1>4. ASSUME NEW r \in Req, Drop(r) PROVE CallsMove
    BY <1>0, <1>4 DEF Drop, TypeOK, CallsMove
  <1>. QED
    BY <1>1, <1>2, <1>3, <1>4
       DEF Next, CallStep, Login, DetectReuse, RefuseExpired, Logout,
           LogoutEverywhere, Rotate, Expire

LEMMA RowsGrow ==
    ASSUME OverlapInv, Next
    PROVE  Grows /\ tokens' \in [Token -> Row \cup {NULL}]
  <1>0. TypeOK
    BY DEF OverlapInv
  <1>1. CASE OnlyRevokes
    BY <1>1 DEF OnlyRevokes, Grows, Issued
  <1>2. CASE \E u \in User, t \in Token : Login(u, t)
    BY <1>0, <1>2, LoginIssues DEF Issues
  <1>3. CASE \E r \in Req, t \in Token : Rotate(r, t)
    BY <1>3, RotateIssues DEF Issues
  <1>. QED  BY <1>1, <1>2, <1>3, TokenSteps

\* The families stay apart when tokens are revoked, and when one is issued by
\* a login or by an exchange.
LEMMA FamiliesNext ==
    ASSUME OverlapInv, Next
    PROVE  Families'
  <1>0. TypeOK /\ Families
    BY DEF OverlapInv
  <1>1. CASE OnlyRevokes
    BY <1>0, <1>1 DEF OnlyRevokes, Families, Issued
  <1>2. ASSUME NEW u \in User, NEW n \in Token, Login(u, n) PROVE Families'
    <2>1. Issues(n, u, n, NULL) /\ \A x \in Issued : tokens'[x] = tokens[x]
      BY <1>0, <1>2, LoginIssues
    <2>. QED  BY <1>0, <2>1, TokenAssumption DEF Issues, Families
  <1>3. ASSUME NEW r \in Req, NEW n \in Token, Rotate(r, n) PROVE Families'
    <2>. DEFINE p == req[r].token
    <2>1. /\ p \in Issued /\ n # p /\ Grows
          /\ Issues(n, tokens[p].user, tokens[p].login, p)
          /\ tokens'[p].revoked
      BY <1>3, RotateIssues
    <2>. HIDE DEF p
    <2>2. p # NULL
      BY <2>1, TokenAssumption DEF Issued
    <2>. QED  BY <1>0, <2>1, <2>2 DEF Issues, Families, Grows
  <1>. QED  BY <1>1, <1>2, <1>3, TokenSteps

LEMMA OverlapInit == Init => OverlapInv
  BY DEF Init, OverlapInv, TypeOK, Families, LoadedBefore, Issued

LEMMA OverlapNext == OverlapInv /\ [Next]_vars => OverlapInv'
  <1>1. ASSUME OverlapInv, Next PROVE OverlapInv'
    <2>1. Grows /\ tokens' \in [Token -> Row \cup {NULL}] /\ CallsMove
      BY <1>1, RowsGrow, CallSteps
    <2>2. TypeOK'
      BY <2>1 DEF CallsMove, TypeOK
    <2>3. ASSUME NEW q \in Req, pc'[q] = "read"
          PROVE  /\ req'[q] \in Request /\ req'[q].token \in Issued'
                 /\ seen'[q] \in Row
                 /\ seen'[q].user = tokens'[req'[q].token].user
                 /\ seen'[q].login = tokens'[req'[q].token].login
                 /\ seen'[q].revoked => tokens'[req'[q].token].revoked
      <3>1. CASE pc[q] = "read" /\ req'[q] = req[q] /\ seen'[q] = seen[q]
        BY <1>1, <2>1, <3>1 DEF OverlapInv, LoadedBefore, Grows
      <3>2. CASE /\ req'[q] \in Request /\ req'[q].token \in Issued
                 /\ seen'[q] = tokens[req'[q].token] /\ tokens' = tokens
        <4>1. tokens[req'[q].token] \in Row
          BY <1>1, <3>2, IssuedRows DEF OverlapInv, Issued
        <4>. QED  BY <2>1, <3>2, <4>1 DEF Grows
      <3>. QED  BY <2>1, <2>3, <3>1, <3>2 DEF CallsMove
    <2>. QED  BY <1>1, <2>2, <2>3, FamiliesNext DEF OverlapInv, LoadedBefore
  <1>2. ASSUME OverlapInv, UNCHANGED vars PROVE OverlapInv'
    BY <1>2 DEF vars, OverlapInv, TypeOK, Families, LoadedBefore, Issued
  <1>. QED  BY <1>1, <1>2

\* The rows of the table, however calls overlap: a session has one owner, who
\* logged in with its first token, and a token was exchanged for a revoked one
\* of the same session (_issue_tokens after the revocation, in one commit).
THEOREM OverlapInvariance == Spec => []OverlapInv
  BY OverlapInit, OverlapNext, PTL DEF Spec

\* A revoked token that no refresh under way has loaded as live.
Spent(t) ==
    /\ t \in Issued /\ tokens[t].revoked
    /\ \A r \in Req : Refreshing(r) /\ req[r].token = t => seen[r].revoked

\* Once the refreshes that loaded it before it was revoked are over, a token is
\* never exchanged again: the overlap that breaks SingleUse is the only way.
SpentForGood ==
    [][\A t \in Token : Spent(t) => Spent(t)' /\ Children(t)' = Children(t)]_vars

\* A token that no earlier read can still revive is spent for good.
THEOREM SpentForGoodHolds == Spec => SpentForGood
  <1>1. OverlapInv /\ [Next]_vars =>
          [\A t \in Token : Spent(t) => Spent(t)' /\ Children(t)' = Children(t)]_vars
    <2>. SUFFICES ASSUME OverlapInv, Next, NEW t \in Token, Spent(t)
                  PROVE  Spent(t)' /\ Children(t)' = Children(t)
      OBVIOUS
    <2>0. TypeOK /\ t \in Issued /\ t # NULL
      BY TokenAssumption DEF OverlapInv, Spent
    <2>1. Grows /\ CallsMove
      BY RowsGrow, CallSteps
    <2>2. Spent(t)'
      BY <2>1 DEF Spent, Grows, CallsMove, Refreshing
    <2>3. Children(t)' = Children(t)
      <3>1. CASE OnlyRevokes
        BY <3>1 DEF OnlyRevokes, Children, Issued
      <3>2. ASSUME NEW u \in User, NEW n \in Token, Login(u, n)
            PROVE  Children(t)' = Children(t)
        BY <2>0, <2>1, <3>2, LoginIssues DEF Issues, Children, Grows
      <3>3. ASSUME NEW r \in Req, NEW n \in Token, Rotate(r, n)
            PROVE  Children(t)' = Children(t)
        <4>. DEFINE p == req[r].token
        <4>1. Issues(n, tokens[p].user, tokens[p].login, p)
          BY <3>3, RotateIssues
        <4>2. p # t
          BY <3>3 DEF Spent, Rotate
        <4>. HIDE DEF p
        <4>. QED  BY <2>1, <4>1, <4>2 DEF Issues, Children, Grows
      <3>. QED  BY <3>1, <3>2, <3>3, TokenSteps
    <2>. QED  BY <2>2, <2>3
  <1>. QED  BY <1>1, OverlapInvariance, PTL DEF Spec, SpentForGood

\* A user who has no live token, and no refresh under way that loaded one.
LoggedOut(u) ==
    /\ Live(u) = {}
    /\ \A r \in Req : Refreshing(r) /\ seen[r].user = u => seen[r].revoked

LEMMA EndsAll ==
    ASSUME OverlapInv, NEW r \in Req, DetectReuse(r) \/ LogoutEverywhere(r),
           NEW u \in User, seen[r].user = u
    PROVE  Live(u)' = {}
  <1>1. tokens' = RevokeAll(u)
    BY DEF DetectReuse, LogoutEverywhere
  <1>. QED  BY <1>1, RevokeManyEffect DEF OverlapInv

LEMMA StaysLoggedOut ==
    ASSUME OverlapInv, Next, NEW u \in User, LoggedOut(u),
           \A t \in Token : ~Login(u, t)
    PROVE  LoggedOut(u)'
  <1>0. TypeOK /\ CallsMove
    BY CallSteps DEF OverlapInv
  <1>1. Live(u)' = {}
    <2>1. CASE OnlyRevokes
      BY <2>1, RevokingRevivesNone DEF LoggedOut
    <2>2. ASSUME NEW v \in User, NEW n \in Token, Login(v, n)
          PROVE  Live(u)' = {}
      <3>1. /\ Issues(n, v, n, NULL) /\ v # u
            /\ \A x \in Issued : tokens'[x] = tokens[x]
        BY <1>0, <2>2, LoginIssues
      <3>. QED  BY <3>1 DEF LoggedOut, Live, Issues
    <2>3. ASSUME NEW r \in Req, NEW n \in Token, Rotate(r, n)
          PROVE  Live(u)' = {}
      <3>. DEFINE p == req[r].token
      <3>1. Issues(n, tokens[p].user, tokens[p].login, p) /\ Grows
        BY <2>3, RotateIssues
      <3>2. tokens[p].user # u
        BY <2>3 DEF LoggedOut, Rotate, Refreshing, OverlapInv, LoadedBefore
      <3>. HIDE DEF p
      <3>. QED  BY <3>1, <3>2 DEF LoggedOut, Live, Issues, Grows
    <2>. QED  BY <2>1, <2>2, <2>3, TokenSteps
  <1>2. ASSUME NEW q \in Req, Refreshing(q)', seen'[q].user = u
        PROVE  seen'[q].revoked
    <2>1. pc'[q] = "read" /\ req'[q].op = "refresh"
      BY <1>2 DEF Refreshing
    <2>2. CASE pc[q] = "read" /\ req'[q] = req[q] /\ seen'[q] = seen[q]
      BY <1>2, <2>1, <2>2 DEF LoggedOut, Refreshing
    <2>3. CASE req'[q].token \in Issued /\ seen'[q] = tokens[req'[q].token]
      BY <1>2, <2>3 DEF LoggedOut, Live
    <2>. QED  BY <1>0, <2>1, <2>2, <2>3 DEF CallsMove
  <1>. QED  BY <1>1, <1>2 DEF LoggedOut

\* Logout everywhere and reuse detection, however calls overlap: they leave the
\* user without a live token, and once the refreshes that had loaded one before
\* are over only a login of that user changes it.
LogoutIsFinal ==
    [][/\ \A u \in User, r \in Req :
             (DetectReuse(r) \/ LogoutEverywhere(r)) /\ seen[r].user = u
                => Live(u)' = {}
       /\ \A u \in User :
             LoggedOut(u) => LoggedOut(u)' \/ \E t \in Token : Login(u, t)]_vars

\* Ending all sessions of a user is final once the refreshes that overlap it are
\* over.
THEOREM LogoutIsFinalHolds == Spec => LogoutIsFinal
  <1>1. OverlapInv /\ [Next]_vars =>
          [/\ \A u \in User, r \in Req :
                (DetectReuse(r) \/ LogoutEverywhere(r)) /\ seen[r].user = u
                   => Live(u)' = {}
           /\ \A u \in User :
                LoggedOut(u) => LoggedOut(u)' \/ \E t \in Token : Login(u, t)]_vars
    BY EndsAll, StaysLoggedOut
  <1>. QED  BY <1>1, OverlapInvariance, PTL DEF Spec, LogoutIsFinal

-----------------------------------------------------------------------------
(* Login sessions: the steps of the abstract module.                       *)

\* What the module promises of calls that overlap: a session keeps its owner,
\* its tokens are never those of another one, and none is given out twice.
KeepsOverlapLogins == Logins!OverlapSpec

\* Steps that only load rows or let them expire are none of a session.
LEMMA NothingHappens ==
    ASSUME Issued' = Issued,
           \A t \in Issued : /\ tokens'[t].user = tokens[t].user
                             /\ tokens'[t].login = tokens[t].login
                             /\ tokens'[t].revoked = tokens[t].revoked
    PROVE  UNCHANGED <<Owner, Valid, Issued>>
  <1>1. Owner' = Owner
    BY DEF Owner
  <1>2. Valid' = Valid
    <2>1. \A s \in Token : {t \in Issued' : tokens'[t].login = s /\ ~tokens'[t].revoked}
                             = {t \in Issued : tokens[t].login = s /\ ~tokens[t].revoked}
      OBVIOUS
    <2>. QED  BY <2>1 DEF Valid
  <1>. QED  BY <1>1, <1>2

LEMMA RevokingKeepsOwners ==
    ASSUME OnlyRevokes
    PROVE  Owner' = Owner /\ Issued' = Issued
  BY DEF OnlyRevokes, Owner, Issued

\* The valid tokens of a session are of its owner, and a session with one was
\* opened by a login.
LEMMA ValidTokens ==
    ASSUME Families, NEW s \in Token, NEW t \in Valid[s]
    PROVE  /\ t \in Issued /\ t \in Token /\ tokens[t].login = s
           /\ ~tokens[t].revoked
           /\ s \in Issued /\ Owner[s] = tokens[t].user
  BY DEF Valid, Owner, Families, Issued

LEMMA LoginOpens ==
    ASSUME OverlapInv, NEW u \in User, NEW t \in Token, Login(u, t)
    PROVE  Logins!Open(u, t)
  <1>1. /\ Issues(t, u, t, NULL) /\ \A x \in Issued : tokens'[x] = tokens[x]
        /\ Issued \subseteq Token
    BY LoginIssues DEF OverlapInv, Issued
  <1>2. Owner' = [Owner EXCEPT ![t] = u]
    BY <1>1 DEF Owner, Issues
  <1>3. \A x \in Issued : tokens[x].login # t
    BY <1>1 DEF OverlapInv, Families, Issues
  <1>4. ASSUME NEW s \in Token
        PROVE  {x \in Issued' : tokens'[x].login = s /\ ~tokens'[x].revoked}
                 = IF s = t THEN {t} ELSE Valid[s]
    BY <1>1, <1>3 DEF Valid, Issues
  <1>5. Valid' = [Valid EXCEPT ![t] = {t}]
    BY <1>4 DEF Valid
  <1>. QED  BY <1>1, <1>2, <1>5 DEF Logins!Open, Issues

LEMMA RevokeAllEnds ==
    ASSUME OverlapInv, NEW u, tokens' = RevokeAll(u)
    PROVE  Logins!EndAll(u)
  <1>1. /\ OnlyRevokes
        /\ \A t \in Live(u) : tokens'[t].revoked
        /\ \A t \in Token \ Live(u) : tokens'[t] = tokens[t]
    BY RevokeManyEffect DEF OverlapInv
  <1>2. Owner' = Owner /\ Issued' = Issued
    BY <1>1, RevokingKeepsOwners
  <1>3. ASSUME NEW s \in Token
        PROVE  {x \in Issued' : tokens'[x].login = s /\ ~tokens'[x].revoked}
                 = IF Owner[s] = u THEN {} ELSE Valid[s]
    <2>1. \A x \in Issued : tokens'[x].login = tokens[x].login /\ x \in Token
      BY <1>1 DEF OnlyRevokes, Issued
    <2>2. \A x \in Valid[s] : x \in Live(u) <=> Owner[s] = u
      BY ValidTokens DEF OverlapInv, Live
    <2>3. \A x \in Issued : tokens[x].login = s /\ ~tokens[x].revoked <=> x \in Valid[s]
      BY DEF Valid
    <2>4. \A x \in Issued : tokens[x].revoked => tokens'[x].revoked
      BY <1>1 DEF OnlyRevokes
    <2>5. Valid[s] \subseteq Issued
      BY DEF Valid
    <2>. QED  BY <1>1, <1>2, <2>1, <2>2, <2>3, <2>4, <2>5
  <1>4. Valid' = [s \in Token |-> IF Owner[s] = u THEN {} ELSE Valid[s]]
    BY <1>3 DEF Valid
  <1>. QED  BY <1>2, <1>4 DEF Logins!EndAll

\* A logout takes its token from the session, if it was still valid.
LEMMA LogoutEnds ==
    ASSUME OverlapInv, NEW r \in Req, Logout(r), NEW p, p = req[r].token
    PROVE  /\ p \in Issued
           /\ tokens[p].revoked => UNCHANGED <<Owner, Valid, Issued>>
           /\ ~tokens[p].revoked =>
                /\ p \in Valid[tokens[p].login] /\ tokens[p].login \in Token
                /\ UNCHANGED <<Owner, Issued>>
                /\ Valid' = [Valid EXCEPT ![tokens[p].login] = @ \ {p}]
  <1>1. p \in Issued /\ tokens' = [tokens EXCEPT ![p].revoked = TRUE]
    BY DEF Logout, OverlapInv, LoadedBefore
  <1>2. /\ OnlyRevokes /\ tokens'[p].revoked
        /\ \A x \in Issued \ {p} : tokens'[x] = tokens[x]
    BY <1>1, RevokeOne DEF OverlapInv
  <1>3. Owner' = Owner /\ Issued' = Issued
    BY <1>2, RevokingKeepsOwners
  <1>4. CASE tokens[p].revoked
    <2>1. \A x \in Issued : /\ tokens'[x].user = tokens[x].user
                            /\ tokens'[x].login = tokens[x].login
                            /\ x # p => tokens'[x].revoked = tokens[x].revoked
      BY <1>2 DEF OnlyRevokes
    <2>2. tokens'[p].revoked = tokens[p].revoked
      <3>1. tokens[p] \in Row /\ tokens'[p] \in Row
        BY <1>1, <1>2, <1>3, IssuedRows, TokenAssumption
           DEF OverlapInv, OnlyRevokes, Issued
      <3>. QED  BY <1>2, <1>4, <3>1 DEF Row
    <2>. QED  BY <1>1, <1>3, <1>4, <2>1, <2>2, NothingHappens
  <1>5. CASE ~tokens[p].revoked
    <2>. DEFINE first == tokens[p].login
    <2>1. first \in Token /\ p \in Valid[first]
      BY <1>1, <1>5 DEF OverlapInv, Families, Valid, Issued
    <2>2. ASSUME NEW s \in Token
          PROVE  {x \in Issued' : tokens'[x].login = s /\ ~tokens'[x].revoked}
                   = IF s = first THEN Valid[s] \ {p} ELSE Valid[s]
      <3>1. \A x \in Issued : tokens'[x].login = tokens[x].login
        BY <1>2 DEF OnlyRevokes
      <3>. QED  BY <1>2, <1>3, <3>1 DEF Valid
    <2>3. Valid' = [Valid EXCEPT ![first] = @ \ {p}]
      BY <2>2 DEF Valid
    <2>. QED  BY <1>1, <1>3, <1>5, <2>1, <2>3
  <1>. QED  BY <1>4, <1>5

\* An exchange puts the new token in the place of the presented one.
LEMMA RotateRenews ==
    ASSUME OverlapInv, NEW r \in Req, NEW t \in Token, Rotate(r, t),
           NEW p, p = req[r].token
    PROVE  /\ p \in Issued /\ tokens[p].login \in Token
           /\ Owner[tokens[p].login] \in User
           /\ t \notin Issued /\ Issued' = Issued \cup {t} /\ Owner' = Owner
           /\ Valid' = [Valid EXCEPT ![tokens[p].login] = (@ \ {p}) \cup {t}]
  <1>. DEFINE first == tokens[p].login
  <1>1. /\ p \in Issued /\ t # p
        /\ Issues(t, tokens[p].user, first, p) /\ Grows
        /\ tokens'[p].revoked
        /\ \A x \in Issued \ {p} : tokens'[x] = tokens[x]
    BY RotateIssues
  <1>2. /\ first \in Token /\ first \in Issued /\ tokens[first].login = first
        /\ tokens[first].user = tokens[p].user /\ tokens[p] \in Row
        /\ t \notin Issued /\ first # t
    BY <1>1, IssuedRows DEF OverlapInv, Families, Issues, Issued
  <1>3. Owner[first] \in User
    BY <1>2 DEF Owner, Row
  <1>4. Owner' = Owner
    BY <1>1, <1>2 DEF Owner, Issues, Grows
  <1>5. ASSUME NEW s \in Token
        PROVE  {x \in Issued' : tokens'[x].login = s /\ ~tokens'[x].revoked}
                 = IF s = first THEN (Valid[s] \ {p}) \cup {t} ELSE Valid[s]
    BY <1>1, <1>2 DEF Valid, Issues, Grows
  <1>6. Valid' = [Valid EXCEPT ![first] = (@ \ {p}) \cup {t}]
    BY <1>5 DEF Valid
  <1>. QED  BY <1>1, <1>2, <1>3, <1>4, <1>6 DEF Issues

\* The other steps do nothing to the sessions.
LEMMA OthersStutter ==
    ASSUME OverlapInv,
           \/ UNCHANGED tokens
           \/ \E t \in Token : Expire(t)
    PROVE  UNCHANGED <<Owner, Valid, Issued>>
  <1>1. CASE UNCHANGED tokens
    BY <1>1, NothingHappens DEF Issued
  <1>2. CASE \E t \in Token : Expire(t)
    <2>1. OnlyRevokes /\ \A x \in Issued : tokens'[x].revoked = tokens[x].revoked
      BY <1>2, ExpireEffect DEF OverlapInv
    <2>2. Issued' = Issued
      BY <2>1, RevokingKeepsOwners
    <2>. QED  BY <2>1, <2>2, NothingHappens DEF OnlyRevokes
  <1>. QED  BY <1>1, <1>2

\* The steps of the table, each as a step of its sessions.
LEMMA StepKinds ==
    ASSUME OverlapInv, Next
    PROVE  \/ UNCHANGED <<Owner, Valid, Issued>>
           \/ \E u \in User, t \in Token : Logins!Open(u, t)
           \/ \E u \in User : Logins!EndAll(u)
           \/ \E r \in Req : Logout(r)
           \/ \E r \in Req, t \in Token : Rotate(r, t)
  <1>1. ASSUME NEW r \in Req, DetectReuse(r) \/ LogoutEverywhere(r)
        PROVE  \E u \in User : Logins!EndAll(u)
    <2>1. seen[r] \in Row /\ tokens' = RevokeAll(seen[r].user)
      BY <1>1 DEF DetectReuse, LogoutEverywhere, Refreshing, OverlapInv, LoadedBefore
    <2>2. seen[r].user \in User
      BY <2>1 DEF Row
    <2>3. Logins!EndAll(seen[r].user)
      BY <2>1, RevokeAllEnds
    <2>. QED  BY <2>2, <2>3
  <1>. QED
    BY <1>1, LoginOpens, OthersStutter
       DEF Next, CallStep, ReadToken, RefuseExpired, Drop

LEMMA InitMaps == Init => Logins!Init
  BY DEF Init, Logins!Init, Owner, Valid, Issued

\* The steps of overlapping calls, as steps of the sessions.
LEMMA OverlapSteps ==
    ASSUME OverlapInv, Next
    PROVE  Logins!OverlapNext \/ UNCHANGED <<Owner, Valid, Issued>>
  <1>1. ASSUME NEW r \in Req, Logout(r)
        PROVE  Logins!OverlapNext \/ UNCHANGED <<Owner, Valid, Issued>>
    BY <1>1, LogoutEnds DEF Logins!OverlapNext, Logins!EndOne
  <1>2. ASSUME NEW r \in Req, NEW t \in Token, Rotate(r, t)
        PROVE  Logins!OverlapNext
    <2>. DEFINE p == req[r].token
    <2>1. Logins!RenewWhenOverlapping(tokens[p].login, t) /\ tokens[p].login \in Token
      BY <1>2, RotateRenews DEF Logins!RenewWhenOverlapping
    <2>. QED  BY <2>1 DEF Logins!OverlapNext
  <1>. QED  BY <1>1, <1>2, StepKinds DEF Logins!OverlapNext

\* The steps of a call whose loaded row is the stored one, in a table where a
\* session has one live token at most.
LEMMA StrictSteps ==
    ASSUME OverlapInv, OneLive, LoadedIsStored, Next
    PROVE  Logins!Next \/ UNCHANGED <<Owner, Valid, Issued>>
  <1>1. ASSUME NEW p \in Issued, ~tokens[p].revoked
        PROVE  Valid[tokens[p].login] = {p}
    BY <1>1 DEF OneLive, Valid, OverlapInv, Families, Issued
  <1>2. ASSUME NEW r \in Req, Logout(r)
        PROVE  Logins!Next \/ UNCHANGED <<Owner, Valid, Issued>>
    <2>. DEFINE p == req[r].token
    <2>1. CASE tokens[p].revoked
      BY <1>2, <2>1, LogoutEnds
    <2>2. CASE ~tokens[p].revoked
      <3>1. /\ p \in Issued /\ tokens[p].login \in Token
            /\ UNCHANGED <<Owner, Issued>>
            /\ Valid' = [Valid EXCEPT ![tokens[p].login] = @ \ {p}]
        BY <1>2, <2>2, LogoutEnds
      <3>2. Valid[tokens[p].login] = {p}
        BY <1>1, <2>2, <3>1
      <3>3. Valid' = [Valid EXCEPT ![tokens[p].login] = {}]
        BY <3>1, <3>2
      <3>4. Logins!End(tokens[p].login)
        BY <3>1, <3>2, <3>3 DEF Logins!End
      <3>. QED  BY <3>1, <3>4 DEF Logins!Next
    <2>. QED  BY <2>1, <2>2
  <1>3. ASSUME NEW r \in Req, NEW t \in Token, Rotate(r, t)
        PROVE  Logins!Next
    <2>. DEFINE p == req[r].token
    <2>1. /\ p \in Issued /\ tokens[p].login \in Token
          /\ t \notin Issued /\ Issued' = Issued \cup {t} /\ Owner' = Owner
          /\ Valid' = [Valid EXCEPT ![tokens[p].login] = (@ \ {p}) \cup {t}]
      BY <1>3, RotateRenews
    <2>2. ~tokens[p].revoked
      BY <1>3 DEF LoadedIsStored, Rotate, Refreshing
    <2>3. Valid[tokens[p].login] = {p}
      BY <1>1, <2>1, <2>2
    <2>4. Valid' = [Valid EXCEPT ![tokens[p].login] = {t}]
      BY <2>1, <2>3
    <2>5. Logins!Renew(tokens[p].login, t)
      BY <2>1, <2>3, <2>4 DEF Logins!Renew
    <2>. QED  BY <2>1, <2>5 DEF Logins!Next
  <1>. QED  BY <1>2, <1>3, StepKinds DEF Logins!Next

\* The refresh tokens keep, with calls that overlap, what LoginSessions says of
\* them: however refreshes, logouts and reuse detection interleave, the exchange
\* of a token adds one token to the session it belongs to.
THEOREM ImplementsOverlapLogins == Spec => KeepsOverlapLogins
  <1>1. OverlapInv /\ [Next]_vars => [Logins!OverlapNext]_(Logins!vars)
    BY OverlapSteps, OthersStutter DEF vars, Logins!vars
  <1>. QED
    BY <1>1, InitMaps, OverlapInvariance, PTL
       DEF Spec, KeepsOverlapLogins, Logins!OverlapSpec

\* Without overlapping calls, rotation and logout replace or remove the one
\* valid token of an open session, and a session that ended stays ended.
THEOREM ImplementsLogins == SerialSpec => KeepsLogins
  <1>1. OverlapInv /\ SerialInv /\ [Next /\ OneAtATime']_vars
           => [Logins!Next]_(Logins!vars)
    BY StrictSteps, OthersStutter DEF SerialInv, vars, Logins!vars
  <1>2. SerialSpec => Spec
    <2>1. [Next /\ OneAtATime']_vars => [Next]_vars
      OBVIOUS
    <2>. QED  BY <2>1, PTL DEF SerialSpec, Spec
  <1>. QED
    BY <1>1, <1>2, InitMaps, OverlapInvariance, SerialInvariance, PTL
       DEF SerialSpec, KeepsLogins, Logins!Spec
=============================================================================

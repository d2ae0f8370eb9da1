--------------------------- MODULE LoginSessions ----------------------------
(***************************************************************************)
(* What refresh tokens promise to the users who log in: a login opens a    *)
(* session with a token of its own, the session is renewed by exchanging   *)
(* its token for one that was never given out, and it ends alone or with   *)
(* all the sessions of its user.  A session that has ended stays ended.    *)
(***************************************************************************)
CONSTANTS User, Token, NULL

\* A session is named by the token its login gave out.
VARIABLES
    owner,      \* of a session: NULL before the login
    valid,      \* the tokens that renew a session
    given       \* the tokens that were given out

vars == <<owner, valid, given>>

Init ==
    /\ owner = [s \in Token |-> NULL]
    /\ valid = [s \in Token |-> {}]
    /\ given = {}

Open(u, s) ==
    /\ s \notin given
    /\ owner' = [owner EXCEPT ![s] = u]
    /\ valid' = [valid EXCEPT ![s] = {s}]
    /\ given' = given \cup {s}

\* The only valid token of s is exchanged for t.
Renew(s, t) ==
    /\ \E old \in given : valid[s] = {old}
    /\ t \notin given
    /\ valid' = [valid EXCEPT ![s] = {t}]
    /\ given' = given \cup {t}
    /\ UNCHANGED owner

End(s) ==
    /\ valid[s] # {}
    /\ valid' = [valid EXCEPT ![s] = {}]
    /\ UNCHANGED <<owner, given>>

EndAll(u) ==
    /\ valid' = [s \in Token |-> IF owner[s] = u THEN {} ELSE valid[s]]
    /\ UNCHANGED <<owner, given>>

Next ==
    \/ \E u \in User, s \in Token : Open(u, s)
    \/ \E s, t \in Token : Renew(s, t)
    \/ \E s \in Token : End(s)
    \/ \E u \in User : EndAll(u)

Spec == Init /\ [][Next]_vars

\* What is left of it when calls overlap: an exchange of a token that is not
\* valid any more may still add one to its session, or open it again; whose a
\* session is never changes, and no token is given out twice.
RenewWhenOverlapping(s, t) ==
    /\ owner[s] \in User
    /\ t \notin given
    /\ \E old \in given : valid' = [valid EXCEPT ![s] = (@ \ {old}) \cup {t}]
    /\ given' = given \cup {t}
    /\ UNCHANGED owner

EndOne(s) ==
    /\ \E old \in valid[s] : valid' = [valid EXCEPT ![s] = @ \ {old}]
    /\ UNCHANGED <<owner, given>>

OverlapNext ==
    \/ \E u \in User, s \in Token : Open(u, s)
    \/ \E s, t \in Token : RenewWhenOverlapping(s, t)
    \/ \E s \in Token : EndOne(s)
    \/ \E u \in User : EndAll(u)

OverlapSpec == Init /\ [][OverlapNext]_vars
=============================================================================

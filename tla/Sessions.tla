------------------------------- MODULE Sessions ------------------------------
(***************************************************************************)
(* The sessions of one account and their refresh tokens (auth.service,     *)
(* sessions.service, backend/src/modules).  Every statement names the      *)
(* account, so the other accounts do not matter.                           *)
(*                                                                         *)
(* A request is a handler; one action is one SQL statement with the code   *)
(* around it.  Transactions are PostgreSQL's, at READ COMMITTED: a         *)
(* statement sees what was committed when it began; what a transaction     *)
(* wrote shows when it commits; a statement waits for the rows that        *)
(* another transaction has written, and leaves alone those that were       *)
(* inserted while it waited.                                               *)
(***************************************************************************)
EXTENDS Naturals, FiniteSets

CONSTANTS
  SessionIds,   \* rows of the sessions table, never reused
  Handlers,     \* slots for requests in flight: bounds the concurrency
  MaxClock,     \* bound on the clock, in seconds
  MaxFailures,  \* bound on failed statements and process crashes
  None

Seconds == 0 .. MaxClock

\* A refresh token is the signature of a payload that only the session
\* varies, and of the second: two signed in one second are one text.  The one
\* that register signs says less of the second factor and is like no other;
\* instead of its second it has None.
Tokens == SessionIds \X (Seconds \cup {None})

ASSUME SessionsAssumption ==
  /\ {MaxClock, MaxFailures} \subseteq Nat
  /\ None \notin SessionIds \cup Handlers
  /\ SessionIds \cap Tokens = {}

VARIABLES
  now,         \* the second, what a JWT's iat tells apart
  session,     \* "none" (not created), "active" (is_active), "logged_out" or
               \* "revoked" (not is_active: revoke_reason names a statement
               \* that goes with the tokens' deletion, or it does not),
               \* "deleted"
  tokens,      \* rows of refresh_tokens, by what their text depends on
  pc,          \* per handler, the statement it issues next
  req,         \* per handler, the request and its transaction
  seen,        \* per handler, the rows that its statement saw before it had to
               \* wait, and the row of the token it found, as long as they
               \* are there; or None
  overlapped,  \* (history) sessions that two requests worked on at a time
  disturbed,   \* (history) sessions unrevoked, or created when a request
               \* that ends all had chosen its sessions, not yet its tokens
  failures     \* failures so far

vars == <<now, session, tokens, pc, req, seen, overlapped, disturbed, failures>>

Of(S) == {t \in tokens : t[1] \in S}

Refreshes == {"h/refresh", "c/refresh"}
EndsOne   == {"h/logout", "c/logout"}
EndsAll   == {"h/logout-all", "c/logout-all", "password", "email"}
SavesUser == {"password", "email"}
Saves     == {"revoke", "unrevoke"}
Ops       == Refreshes \cup EndsOne \cup EndsAll \cup Saves

Steps == {"idle", "find_token", "find_session", "drop_token", "select",
          "delete_all", "insert", "commit", "user", "update", "delete",
          "save"}

\* The requests that use no transaction.
AutoCommit == {"c/logout", "c/logout-all"}

\* What a request holds: its session, the token it presents, the session its
\* access token names, and what its transaction has written so far: the
\* sessions it ended, the tokens it deleted and inserted.
NoRequest == [op |-> "none", s |-> None, t |-> None, caller |-> None,
              ended |-> {}, del |-> {}, ins |-> {}]

Touches(h, s) ==
  req[h].op \in EndsAll \/ (req[h].op # "none" /\ req[h].s = s)

Init ==
  /\ now        = 0
  /\ session    = [s \in SessionIds |-> "none"]
  /\ tokens     = {}
  /\ pc         = [h \in Handlers |-> "idle"]
  /\ req        = [h \in Handlers |-> NoRequest]
  /\ seen       = [h \in Handlers |-> None]
  /\ overlapped = {}
  /\ disturbed  = {}
  /\ failures   = 0

-------------------------------------------------------------------------------
\* Handler h starts on request r at step first.
Begin(h, r, first) ==
  /\ pc[h] = "idle"
  /\ pc'  = [pc EXCEPT ![h] = first]
  /\ req' = [req EXCEPT ![h] = r]
  /\ overlapped' = overlapped \cup
       {s \in SessionIds : /\ r.op \in EndsAll \/ r.s = s
                           /\ \E g \in Handlers \ {h} : Touches(g, s)}

Goto(h, to) == pc' = [pc EXCEPT ![h] = to]

\* (mutant of Finish) The transaction stays open.
FinishUnreleased(h) == pc' = [pc EXCEPT ![h] = "idle"] /\ UNCHANGED req

\* Whether h's statement, if it had to wait, saw the row as it began.
Sees(h, row) == seen[h] = None \/ row \in seen[h]

\* The rows in D are gone, and h goes on to another statement.
Forget(h, D) ==
  seen' = [g \in Handlers |-> IF g = h \/ seen[g] = None THEN None
                                                     ELSE seen[g] \ D]

Delete(h, D) == tokens' = tokens \ D /\ Forget(h, D)

\* The request is answered; a transaction it has open is rolled back, unless
\* the action commits it.
Finish(h) ==
  /\ pc'  = [pc EXCEPT ![h] = "idle"]
  /\ req' = [req EXCEPT ![h] = NoRequest]

\* Row locks: the sessions and the tokens that transactions of the other
\* handlers have written.
Others(h)        == Handlers \ {h}
SessionLocked(h, S) ==
  \E g \in Others(h) : req[g].op \notin AutoCommit /\ req[g].ended \cap S # {}
TokenLocked(h, T)   == \E g \in Others(h) : req[g].del \cap T # {}

\* The account's own row.  A change of its e-mail, which is UNIQUE, also keeps
\* away those who insert a row that references it.
HoldsUser(h) == req[h].op \in SavesUser /\ pc[h] # "user"

\* (mutant of HoldsKey) The user is saved last.
HoldsKeyLate(h) == req[h].op = "email" /\ pc[h] = "commit"

HoldsKey(h)  == req[h].op = "email" /\ HoldsUser(h)

Exists(s) == session[s] \notin {"none", "deleted"}
Active(s) == session[s] = "active"

Tick ==
  /\ now < MaxClock
  /\ now' = now + 1
  /\ UNCHANGED <<session, tokens, pc, req, seen, overlapped, disturbed,
                 failures>>

-------------------------------------------------------------------------------
(***************************************************************************)
(* login, loginWithCookies, register, registerWithCookies: one transaction *)
(* inserts a session and its token, rows nobody else can know before it    *)
(* commits; both reference the user's row.                                 *)
(***************************************************************************)

\* h has chosen the sessions it ends, but not the tokens it deletes.
Between(h) ==
  /\ req[h].op \in EndsAll
  /\ pc[h] = "delete" \/ (pc[h] = "update" /\ seen[h] # None)

Open(s, at) ==
  /\ session[s] = "none"
  /\ \A h \in Handlers : ~ HoldsKey(h)
  /\ session' = [session EXCEPT ![s] = "active"]
  /\ tokens'  = tokens \cup {<<s, at>>}
  /\ overlapped' = overlapped \cup
       {u \in {s} : \E h \in Handlers : Touches(h, u)}
  /\ disturbed' = disturbed \cup
       {u \in {s} : \E h \in Handlers : Between(h)}
  /\ UNCHANGED <<now, pc, req, seen, failures>>

Login(s) == Open(s, now)

\* The account is new, and this its first session.
Register(s) == (\A u \in SessionIds : session[u] = "none") /\ Open(s, None)

-------------------------------------------------------------------------------
(***************************************************************************)
(* Refresh: verifyRefreshToken, statement by statement and outside of a    *)
(* transaction, then refreshToken or refreshTokenWithCookies.              *)
(***************************************************************************)

\* The client presents a token of the past, used or not.
StartRefresh(h, op, t) ==
  /\ session[t[1]] # "none" /\ t[2] \in (0 .. now) \cup {None}
  /\ Begin(h, [NoRequest EXCEPT !.op = op, !.s = t[1], !.t = t], "find_token")
  /\ UNCHANGED <<now, session, tokens, seen, disturbed, failures>>

FindToken(h) ==
  /\ pc[h] = "find_token"
  /\ IF req[h].t \in tokens
       THEN /\ Goto(h, "find_session")
            /\ seen' = [seen EXCEPT ![h] = {req[h].t}]
            /\ UNCHANGED <<tokens, req>>
       ELSE Finish(h) /\ Delete(h, {})
  /\ UNCHANGED <<now, session, overlapped, disturbed, failures>>

FindSession(h) ==
  /\ pc[h] = "find_session"
  /\ IF Active(req[h].s)
       THEN Goto(h, "drop_token") /\ UNCHANGED <<tokens, req, seen>>
       ELSE Finish(h) /\ Delete(h, {})
  /\ UNCHANGED <<now, session, overlapped, disturbed, failures>>

\* (mutant of DropToken) The presented token stays.
KeepToken(h) ==
  /\ pc[h] = "drop_token"
  /\ Goto(h, "select")
  /\ Delete(h, {})
  /\ UNCHANGED <<now, session, req, overlapped, disturbed, failures>>

\* By the id of the row that was found; the number of rows deleted is not looked
\* at.
DropToken(h) ==
  /\ pc[h] = "drop_token"
  /\ ~ TokenLocked(h, seen[h])
  /\ Delete(h, seen[h])
  /\ Goto(h, "select")
  /\ UNCHANGED <<now, session, req, overlapped, disturbed, failures>>

SelectSession(h) ==
  /\ pc[h] = "select"
  /\ IF Active(req[h].s)
       THEN /\ IF req[h].op = "h/refresh" THEN Goto(h, "delete_all")
                                         ELSE Goto(h, "insert")
            /\ UNCHANGED req
       ELSE Finish(h)
  /\ UNCHANGED <<now, session, tokens, seen, overlapped, disturbed, failures>>

\* (mutant of Doomed) Whatever sessions it ended, the caller's tokens.
DoomedOfCaller(h) == {t \in Of({req[h].s}) : Sees(h, t)}

\* The tokens that the DELETE of a request takes: of the account, or of the
\* session.
Doomed(h) == {t \in tokens : Touches(h, t[1]) /\ Sees(h, t)}

\* refreshToken only: the other tokens of the session go.
DeleteAll(h) ==
  /\ pc[h] = "delete_all"
  /\ ~ TokenLocked(h, Doomed(h))
  /\ req' = [req EXCEPT ![h].del = Doomed(h)]
  /\ Delete(h, {})
  /\ Goto(h, "insert")
  /\ UNCHANGED <<now, session, overlapped, disturbed, failures>>

\* token is UNIQUE, session_id and user_id are foreign keys; the insert waits
\* for the transactions that write the same text or the user's key.
Insert(h) ==
  LET new == <<req[h].s, now>> IN
  /\ pc[h] = "insert"
  /\ \A g \in Others(h) :
       new \notin req[g].ins \cup req[g].del /\ ~ HoldsKey(g)
  /\ IF new \in tokens \ req[h].del \/ ~ Exists(req[h].s)
       THEN Finish(h)
       ELSE Goto(h, "commit") /\ req' = [req EXCEPT ![h].ins = {new}]
  /\ UNCHANGED <<now, session, tokens, seen, overlapped, disturbed, failures>>

\* (mutant of CommitRefresh) A deletion of the session's tokens comes last.
InsertThenDelete(h) ==
  /\ pc[h] = "commit"
  /\ req[h].op \in Refreshes
  /\ tokens' = tokens \ Of({req[h].s})
  /\ Finish(h)
  /\ UNCHANGED <<now, session, seen, overlapped, disturbed, failures>>

CommitRefresh(h) ==
  /\ pc[h] = "commit"
  /\ req[h].op \in Refreshes
  /\ tokens' = (tokens \ req[h].del) \cup req[h].ins
  /\ Forget(h, req[h].del)
  /\ Finish(h)
  /\ UNCHANGED <<now, session, overlapped, disturbed, failures>>

-------------------------------------------------------------------------------
(***************************************************************************)
(* The requests that end sessions and delete their tokens: logout and      *)
(* logoutAllSessions with their cookie forms, changePassword with          *)
(* logout_all, changeEmail.                                                *)
(***************************************************************************)
StartEnd(h, op, s) ==
  /\ session[s] # "none"
  /\ Begin(h, [NoRequest EXCEPT !.op = op, !.s = s, !.caller = s],
           IF op \in SavesUser THEN "user" ELSE "update")
  /\ UNCHANGED <<now, session, tokens, seen, disturbed, failures>>

\* The changes of password and e-mail save the user first.
SaveUser(h) ==
  /\ pc[h] = "user"
  /\ \A g \in Others(h) : /\ ~ HoldsUser(g)
                          /\ req[h].op = "email" => req[g].ins = {}
  /\ Goto(h, "update")
  /\ UNCHANGED <<now, session, tokens, req, seen, overlapped, disturbed,
                 failures>>

End(S) == session' = [s \in SessionIds |-> IF s \in S THEN "logged_out"
                                                      ELSE session[s]]

\* The sessions that the UPDATE of a request ends.
Swept(h) == {s \in SessionIds : Active(s) /\ Touches(h, s) /\ Sees(h, s)}

\* A logout that finds no active session answers 404; the changes of password
\* and e-mail do not look.
UpdateSessions(h) ==
  LET r == req[h]
      S == Swept(h)
  IN  /\ pc[h] = "update"
      /\ ~ SessionLocked(h, S)
      /\ IF S = {} /\ r.op \notin SavesUser
           THEN Finish(h) /\ UNCHANGED session
           ELSE /\ req' = [req EXCEPT ![h].ended = S]
                /\ Goto(h, "delete")
                /\ IF r.op \in AutoCommit THEN End(S) ELSE UNCHANGED session
      /\ Delete(h, {})
      /\ UNCHANGED <<now, overlapped, disturbed, failures>>

DeleteTokens(h) ==
  /\ pc[h] = "delete"
  /\ ~ TokenLocked(h, Doomed(h))
  /\ IF req[h].op \in AutoCommit
       THEN Delete(h, Doomed(h)) /\ Finish(h)
       ELSE /\ req' = [req EXCEPT ![h].del = Doomed(h)]
            /\ Goto(h, "commit")
            /\ Delete(h, {})
  /\ UNCHANGED <<now, session, overlapped, disturbed, failures>>

\* An UPDATE or DELETE that has to wait.
Wait(h) ==
  /\ seen[h] = None
  /\ \/ /\ pc[h] = "update" /\ SessionLocked(h, Swept(h))
        /\ seen' = [seen EXCEPT ![h] = Swept(h)]
     \/ /\ pc[h] \in {"delete", "delete_all"} /\ TokenLocked(h, Doomed(h))
        /\ seen' = [seen EXCEPT ![h] = Doomed(h)]
  /\ UNCHANGED <<now, session, tokens, pc, req, overlapped, disturbed,
                 failures>>

CommitEnd(h) ==
  /\ pc[h] = "commit"
  /\ req[h].op \in EndsOne \cup EndsAll
  /\ End(req[h].ended)
  /\ Delete(h, req[h].del)
  /\ Finish(h)
  /\ UNCHANGED <<now, overlapped, disturbed, failures>>

\* A refresh that has deleted tokens waits for the user's row, and the change
\* of e-mail that holds it for those tokens: PostgreSQL rolls one of them back.
Deadlock(h, g) ==
  /\ pc[h] = "insert" /\ HoldsKey(g) /\ pc[g] = "delete"
  /\ req[h].del \cap Doomed(g) # {}
  /\ \E v \in {h, g} : Finish(v) /\ Delete(v, {})
  /\ UNCHANGED <<now, session, overlapped, disturbed, failures>>

-------------------------------------------------------------------------------
(***************************************************************************)
(* The sessions controller, for callers whose role holds its permissions.  *)
(* revokeMySession, revokeSession and unrevokeSession read the row and     *)
(* save the entity later; none of these requests deletes a token.          *)
(***************************************************************************)

\* RevokeSessionGuard.canActivate
CanActivate(caller, id) == caller = id

StartRevoke(h, caller, s) ==
  /\ session[caller] # "none"
  /\ CanActivate(caller, s)
  /\ Active(s)
  /\ Begin(h, [NoRequest EXCEPT !.op = "revoke", !.s = s, !.caller = caller],
           "save")
  /\ UNCHANGED <<now, session, tokens, seen, disturbed, failures>>

StartUnrevoke(h, s) ==
  /\ Exists(s) /\ ~ Active(s)
  /\ Begin(h, [NoRequest EXCEPT !.op = "unrevoke", !.s = s], "save")
  /\ UNCHANGED <<now, session, tokens, seen, disturbed, failures>>

\* save writes the whole entity, and inserts it where the row is gone.
SaveSession(h) ==
  LET r == req[h] IN
  /\ pc[h] = "save"
  /\ ~ SessionLocked(h, {r.s})
  /\ session' = [session EXCEPT ![r.s] =
                   IF r.op = "revoke" THEN "revoked" ELSE "active"]
  /\ disturbed' = IF r.op = "unrevoke" THEN disturbed \cup {r.s} ELSE disturbed
  /\ Finish(h)
  /\ UNCHANGED <<now, tokens, seen, overlapped, failures>>

\* The sets that one statement addresses: all sessions, or (in
\* revokeALLMySessions) all but the caller's.
Bulk == {SessionIds \ {s} : s \in SessionIds} \cup {SessionIds}

\* revokeALLMySessions, revokeSessionsByUserId: sessions that are revoked
\* already get the new reason.
RevokeMany(S) ==
  /\ ~ SessionLocked(None, S)
  /\ session' = [s \in SessionIds |-> IF s \in S /\ Exists(s) THEN "revoked"
                                                              ELSE session[s]]
  /\ session' # session
  /\ UNCHANGED <<now, tokens, pc, req, seen, overlapped, disturbed, failures>>

\* deleteSessionById, deleteSessionsByUserId: a token keeps its row, without
\* its session, and no query that asks for a session finds it again.
DeleteSessions(S) ==
  /\ \E s \in S : Exists(s)
  /\ ~ SessionLocked(None, S)
  /\ ~ TokenLocked(None, Of(S))
  /\ \A h \in Handlers : \A t \in req[h].ins : t[1] \notin S
  /\ session' = [s \in SessionIds |-> IF s \in S /\ Exists(s) THEN "deleted"
                                                              ELSE session[s]]
  /\ Delete(None, Of(S) \cup S)
  /\ UNCHANGED <<now, pc, req, overlapped, disturbed, failures>>

\* A statement fails or the process ends: an open transaction is rolled back,
\* what was committed stays.
Fail(h) ==
  /\ failures < MaxFailures
  /\ pc[h] # "idle"
  /\ failures' = failures + 1
  /\ Finish(h)
  /\ Delete(h, {})
  /\ UNCHANGED <<now, session, overlapped, disturbed>>

-------------------------------------------------------------------------------
Refresh(h) ==
  \/ \E op \in Refreshes, t \in Tokens : StartRefresh(h, op, t)
  \/ FindToken(h) \/ FindSession(h) \/ DropToken(h)
  \/ SelectSession(h) \/ DeleteAll(h) \/ Insert(h) \/ CommitRefresh(h)

EndSessions(h) ==
  \/ \E op \in EndsOne \cup EndsAll, s \in SessionIds : StartEnd(h, op, s)
  \/ SaveUser(h) \/ UpdateSessions(h) \/ DeleteTokens(h) \/ CommitEnd(h)
  \/ \E g \in Handlers : Deadlock(g, h)

Administer(h) ==
  \/ \E s, c \in SessionIds : StartRevoke(h, c, s)
  \/ \E s \in SessionIds : StartUnrevoke(h, s)
  \/ SaveSession(h)

Next ==
  \/ Tick
  \/ \E s \in SessionIds : Login(s) \/ Register(s) \/ DeleteSessions({s})
  \/ DeleteSessions(SessionIds)
  \/ \E S \in Bulk : RevokeMany(S)
  \/ \E h \in Handlers :
       Refresh(h) \/ EndSessions(h) \/ Administer(h) \/ Wait(h) \/ Fail(h)

Spec == Init /\ [][Next]_vars

-------------------------------------------------------------------------------
Requests == [op : Ops \cup {"none"}, s : SessionIds \cup {None},
             t : Tokens \cup {None}, caller : SessionIds \cup {None},
             ended : SUBSET SessionIds, del : SUBSET Tokens,
             ins : SUBSET Tokens]

\* Every variable has its type; a handler at rest holds nothing.
TypeOK ==
  /\ now \in Seconds
  /\ session \in [SessionIds ->
                   {"none", "active", "logged_out", "revoked", "deleted"}]
  /\ tokens \subseteq Tokens
  /\ pc \in [Handlers -> Steps]
  /\ req \in [Handlers -> Requests]
  /\ seen \in [Handlers -> {None} \cup SUBSET (Tokens \cup SessionIds)]
  /\ overlapped \subseteq SessionIds
  /\ disturbed \subseteq SessionIds
  /\ failures \in 0 .. MaxFailures
  /\ \A h \in Handlers :
       pc[h] = "idle" => req[h] = NoRequest /\ seen[h] = None

Quiet(s) == \A h \in Handlers : ~ Touches(h, s)

\* Refresh tokens rotate: unless two requests worked on a session at the same
\* time, it never has more than one token that can be exchanged, whichever
\* forms of login and refresh its client mixes.
OneLiveToken ==
  \A s \in SessionIds : s \notin overlapped => Cardinality(Of({s})) <= 1

\* A client is not locked out by a race: however refreshes of a session
\* interleave, with each other and with requests that end sessions, an active
\* session that no request is working on has a token to go on with.  (Not when
\* a statement failed: verifyRefreshToken deletes the token before the
\* transaction that replaces it.  Not for a session that was unrevoked, or
\* that logged in when a logout-all had chosen its sessions and not yet its
\* tokens.)
ActiveHasToken ==
  \A s \in SessionIds \ disturbed :
    failures = 0 /\ Quiet(s) /\ Active(s) => Of({s}) # {}

\* A logout leaves nothing behind: once it is over, its session has no token
\* left, unless another request on the session overlapped it or a statement
\* failed.
LogoutDropsTokens ==
  \A s \in SessionIds \ overlapped :
    failures = 0 /\ Quiet(s) /\ session[s] = "logged_out" => Of({s}) = {}

\* "You cannot revoke your current session": no request revokes the session
\* it was made in.  (The guard compares the wrong way round.)
CurrentSessionKept ==
  \A h \in Handlers : req[h].op = "revoke" => req[h].caller # req[h].s

\* "invalidate all sessions and tokens after email change": once changeEmail
\* commits, no session is active that was created before or meanwhile, by a
\* login that raced it, and no token is left.  (Sessions that were unrevoked,
\* or created in the middle of a logout of all sessions, are exempt.)
AllInvalidated ==
  [][\A h \in Handlers :
       req[h].op = "email" /\ CommitEnd(h) =>
         \A s \in SessionIds \ disturbed : ~ Active(s)' /\ Of({s})' = {}]_vars
===============================================================================

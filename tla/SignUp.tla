--------------------------------- MODULE SignUp --------------------------------
(***************************************************************************)
(* How users come to be (users.service: register, createUser,              *)
(* createOAuthUser), how the accounts they have at a provider are linked   *)
(* to them (oauth.service), and the pool of database connections that all  *)
(* of it draws on.                                                         *)
(*                                                                         *)
(* A query runner keeps a connection until it is released; a statement of  *)
(* a repository takes another one for itself, and waits while there is     *)
(* none: without a limit, since the pool is given no timeout.  One action  *)
(* is one such statement, or what a query runner does between two of them. *)
(***************************************************************************)
EXTENDS Naturals, FiniteSets

CONSTANTS
  Emails,       \* users, known by their e-mail
  Subjects,     \* accounts at one provider
  MailOf,       \* the e-mail in the profile of each
  Tokens,       \* link tokens, never drawn twice
  Handlers,     \* slots for requests in flight: bounds the concurrency
  PoolSize,     \* connections of the pool
  MaxLeaks,     \* bound on the connections that are never released
  MaxRequests,  \* bound on the requests, all in all
  None

ASSUME SignUpAssumption ==
  /\ {PoolSize, MaxLeaks, MaxRequests} \subseteq Nat
  /\ MailOf \in [Subjects -> Emails]
  /\ None \notin Emails \cup Subjects \cup Tokens

VARIABLES
  users,     \* rows of users
  accounts,  \* rows of oauth_accounts: the user and the subject
  link,      \* Redis: the link token of each user, or None
  drawn,     \* link tokens drawn so far
  held,      \* handlers whose query runner holds a connection
  leaked,    \* connections that are never released
  pc,        \* per handler, what it does next
  req,       \* per handler, the request
  made,      \* requests so far
  cut,       \* handlers whose row of oauth_accounts is deleted meanwhile
  links,     \* (history) per token, accounts it linked
  spared     \* (history) tokens that two callbacks presented at a time, or
             \* whose callback ended before it deleted them

rows    == <<users, accounts>>
redis   == <<link, drawn>>
pool    == <<held, leaked>>
history == <<cut, links, spared>>
vars    == <<rows, redis, pool, pc, req, made, history>>

Ops   == {"register", "create", "oauth", "callback", "ask", "unlink"}
Steps == {"idle", "connect", "exists", "roles", "insert", "role", "commit",
          "account", "get", "match", "user", "link", "reread", "del", "linked",
          "login", "look", "set", "remove"}

NoRequest == [op |-> "none", e |-> None, s |-> None, t |-> None]

Asks(op, e) == [NoRequest EXCEPT !.op = op, !.e = e]

Free == PoolSize - Cardinality(held) - leaked

Init ==
  /\ users    \in SUBSET Emails
  /\ accounts = {}
  /\ link     = [e \in Emails |-> None]
  /\ drawn    = {}
  /\ held     = {}
  /\ leaked   = 0
  /\ pc       = [h \in Handlers |-> "idle"]
  /\ req      = [h \in Handlers |-> NoRequest]
  /\ made     = 0
  /\ links    = [t \in Tokens |-> 0]
  /\ spared   = {}
  /\ cut      = {}

-------------------------------------------------------------------------------
Goto(h, to) == pc' = [pc EXCEPT ![h] = to]

Begin(h, r, first) ==
  /\ pc[h] = "idle"
  /\ made < MaxRequests
  /\ made' = made + 1
  /\ Goto(h, first)
  /\ req' = [req EXCEPT ![h] = r]
  /\ UNCHANGED <<rows, redis, pool, links, cut>>

Rest(h) ==
  /\ Goto(h, "idle")
  /\ req' = [req EXCEPT ![h] = NoRequest]
  /\ cut' = cut \ {h}

\* (mutant of Finish) An error leaves the query runner unreleased.
FinishUnreleased(h) ==
  Rest(h) /\ leaked' = leaked + Cardinality(held \cap {h}) /\ held' = held \ {h}

\* The request ends; "finally" releases its query runner, if it has one.
Finish(h) == Rest(h) /\ held' = held \ {h} /\ UNCHANGED leaked

\* It ends outside of "try ... finally": the connection is lost.
Leak(h) ==
  /\ leaked < MaxLeaks
  /\ leaked' = leaked + 1
  /\ held' = held \ {h}
  /\ Rest(h)

\* A repository's statement: it needs a connection of its own.
Pooled(h, at) == pc[h] = at /\ Free > 0

-------------------------------------------------------------------------------
(***************************************************************************)
(* New users.                                                              *)
(***************************************************************************)
Register(h, e) ==
  /\ Begin(h, Asks("register", e), "connect")
  /\ UNCHANGED spared

CreateUser(h, e) ==
  /\ Begin(h, Asks("create", e), "connect")
  /\ UNCHANGED spared

\* createQueryRunner, connect, startTransaction.
ConnectRunner(h) ==
  /\ Pooled(h, "connect")
  /\ held' = held \cup {h}
  /\ Goto(h, CASE req[h].op = "register" -> "exists"
               [] req[h].op = "create"   -> "roles"
               [] req[h].op = "oauth"    -> "insert"
               [] OTHER                  -> "link")
  /\ UNCHANGED <<rows, redis, leaked, req, made, history>>

\* register looks for the e-mail, through the pool.
FindExisting(h) ==
  /\ Pooled(h, "exists")
  /\ \/ req[h].e \in users /\ Finish(h)
     \/ req[h].e \notin users /\ Goto(h, "insert")
        /\ UNCHANGED <<pool, req, cut>>
  /\ UNCHANGED <<rows, redis, made, links, spared>>

\* createUser is given no roles, or one that does not exist, and throws before
\* its "try"; or the roles are all there.
FindRoles(h) ==
  /\ pc[h] = "roles"
  /\ \/ Leak(h)
     \/ Free > 0 /\ Goto(h, "insert") /\ UNCHANGED <<pool, req, cut>>
  /\ UNCHANGED <<rows, redis, made, links, spared>>

\* email is UNIQUE: an INSERT waits for another one of the same e-mail that is
\* not committed, and fails on one that is.
Inserting(e) ==
  \E g \in Handlers : pc[g] \in {"role", "commit"} /\ req[g].e = e

InsertUser(h) ==
  LET e == req[h].e IN
  /\ pc[h] = "insert"
  /\ ~ Inserting(e)
  /\ \/ e \in users /\ Finish(h)
     \/ /\ e \notin users
        /\ Goto(h, IF req[h].op = "create" THEN "commit" ELSE "role")
        /\ UNCHANGED <<pool, req, cut>>
  /\ UNCHANGED <<rows, redis, made, links, spared>>

\* The role of new users, through the pool.  createOAuthUser asks for a column
\* that roles does not have (role.code), which fails.
FindRole(h) ==
  /\ Pooled(h, "role")
  /\ \/ req[h].op = "oauth" /\ Finish(h)
     \/ req[h].op # "oauth" /\ Goto(h, "commit") /\ UNCHANGED <<pool, req, cut>>
  /\ UNCHANGED <<rows, redis, made, links, spared>>

\* The rows that belong to the user, its session and token among them.
\* createUser adds the roles that its save has stored a second time: the key of
\* user_roles refuses them, and the user is rolled back.
CommitUser(h) ==
  /\ pc[h] = "commit"
  /\ users' = IF req[h].op = "create" THEN users
              ELSE users \cup {req[h].e}
  /\ Finish(h)
  /\ UNCHANGED <<accounts, redis, made, links, spared>>

-------------------------------------------------------------------------------
(***************************************************************************)
(* The provider's callback: verifyOAuthAccount, then oAuthCallBack.  t is  *)
(* the link token of a callback that links subject s to user e; one that   *)
(* logs in has None.                                                       *)
(***************************************************************************)
State(s, e, t) == [op |-> "callback", e |-> e, s |-> s, t |-> t]

\* What validateOAuthState lets pass, with the profile: a link names a user and
\* carries a token that was drawn, a login goes by the e-mail.
Valid(s, e, t) == IF t = None THEN e = MailOf[s] ELSE t \in drawn /\ e \in users

Callback(h, s, e, t) ==
  /\ Valid(s, e, t)
  /\ Begin(h, State(s, e, t), "account")
  /\ spared' = IF t # None /\ (\E g \in Handlers : req[g].t = t)
                 THEN spared \cup {t} ELSE spared

OwnersOf(s) == {e \in Emails : <<e, s>> \in accounts}

FindAccount(h) ==
  LET r == req[h] IN
  /\ Pooled(h, "account")
  /\ \/ r.t # None /\ OwnersOf(r.s) # {} /\ Finish(h)
     \/ /\ r.t # None /\ OwnersOf(r.s) = {}
        /\ Goto(h, "get")
        /\ UNCHANGED <<pool, req, cut>>
     \/ /\ r.t = None
        /\ \E e \in OwnersOf(r.s) : req' = [req EXCEPT ![h].e = e]
        /\ Goto(h, "login")
        /\ UNCHANGED <<pool, cut>>
     \/ /\ r.t = None /\ OwnersOf(r.s) = {}
        /\ Goto(h, "match")
        /\ UNCHANGED <<pool, req, cut>>
  /\ UNCHANGED <<rows, redis, made, links, spared>>

GetToken(h) ==
  /\ pc[h] = "get"
  /\ \/ link[req[h].e] # req[h].t /\ Finish(h)
     \/ /\ link[req[h].e] = req[h].t
        /\ Goto(h, "user")
        /\ UNCHANGED <<pool, req, cut>>
  /\ UNCHANGED <<rows, redis, made, links, spared>>

\* A login of an unknown subject: it is linked to the user of its e-mail, or a
\* user is created.
MatchUser(h) ==
  /\ Pooled(h, "match")
  /\ \/ req[h].e \in users /\ Goto(h, "user") /\ UNCHANGED req
     \/ /\ req[h].e \notin users
        /\ Goto(h, "connect")
        /\ req' = [req EXCEPT ![h].op = "oauth"]
  /\ UNCHANGED <<rows, redis, pool, made, history>>

\* users.linkOAuthAccount: it reads the user, then takes its query runner.
FindLinked(h) ==
  /\ Pooled(h, "user")
  /\ Goto(h, "connect")
  /\ UNCHANGED <<rows, redis, pool, req, made, history>>

\* A subject has one user, and a user one account at the provider: the second
\* is refused by the unique indexes.
Conflict(e, s) ==
  \E a \in accounts : a[1] = e \/ a[2] = s

\* (mutant of LinkAccount) A login goes on when the account is not linked.
LinkOrNot(h) ==
  LET r == req[h] IN
  /\ pc[h] = "link"
  /\ \/ /\ r.t # None /\ Conflict(r.e, r.s)
        /\ Finish(h)
        /\ UNCHANGED <<accounts, links>>
     \/ /\ r.t = None \/ ~ Conflict(r.e, r.s)
        /\ accounts' = IF Conflict(r.e, r.s) THEN accounts
                       ELSE accounts \cup {<<r.e, r.s>>}
        /\ links' = IF r.t = None THEN links
                    ELSE [links EXCEPT ![r.t] = @ + 1]
        /\ held' = held \ {h}
        /\ Goto(h, IF r.t # None THEN "reread" ELSE "login")
        /\ UNCHANGED <<leaked, req, cut>>
  /\ UNCHANGED <<users, redis, made, spared>>

LinkAccount(h) ==
  LET r == req[h] IN
  /\ pc[h] = "link"
  /\ \/ Conflict(r.e, r.s) /\ Finish(h) /\ UNCHANGED <<accounts, links>>
     \/ /\ ~ Conflict(r.e, r.s)
        /\ accounts' = accounts \cup {<<r.e, r.s>>}
        /\ links' = IF r.t = None THEN links
                    ELSE [links EXCEPT ![r.t] = @ + 1]
        /\ held' = held \ {h}
        /\ Goto(h, IF r.t # None THEN "reread" ELSE "login")
        /\ UNCHANGED <<leaked, req, cut>>
  /\ UNCHANGED <<users, redis, made, spared>>

ReadUser(h) ==
  /\ Pooled(h, "reread")
  /\ Goto(h, "del")
  /\ UNCHANGED <<rows, redis, pool, req, made, history>>

\* (mutant of DropToken) The token is left to expire.
TokenLeft(h) ==
  /\ pc[h] = "del"
  /\ req' = [req EXCEPT ![h].t = None]
  /\ Goto(h, "linked")
  /\ UNCHANGED <<rows, redis, pool, made, history>>

\* DEL, whatever the key holds by now; the request is done with its token.
DropToken(h) ==
  /\ pc[h] = "del"
  /\ link' = [link EXCEPT ![req[h].e] = None]
  /\ req'  = [req EXCEPT ![h].t = None]
  /\ Goto(h, "linked")
  /\ UNCHANGED <<rows, drawn, pool, made, history>>

\* oAuthCallBack looks for the account that was linked, to answer with it.
AnswerLinked(h) ==
  /\ Pooled(h, "linked")
  /\ Finish(h)
  /\ UNCHANGED <<rows, redis, made, links, spared>>

\* login: its query runner takes one connection, and no second one.
Login(h) ==
  /\ Pooled(h, "login")
  /\ Finish(h)
  /\ UNCHANGED <<rows, redis, made, links, spared>>

-------------------------------------------------------------------------------
(***************************************************************************)
(* Requests of signed-in users: a link token, unlinking.                   *)
(***************************************************************************)
AskLink(h, e) ==
  /\ e \in users
  /\ Cardinality({g \in Handlers : req[g].op = "ask"})
       < Cardinality(Tokens \ drawn)
  /\ Begin(h, Asks("ask", e), "look")
  /\ UNCHANGED spared

Unlink(h, e) ==
  /\ e \in users
  /\ Begin(h, Asks("unlink", e), "look")
  /\ UNCHANGED spared

\* Both look for the user's account at the provider.
Look(h) ==
  LET r    == req[h]
      mine == {s \in Subjects : <<r.e, s>> \in accounts}
  IN
  /\ Pooled(h, "look")
  /\ \/ r.op = "ask" /\ mine # {} /\ Finish(h)
     \/ /\ r.op = "ask" /\ mine = {}
        /\ Goto(h, "set")
        /\ UNCHANGED <<pool, req, cut>>
     \/ r.op = "unlink" /\ mine = {} /\ Finish(h)
     \/ /\ r.op = "unlink"
        /\ \E s \in mine : req' = [req EXCEPT ![h].s = s]
        /\ Goto(h, "remove")
        /\ UNCHANGED <<pool, cut>>
  /\ UNCHANGED <<rows, redis, made, links, spared>>

SetToken(h) ==
  /\ pc[h] = "set"
  /\ \E t \in Tokens \ drawn :
       /\ link'  = [link EXCEPT ![req[h].e] = t]
       /\ drawn' = drawn \cup {t}
  /\ Finish(h)
  /\ UNCHANGED <<rows, made, links, spared>>

\* The handlers that go by the row of e and s.
Using(e, s) ==
  {h \in Handlers : /\ pc[h] \in {"login", "remove"}
                    /\ req[h].e = e /\ req[h].s = s}

\* remove deletes the row that was found, by its id.
RemoveAccount(h) ==
  LET r == req[h] IN
  /\ Pooled(h, "remove")
  /\ IF h \in cut
       THEN UNCHANGED accounts /\ cut' = cut \ {h}
       ELSE /\ accounts' = accounts \ {<<r.e, r.s>>}
            /\ cut' = cut \cup (Using(r.e, r.s) \ {h})
  /\ Goto(h, "idle")
  /\ req' = [req EXCEPT ![h] = NoRequest]
  /\ UNCHANGED <<users, redis, pool, made, links, spared>>

\* deleteOAuthAccount, by an administrator: one statement.
DeleteAccount(a) ==
  /\ a \in accounts
  /\ Free > 0
  /\ accounts' = accounts \ {a}
  /\ cut' = cut \cup Using(a[1], a[2])
  /\ UNCHANGED <<users, redis, pool, pc, req, made, links, spared>>

-------------------------------------------------------------------------------
ExpireToken(e) ==
  /\ link[e] # None
  /\ link' = [link EXCEPT ![e] = None]
  /\ UNCHANGED <<rows, drawn, pool, pc, req, made, history>>

\* A statement or a command fails.
Fail(h) ==
  /\ pc[h] # "idle"
  /\ IF pc[h] = "roles" THEN Leak(h) ELSE Finish(h)
  /\ spared' = IF pc[h] \in {"reread", "del"}
                 THEN spared \cup {req[h].t} ELSE spared
  /\ UNCHANGED <<rows, redis, made, links>>

Request(h) ==
  \/ \E e \in Emails :
       Register(h, e) \/ CreateUser(h, e) \/ AskLink(h, e) \/ Unlink(h, e)
  \/ \E s \in Subjects, e \in Emails, t \in Tokens \cup {None} :
       Callback(h, s, e, t)

\* What a request does of itself.
Run(h) ==
  \/ ConnectRunner(h) \/ FindExisting(h) \/ FindRoles(h) \/ InsertUser(h)
  \/ FindRole(h) \/ CommitUser(h)
  \/ FindAccount(h) \/ GetToken(h) \/ MatchUser(h) \/ FindLinked(h)
  \/ LinkAccount(h) \/ ReadUser(h) \/ DropToken(h) \/ AnswerLinked(h)
  \/ Login(h)
  \/ Look(h) \/ SetToken(h) \/ RemoveAccount(h)

Next ==
  \/ \E e \in Emails : ExpireToken(e)
  \/ \E a \in Emails \X Subjects : DeleteAccount(a)
  \/ \E h \in Handlers : Request(h) \/ Run(h) \/ Fail(h)

\* The event loop and the database serve every request whose turn it is.
Fairness == \A h \in Handlers : WF_vars(Run(h))

Spec == Init /\ [][Next]_vars /\ Fairness

-------------------------------------------------------------------------------
Requests == [op : Ops \cup {"none"}, e : Emails \cup {None},
             s : Subjects \cup {None}, t : Tokens \cup {None}]

\* The steps of a request whose query runner holds a connection.
Holding == {"exists", "roles", "insert", "role", "commit", "link"}

\* Every variable has its type; connections are held where the code holds them
\* and nowhere else, and there are never more than the pool has.
TypeOK ==
  /\ users \subseteq Emails
  /\ accounts \subseteq Emails \X Subjects
  /\ link \in [Emails -> drawn \cup {None}] /\ drawn \subseteq Tokens
  /\ pc \in [Handlers -> Steps]
  /\ req \in [Handlers -> Requests]
  /\ \A h \in Handlers : pc[h] = "idle" <=> req[h] = NoRequest
  /\ held = {h \in Handlers : pc[h] \in Holding}
  /\ leaked \in 0 .. MaxLeaks /\ Free >= 0
  /\ made \in 0 .. MaxRequests
  /\ links \in [Tokens -> Nat] /\ spared \subseteq Tokens
  /\ cut \subseteq Handlers

\* A link token links one account, though the database and the key in Redis
\* are written apart and the account may be unlinked at once; unless callbacks
\* presented it at a time, or one ended between the two writes.
LinkedOnce == \A t \in Tokens \ spared : links[t] <= 1

\* Who is signed in through a provider has that account linked, whatever ran
\* between the look at the account and the login, unless it was unlinked then.
SignedInLinked ==
  \A h \in Handlers \ cut :
    pc[h] = "login" => <<req[h].e, req[h].s>> \in accounts

\* Every request is answered.  Requests hold a connection while they wait for
\* another one: there must be more of them than requests in flight and
\* connections lost together.
Answered == \A h \in Handlers : pc[h] # "idle" ~> pc[h] = "idle"
===============================================================================

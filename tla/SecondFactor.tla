----------------------------- MODULE SecondFactor -----------------------------
(***************************************************************************)
(* The second factor of the accounts (auth.service, 1686-2068): switching  *)
(* it on and off, the authenticator's secret, the codes sent by e-mail and *)
(* kept in Redis, and what the tokens of the sessions say of it.           *)
(*                                                                         *)
(* One action is one SQL statement or Redis command with the code around   *)
(* it.  Access tokens are not stored anywhere: a client may present any    *)
(* that it was given, as long as the session lives.                        *)
(*                                                                         *)
(* The claims of a token are looked at by JwtAuthGuard and                 *)
(* JwtRefreshStrategy, which are HTTP's.  A WebSocket is opened with any   *)
(* valid access token: WsAuthMiddleware copies its claims (47-48), and     *)
(* authorize() asks for them under @RequireM2FA only (67-75), which is on  *)
(* no route.  So this module says nothing of matching and video chat: they *)
(* are open to a session whose factor is still to be done.                 *)
(***************************************************************************)
EXTENDS Naturals, FiniteSets

CONSTANTS
  Accounts,
  Clients,     \* sessions, each with its client
  Owner,       \* the account of a session
  Codes,       \* codes sent by e-mail, each once: bounds how many are
  Handlers,    \* slots for requests in flight: bounds the concurrency
  MaxSecrets,  \* bound on the authenticator secrets drawn
  None

ASSUME SecondFactorAssumption ==
  /\ MaxSecrets \in Nat
  /\ Owner \in [Clients -> Accounts]
  /\ None \notin Nat \cup Clients \cup Codes

VARIABLES
  enabled,   \* per account, users.is_m2fa_enabled
  secret,    \* per account, m2fa.totp_secret, by the number of the draw; 0:
             \* no row
  drawn,     \* secrets drawn so far
  claims,    \* per session, what its access tokens say; {}: not opened
  refresh,   \* per session, what its stored refresh token says, or None
  attempts,  \* Redis: the wrong guesses of a code, or None (no key)
  aged,      \* codes that the clock has taken out of the TOTP window
  sent,      \* codes sent so far
  pc,        \* per handler, the statement or command it issues next
  req,       \* per handler, the request
  gated,     \* (history) sessions whose login found the factor switched on
  verified,  \* (history) sessions that passed with a right code
  wrong,     \* (history) per code, guesses answered as wrong
  admitted,  \* (history) per code, guesses that passed
  raced      \* (history) codes that two requests verified at a time

store   == <<secret, drawn>>
tokens  == <<claims, refresh>>
otp     == <<attempts, aged, sent>>
history == <<gated, verified, wrong, admitted, raced>>
vars    == <<enabled, store, tokens, otp, pc, req, history>>

\* What a token says: m2fa_authenticated and m2fa_required.
Claim(auth, required) == [auth |-> auth, required |-> required]
Claims == [auth : BOOLEAN, required : BOOLEAN]

MaxGuesses == 4

Ops   == {"login", "refresh", "enable", "disable", "setup", "send",
          "verify_otp", "verify_totp"}
Steps == {"idle", "session", "sign", "find", "update", "lock", "save", "store",
          "get", "drop", "put", "take", "secret"}

\* A request: the session it is for; what it read of the switch, or whether it
\* found a secret; the code and whether it is right; the number of guesses or
\* of the secret it goes by.
Ask(op, s, on, c, right, got) ==
  [op |-> op, s |-> s, on |-> on, c |-> c, right |-> right, got |-> got]

NoRequest == Ask("none", None, FALSE, None, FALSE, 0)

Init ==
  /\ enabled  = [a \in Accounts |-> FALSE]
  /\ secret   = [a \in Accounts |-> 0]
  /\ drawn    = 0
  /\ claims   = [s \in Clients |-> {}]
  /\ refresh  = [s \in Clients |-> None]
  /\ attempts = [c \in Codes |-> None]
  /\ aged     = {}
  /\ sent     = {}
  /\ pc       = [h \in Handlers |-> "idle"]
  /\ req      = [h \in Handlers |-> NoRequest]
  /\ gated    = {}
  /\ verified = {}
  /\ wrong    = [c \in Codes |-> 0]
  /\ admitted = [c \in Codes |-> 0]
  /\ raced    = {}

-------------------------------------------------------------------------------
Begin(h, r, first) ==
  /\ pc[h] = "idle"
  /\ pc'  = [pc EXCEPT ![h] = first]
  /\ req' = [req EXCEPT ![h] = r]

Goto(h, to) == pc' = [pc EXCEPT ![h] = to]

\* (mutant of Finish) The request keeps what it holds.
FinishHolding(h) == Goto(h, "idle") /\ UNCHANGED req

Finish(h) ==
  /\ Goto(h, "idle")
  /\ req' = [req EXCEPT ![h] = NoRequest]

\* The client of s is given an access token.
Give(s, c) == claims' = [claims EXCEPT ![s] = @ \cup {c}]

\* The user of session s, as it is read from the database.
On(s) == enabled[Owner[s]]

\* No request is for session s.
Idle(s) == \A g \in Handlers : req[g].s # s

-------------------------------------------------------------------------------
(***************************************************************************)
(* Registration, login and refresh, as far as the second factor goes       *)
(* (Sessions has the rest).                                                *)
(***************************************************************************)

\* register, registerWithCookies: the first session of an account, in the
\* transaction that creates it.
Register(s) ==
  LET c == Claim(FALSE, FALSE) IN
  /\ \A t \in Clients : Owner[t] = Owner[s] => claims[t] = {} /\ Idle(t)
  /\ Give(s, c)
  /\ refresh' = [refresh EXCEPT ![s] = c]
  /\ gated'   = gated \ {s}
  /\ UNCHANGED <<enabled, store, otp, pc, req, verified, wrong, admitted,
                 raced>>

\* validateUser reads the user.
StartLogin(h, s) ==
  /\ claims[s] = {} /\ Idle(s)
  /\ Begin(h, Ask("login", s, On(s), None, FALSE, 0), "session")
  /\ gated' = IF On(s) THEN gated \cup {s} ELSE gated \ {s}
  /\ UNCHANGED <<enabled, store, tokens, otp, verified, wrong, admitted,
                 raced>>

\* (mutant of LoginClaim) The required factor is taken as passed.
LoginClaimPassed(on) == Claim(TRUE, on)

LoginClaim(on) == Claim(~ on, on)

CreateSession(h) ==
  LET s == req[h].s
      c == LoginClaim(req[h].on)
  IN  /\ pc[h] = "session"
      /\ Give(s, c)
      /\ refresh' = [refresh EXCEPT ![s] = c]
      /\ Finish(h)
      /\ UNCHANGED <<enabled, store, otp, history>>

\* What JwtAuthGuard takes on a route without @SkipM2FA, and JwtRefreshStrategy
\* of a refresh token.
RouteTakes(c) == c.auth \/ ~ c.required

\* Only the refresh token that login or a refresh stored is found again; the
\* one that a verification signs is stored nowhere.  verifyRefreshToken reads
\* the user with it.
StartRefresh(h, s) ==
  /\ refresh[s] # None
  /\ RouteTakes(refresh[s])
  /\ Begin(h, Ask("refresh", s, On(s), None, FALSE, 0), "sign")
  /\ UNCHANGED <<enabled, store, tokens, otp, history>>

SignRefreshed(h) ==
  LET s == req[h].s
      c == Claim(TRUE, req[h].on)
  IN  /\ pc[h] = "sign"
      /\ Give(s, c)
      /\ refresh' = [refresh EXCEPT ![s] = c]
      /\ Finish(h)
      /\ UNCHANGED <<enabled, store, otp, history>>

-------------------------------------------------------------------------------
(***************************************************************************)
(* Requests that JwtAuthGuard lets pass only with the factor done: enable, *)
(* disable, set up the authenticator.  (The last two also ask for the      *)
(* password, which is right here.)                                         *)
(***************************************************************************)
StartSetting(h, op, s) ==
  /\ op = "setup" => drawn < MaxSecrets  \* the bound on secrets
  /\ \E c \in claims[s] : RouteTakes(c)
  /\ Begin(h, Ask(op, s, FALSE, None, FALSE, 0), "find")
  /\ UNCHANGED <<enabled, store, tokens, otp, history>>

\* The handlers; the actions below are their statements.
EnableM2FA(h, s)  == StartSetting(h, "enable", s)

DisableM2FA(h, s) == StartSetting(h, "disable", s)

SetAuthenticationMethod(h, s) == StartSetting(h, "setup", s)

FindSetting(h) ==
  LET on == On(req[h].s) IN
  /\ pc[h] = "find"
  /\ \/ req[h].op = "enable" /\ ~ on /\ Goto(h, "update") /\ UNCHANGED req
     \/ req[h].op = "disable" /\ on /\ Goto(h, "update") /\ UNCHANGED req
     \/ req[h].op = "setup" /\ on /\ Goto(h, "lock") /\ UNCHANGED req
     \/ on = (req[h].op = "enable") /\ Finish(h)
  /\ UNCHANGED <<enabled, store, tokens, otp, history>>

\* The caller's session, and only this one, gets an access token that says so;
\* its refresh token stays.
Switch(h) ==
  LET on == req[h].op = "enable" IN
  /\ pc[h] = "update"
  /\ enabled' = [enabled EXCEPT ![Owner[req[h].s]] = on]
  /\ Give(req[h].s, Claim(TRUE, on))
  /\ Finish(h)
  /\ UNCHANGED <<store, otp, refresh, history>>

\* A secret is drawn, then findOne with a pessimistic_write lock.
LockSecret(h) ==
  LET a   == Owner[req[h].s]
      row == secret[a] # 0
  IN  /\ pc[h] = "lock"
      /\ drawn < MaxSecrets
      /\ row => \A g \in Handlers :
                  pc[g] = "save" /\ Owner[req[g].s] = a => ~ req[g].on
      /\ drawn' = drawn + 1
      /\ req' = [req EXCEPT ![h].on = row, ![h].got = drawn + 1]
      /\ Goto(h, "save")
      /\ UNCHANGED <<enabled, tokens, otp, secret, history>>

\* user_id is UNIQUE: the second of two first rows fails.
SaveSecret(h) ==
  LET a == Owner[req[h].s] IN
  /\ pc[h] = "save"
  /\ secret' = IF ~ req[h].on /\ secret[a] # 0
                 THEN secret ELSE [secret EXCEPT ![a] = req[h].got]
  /\ Finish(h)
  /\ UNCHANGED <<enabled, tokens, otp, drawn, history>>

-------------------------------------------------------------------------------
(***************************************************************************)
(* Requests for sessions whose factor is still to be done: SkipM2FA and    *)
(* M2FAAlreadyVerifiedGuard, which goes by the token and by the user that  *)
(* was read with it.                                                       *)
(***************************************************************************)

StillToDo(s) == On(s) /\ \E c \in claims[s] : ~ c.auth

SendM2FAOtp(h, s) ==
  /\ sent # Codes  \* the bound on codes
  /\ StillToDo(s)
  /\ Begin(h, Ask("send", s, FALSE, None, FALSE, 0), "store")
  /\ UNCHANGED <<enabled, store, tokens, otp, history>>

\* sendM2FAOtp: earlier codes stay.
StoreCode(h, c) ==
  /\ pc[h] = "store"
  /\ c \notin sent
  /\ sent' = sent \cup {c}
  /\ attempts' = [attempts EXCEPT ![c] = 0]
  /\ Finish(h)
  /\ UNCHANGED <<enabled, store, tokens, aged, history>>

\* The code is looked up by the token it was sent with; nothing compares the
\* account it was sent to with the session's.
VerifyM2FAOtp(h, s, c, right) ==
  /\ StillToDo(s)
  /\ c \in sent
  /\ Begin(h, Ask("verify_otp", s, FALSE, c, right, 0), "get")
  /\ raced' = IF \E g \in Handlers : req[g].c = c THEN raced \cup {c} ELSE raced
  /\ UNCHANGED <<enabled, store, tokens, otp, gated, verified, wrong,
                 admitted>>

\* (mutant of TooMany) One guess more.
FiveGuesses(n) == n > MaxGuesses

TooMany(n) == n >= MaxGuesses

\* A code that left the TOTP window is as wrong as any other.
GetCode(h) ==
  LET r == req[h]
      n == attempts[r.c]
      right == r.right /\ r.c \notin aged
  IN  /\ pc[h] = "get"
      /\ \/ n = None /\ Finish(h)
         \/ /\ n # None
            /\ IF TooMany(n) THEN Goto(h, "drop")
               ELSE IF right THEN Goto(h, "take") ELSE Goto(h, "put")
            /\ req' = [req EXCEPT ![h].got = n]
      /\ UNCHANGED <<enabled, store, tokens, otp, history>>

DropCode(h) ==
  /\ pc[h] = "drop"
  /\ attempts' = [attempts EXCEPT ![req[h].c] = None]
  /\ Finish(h)
  /\ UNCHANGED <<enabled, store, tokens, aged, sent, history>>

\* TTL, then SETEX with what was read before and one guess more: for another
\* minute if the key is gone by now.
PutBack(h) ==
  LET c == req[h].c IN
  /\ pc[h] = "put"
  /\ attempts' = [attempts EXCEPT ![c] = req[h].got + 1]
  /\ wrong'    = [wrong EXCEPT ![c] = @ + 1]
  /\ Finish(h)
  /\ UNCHANGED <<enabled, store, tokens, aged, sent, gated, verified,
                 admitted, raced>>

\* (mutant of TakeCode) The key is left to expire.
TakeCodeKept(h) ==
  /\ pc[h] = "take"
  /\ admitted' = [admitted EXCEPT ![req[h].c] = @ + 1]
  /\ verified' = verified \cup {req[h].s}
  /\ Give(req[h].s, Claim(TRUE, TRUE))
  /\ Finish(h)
  /\ UNCHANGED <<enabled, store, otp, refresh, gated, wrong, raced>>

\* DEL, and tokens for the session; the refresh token is not stored.
TakeCode(h) ==
  /\ pc[h] = "take"
  /\ attempts' = [attempts EXCEPT ![req[h].c] = None]
  /\ admitted' = [admitted EXCEPT ![req[h].c] = @ + 1]
  /\ verified' = verified \cup {req[h].s}
  /\ Give(req[h].s, Claim(TRUE, TRUE))
  /\ Finish(h)
  /\ UNCHANGED <<enabled, store, refresh, aged, sent, gated, wrong, raced>>

\* A code of the authenticator, for the secret of draw n.
VerifyM2FAAuthenticator(h, s, n) ==
  /\ StillToDo(s)
  /\ Begin(h, Ask("verify_totp", s, FALSE, None, FALSE, n), "secret")
  /\ UNCHANGED <<enabled, store, tokens, otp, history>>

CheckSecret(h) ==
  LET s == req[h].s
      n == secret[Owner[s]]
  IN
  /\ pc[h] = "secret"
  /\ IF n # 0 /\ req[h].got = n
       THEN /\ Give(s, Claim(TRUE, TRUE))
            /\ verified' = verified \cup {s}
       ELSE UNCHANGED <<claims, verified>>
  /\ Finish(h)
  /\ UNCHANGED <<enabled, store, otp, refresh, gated, wrong, admitted, raced>>

-------------------------------------------------------------------------------
Expire(c) ==
  /\ attempts[c] # None
  /\ attempts' = [attempts EXCEPT ![c] = None]
  /\ UNCHANGED <<enabled, store, tokens, aged, sent, pc, req, history>>

\* The code was made for 30 seconds, and is taken one period sooner or later.
Age(c) ==
  /\ c \in sent \ aged
  /\ aged' = aged \cup {c}
  /\ UNCHANGED <<enabled, store, tokens, attempts, sent, pc, req, history>>

\* A statement or a command fails, or the process ends.
Fail(h) ==
  /\ pc[h] # "idle"
  /\ Finish(h)
  /\ UNCHANGED <<enabled, store, tokens, otp, history>>

Request(h) ==
  \E s \in Clients :
    \/ StartLogin(h, s) \/ StartRefresh(h, s) \/ SendM2FAOtp(h, s)
    \/ EnableM2FA(h, s) \/ DisableM2FA(h, s) \/ SetAuthenticationMethod(h, s)
    \/ \E c \in Codes, right \in BOOLEAN : VerifyM2FAOtp(h, s, c, right)
    \/ \E n \in 0 .. drawn : VerifyM2FAAuthenticator(h, s, n)

Run(h) ==
  \/ CreateSession(h) \/ SignRefreshed(h)
  \/ FindSetting(h) \/ Switch(h) \/ LockSecret(h) \/ SaveSecret(h)
  \/ \E c \in Codes : StoreCode(h, c)
  \/ GetCode(h) \/ DropCode(h) \/ PutBack(h) \/ TakeCode(h)
  \/ CheckSecret(h) \/ Fail(h)

Next ==
  \/ \E c \in Codes : Expire(c) \/ Age(c)
  \/ \E s \in Clients : Register(s)
  \/ \E h \in Handlers : Request(h) \/ Run(h)

Spec == Init /\ [][Next]_vars

-------------------------------------------------------------------------------
Requests == [op : Ops \cup {"none"}, s : Clients \cup {None}, on : BOOLEAN,
             c : Codes \cup {None}, right : BOOLEAN, got : Nat]

\* Every variable has its type; a handler at rest holds nothing, another has
\* its session.
TypeOK ==
  /\ enabled \in [Accounts -> BOOLEAN]
  /\ secret \in [Accounts -> 0 .. MaxSecrets] /\ drawn \in 0 .. MaxSecrets
  /\ claims \in [Clients -> SUBSET Claims]
  /\ refresh \in [Clients -> Claims \cup {None}]
  /\ attempts \in [Codes -> Nat \cup {None}]
  /\ aged \subseteq sent /\ sent \subseteq Codes
  /\ pc \in [Handlers -> Steps]
  /\ req \in [Handlers -> Requests]
  /\ gated \subseteq Clients /\ verified \subseteq Clients
  /\ wrong \in [Codes -> Nat] /\ admitted \in [Codes -> Nat]
  /\ raced \subseteq Codes
  /\ \A h \in Handlers : IF pc[h] = "idle" THEN req[h] = NoRequest
                                          ELSE req[h].s \in Clients

\* The HTTP routes and the refresh ask for the factor: a session whose login
\* found it switched on holds no token that JwtAuthGuard takes on a route
\* without @SkipM2FA, nor one it could exchange, until a right code was
\* presented for it; whoever switches the factor off and on, sets it up anew,
\* refreshes, registers and logs in meanwhile.  (A right code is one of the
\* account's authenticator, or one that was sent by e-mail, be it for another
\* account: verifyM2FAOtp tells no difference.  WebSockets do not ask.)
CodeBeforeRoutes ==
  \A s \in gated \ verified :
    /\ \A c \in claims[s] : ~ RouteTakes(c)
    /\ refresh[s] # None => ~ RouteTakes(refresh[s])

\* "Too many invalid attempts": unless two requests verified a code at a time,
\* no more than four guesses at it are answered, and none passes after the
\* fourth wrong one, though the counter lives in a key that each wrong guess
\* writes anew.
GuessLimit == \A c \in Codes \ raced : wrong[c] + admitted[c] <= MaxGuesses

\* A code lets one session pass once, unless two requests verified it at a time:
\* no wrong guess, expiry or failure brings it back.
OncePerCode == \A c \in Codes \ raced : admitted[c] <= 1
===============================================================================

-------------------------- MODULE SecondFactorProofs --------------------------
(***************************************************************************)
(* Theorems about SecondFactor, for any number of accounts, sessions,      *)
(* codes, requests in flight and secrets.                                  *)
(*                                                                         *)
(* CodeBeforeRoutes.  A session whose login found the factor on, and for   *)
(* which no right code was presented, was only given the claim of such a   *)
(* login (Bare).  JwtAuthGuard lets that claim pass to the routes with     *)
(* @SkipM2FA only, and JwtRefreshStrategy not at all: no request behind    *)
(* the factor, and no refresh, runs for the session (Shut), and these are  *)
(* the only ones that would give it another claim without a code.  (A      *)
(* WebSocket gives nobody a token.)                                        *)
(*                                                                         *)
(* GuessLimit and OncePerCode.  A code that no two requests verify at a    *)
(* time is in the hands of one handler (Lone); the key in Redis, if it is  *)
(* there, and what that handler read of it, is the number of wrong guesses *)
(* so far, and nobody has passed with the code (Counted, InHand).          *)
(***************************************************************************)
EXTENDS SecondFactor, TLAPS

\* What a handler at step p is about, by its request r.
Fitting(p, r) ==
  /\ p = "idle" => r = NoRequest
  /\ p # "idle" => r.s \in Clients
  /\ p \in {"get", "drop", "put", "take"} => r.c \in Codes
  /\ p = "save" => r.got \in 0 .. MaxSecrets

ReqOK ==
  /\ pc \in [Handlers -> Steps]
  /\ req \in [Handlers -> Requests]
  /\ \A h \in Handlers : Fitting(pc[h], req[h])

DataOK ==
  /\ enabled \in [Accounts -> BOOLEAN]
  /\ secret \in [Accounts -> 0 .. MaxSecrets] /\ drawn \in 0 .. MaxSecrets
  /\ claims \in [Clients -> SUBSET Claims]
  /\ refresh \in [Clients -> Claims \cup {None}]
  /\ attempts \in [Codes -> Nat \cup {None}]
  /\ aged \subseteq sent /\ sent \subseteq Codes
  /\ gated \subseteq Clients /\ verified \subseteq Clients
  /\ wrong \in [Codes -> Nat] /\ admitted \in [Codes -> Nat]
  /\ raced \subseteq Codes

TInv == ReqOK /\ DataOK

USE DEF vars, store, tokens, otp, history

-------------------------------------------------------------------------------
(***************************************************************************)
(* Requests and claims, as records.                                        *)
(***************************************************************************)
LEMMA AskType ==
  ASSUME NEW op \in Ops, NEW s \in Clients, NEW on \in BOOLEAN,
         NEW c \in Codes \cup {None}, NEW right \in BOOLEAN, NEW got \in Nat
  PROVE  LET r == Ask(op, s, on, c, right, got) IN
         /\ r \in Requests
         /\ r.op = op /\ r.s = s /\ r.on = on /\ r.c = c /\ r.got = got
  BY DEF Ask, Requests

LEMMA NoRequestType ==
  NoRequest \in Requests /\ NoRequest.s = None /\ NoRequest.c = None
  BY DEF NoRequest, Ask, Requests, Ops

LEMMA GotType ==
  ASSUME NEW r \in Requests, NEW n \in Nat
  PROVE  LET q == [r EXCEPT !.got = n] IN
         /\ q \in Requests
         /\ q.op = r.op /\ q.s = r.s /\ q.on = r.on /\ q.c = r.c /\ q.got = n
  BY DEF Requests

LEMMA FieldTypes ==
  ASSUME NEW r \in Requests
  PROVE  /\ r.op \in Ops \cup {"none"}
         /\ r.s \in Clients \cup {None} /\ r.c \in Codes \cup {None}
         /\ r.on \in BOOLEAN /\ r.right \in BOOLEAN /\ r.got \in Nat
  BY DEF Requests

LEMMA ClaimType ==
  ASSUME NEW a \in BOOLEAN, NEW b \in BOOLEAN
  PROVE  /\ Claim(a, b) \in Claims
         /\ Claim(a, b).auth = a /\ Claim(a, b).required = b
  BY DEF Claim, Claims

\* What is read of the account of a session.
LEMMA OwnerType ==
  ASSUME DataOK, NEW s \in Clients
  PROVE  /\ Owner[s] \in Accounts /\ On(s) \in BOOLEAN
         /\ secret[Owner[s]] \in 0 .. MaxSecrets
  BY SecondFactorAssumption DEF DataOK, On

-------------------------------------------------------------------------------
(***************************************************************************)
(* Types.                                                                  *)
(***************************************************************************)
LEMMA Moved ==
  ASSUME ReqOK, NEW h \in Handlers, NEW r \in Requests, NEW at \in Steps,
         Fitting(at, r),
         req' = [req EXCEPT ![h] = r], pc' = [pc EXCEPT ![h] = at]
  PROVE  ReqOK'
<1>1. \A g \in Handlers : Fitting(pc'[g], req'[g])
  BY DEF ReqOK
<1> QED
  BY <1>1 DEF ReqOK

LEMMA Went ==
  ASSUME ReqOK, NEW h \in Handlers, NEW at \in Steps, Fitting(at, req[h]),
         UNCHANGED req, Goto(h, at)
  PROVE  ReqOK'
<1>1. req' = [req EXCEPT ![h] = req[h]] /\ req[h] \in Requests
  BY DEF ReqOK
<1> QED
  BY <1>1, Moved DEF Goto

LEMMA Finished ==
  ASSUME ReqOK, NEW h \in Handlers, Finish(h)
  PROVE  ReqOK'
<1>1. Fitting("idle", NoRequest) /\ "idle" \in Steps
  BY DEF Fitting, Steps
<1> QED
  BY <1>1, NoRequestType, Moved DEF Finish, Goto

\* A request that starts with step "first".
LEMMA Started ==
  ASSUME ReqOK, NEW h \in Handlers, NEW op \in Ops, NEW s \in Clients,
         NEW on \in BOOLEAN, NEW c \in Codes \cup {None},
         NEW right \in BOOLEAN, NEW got \in Nat,
         NEW first \in Steps \ {"idle", "save"},
         first \in {"get", "drop", "put", "take"} => c \in Codes,
         Begin(h, Ask(op, s, on, c, right, got), first)
  PROVE  ReqOK'
<1> DEFINE r == Ask(op, s, on, c, right, got)
<1>1. r \in Requests /\ r.s = s /\ r.c = c
  BY AskType
<1>2. req' = [req EXCEPT ![h] = r] /\ pc' = [pc EXCEPT ![h] = first]
  BY DEF Begin
<1> HIDE DEF r
<1>3. Fitting(first, r)
  BY <1>1 DEF Fitting
<1> QED
  BY <1>1, <1>2, <1>3, Moved

\* A request with a secret that was drawn goes on to save it.
LEMMA Locked ==
  ASSUME TInv, NEW h \in Handlers, LockSecret(h)
  PROVE  \E r \in Requests :
           /\ r.s = req[h].s /\ r.c = req[h].c /\ Fitting("save", r)
           /\ req' = [req EXCEPT ![h] = r]
           /\ pc'  = [pc EXCEPT ![h] = "save"]
<1>1. PICK row \in BOOLEAN, n \in 0 .. MaxSecrets :
        req' = [req EXCEPT ![h] = [req[h] EXCEPT !.on = row, !.got = n]]
  <2>1. drawn + 1 \in 0 .. MaxSecrets
    BY SecondFactorAssumption DEF LockSecret, TInv, DataOK
  <2>2. (secret[Owner[req[h].s]] # 0) \in BOOLEAN
    OBVIOUS
  <2> QED
    BY <2>1, <2>2 DEF LockSecret
<1>2. req[h] \in Requests /\ req[h].s \in Clients
  BY DEF LockSecret, TInv, ReqOK, Fitting
<1>3. n \in Nat /\ row \in BOOLEAN
  BY SecondFactorAssumption
<1> DEFINE r == [req[h] EXCEPT !.on = row, !.got = n]
<1>4. r \in Requests /\ r.s = req[h].s /\ r.c = req[h].c /\ r.got = n
  BY <1>2, <1>3 DEF Requests
<1>5. req' = [req EXCEPT ![h] = r] /\ pc' = [pc EXCEPT ![h] = "save"]
  BY <1>1 DEF LockSecret, Goto
<1> HIDE DEF r
<1>6. Fitting("save", r)
  BY <1>2, <1>4 DEF Fitting
<1> QED
  BY <1>4, <1>5, <1>6

LEMMA TypesInit == Init => TInv
<1> SUFFICES ASSUME Init PROVE TInv
  OBVIOUS
<1>1. ReqOK
  BY NoRequestType DEF Init, ReqOK, Fitting, Steps
<1>2. /\ secret \in [Accounts -> 0 .. MaxSecrets]
      /\ drawn \in 0 .. MaxSecrets
      /\ enabled \in [Accounts -> BOOLEAN]
  BY SecondFactorAssumption DEF Init
<1>3. /\ claims \in [Clients -> SUBSET Claims]
      /\ refresh \in [Clients -> Claims \cup {None}]
  BY DEF Init
<1>4. /\ attempts \in [Codes -> Nat \cup {None}]
      /\ wrong \in [Codes -> Nat] /\ admitted \in [Codes -> Nat]
  BY DEF Init
<1>5. aged = {} /\ sent = {} /\ gated = {} /\ verified = {} /\ raced = {}
  BY DEF Init
<1> QED
  BY <1>1, <1>2, <1>3, <1>4, <1>5 DEF TInv, DataOK

LEMMA TypesStep == TInv /\ [Next]_vars => TInv'
<1> SUFFICES ASSUME TInv, [Next]_vars
             PROVE  ReqOK' /\ DataOK'
  BY DEF TInv
<1>0. ReqOK /\ DataOK
  BY DEF TInv
<1> USE <1>0, SecondFactorAssumption
<1>1. ASSUME NEW c \in Codes, Expire(c) \/ Age(c)
      PROVE  ReqOK' /\ DataOK'
  BY <1>1 DEF Expire, Age, ReqOK, DataOK
<1>18. ASSUME NEW s \in Clients, Register(s)
       PROVE  ReqOK' /\ DataOK'
  <2>1. PICK c \in Claims :
          /\ claims' = [claims EXCEPT ![s] = @ \cup {c}]
          /\ refresh' = [refresh EXCEPT ![s] = c]
    BY <1>18, ClaimType DEF Register, Give
  <2>2. gated' \subseteq Clients
    BY <1>18 DEF Register, DataOK
  <2>3. /\ UNCHANGED <<enabled, store, otp, pc, req, verified, wrong>>
        /\ UNCHANGED <<admitted, raced>>
    BY <1>18 DEF Register
  <2>4. DataOK'
    BY <2>1, <2>2, <2>3 DEF DataOK
  <2>5. ReqOK'
    BY <2>3 DEF ReqOK
  <2> QED
    BY <2>4, <2>5
<1>2. ASSUME NEW h \in Handlers, Request(h)
      PROVE  ReqOK' /\ DataOK'
  <2>0. PICK s \in Clients :
          \/ StartLogin(h, s) \/ StartRefresh(h, s) \/ SendM2FAOtp(h, s)
          \/ \E op \in {"enable", "disable", "setup"} : StartSetting(h, op, s)
          \/ \E c \in Codes, right \in BOOLEAN : VerifyM2FAOtp(h, s, c, right)
          \/ \E n \in 0 .. drawn : VerifyM2FAAuthenticator(h, s, n)
    BY <1>2 DEF Request, EnableM2FA, DisableM2FA, SetAuthenticationMethod
  <2>1. {"login", "refresh", "send", "enable", "disable", "setup",
         "verify_otp", "verify_totp"} \subseteq Ops
    BY DEF Ops
  <2>2. {"session", "sign", "store", "find", "get", "secret"}
          \subseteq Steps \ {"idle", "save"}
    BY DEF Steps
  <2>3. CASE StartLogin(h, s)
    <3>1. ReqOK'
      BY <2>1, <2>2, <2>3, Started, OwnerType DEF StartLogin
    <3>2. DataOK'
      BY <2>3 DEF StartLogin, DataOK
    <3> QED
      BY <3>1, <3>2
  <2>4. CASE StartRefresh(h, s)
    <3>1. ReqOK'
      BY <2>1, <2>2, <2>4, Started, OwnerType DEF StartRefresh
    <3>2. DataOK'
      BY <2>4 DEF StartRefresh, DataOK
    <3> QED
      BY <3>1, <3>2
  <2>5. CASE SendM2FAOtp(h, s)
    <3>1. ReqOK'
      BY <2>1, <2>2, <2>5, Started DEF SendM2FAOtp
    <3>2. DataOK'
      BY <2>5 DEF SendM2FAOtp, DataOK
    <3> QED
      BY <3>1, <3>2
  <2>6. ASSUME NEW op \in {"enable", "disable", "setup"}, StartSetting(h, op, s)
        PROVE  ReqOK' /\ DataOK'
    <3>1. ReqOK'
      BY <2>1, <2>2, <2>6, Started DEF StartSetting
    <3>2. DataOK'
      BY <2>6 DEF StartSetting, DataOK
    <3> QED
      BY <3>1, <3>2
  <2>7. ASSUME NEW c \in Codes, NEW right \in BOOLEAN,
               VerifyM2FAOtp(h, s, c, right)
        PROVE  ReqOK' /\ DataOK'
    <3>1. ReqOK'
      BY <2>1, <2>2, <2>7, Started DEF VerifyM2FAOtp
    <3>2. DataOK'
      BY <2>7 DEF VerifyM2FAOtp, DataOK
    <3> QED
      BY <3>1, <3>2
  <2>8. ASSUME NEW n \in 0 .. drawn, VerifyM2FAAuthenticator(h, s, n)
        PROVE  ReqOK' /\ DataOK'
    <3>1. n \in Nat
      BY DEF DataOK
    <3>2. ReqOK'
      BY <2>1, <2>2, <2>8, <3>1, Started DEF VerifyM2FAAuthenticator
    <3>3. DataOK'
      BY <2>8 DEF VerifyM2FAAuthenticator, DataOK
    <3> QED
      BY <3>2, <3>3
  <2> QED
    BY <2>0, <2>3, <2>4, <2>5, <2>6, <2>7, <2>8
<1>3. ASSUME NEW h \in Handlers, CreateSession(h) \/ SignRefreshed(h)
      PROVE  ReqOK' /\ DataOK'
  <2>1. req[h] \in Requests /\ req[h].s \in Clients /\ req[h].on \in BOOLEAN
    BY <1>3, FieldTypes
    DEF CreateSession, SignRefreshed, ReqOK, Fitting
  <2>2. PICK c \in Claims :
          /\ claims' = [claims EXCEPT ![req[h].s] = @ \cup {c}]
          /\ refresh' = [refresh EXCEPT ![req[h].s] = c]
    BY <1>3, <2>1, ClaimType DEF CreateSession, SignRefreshed, LoginClaim, Give
  <2>3. Finish(h) /\ UNCHANGED <<enabled, store, otp, history>>
    BY <1>3 DEF CreateSession, SignRefreshed
  <2>4. DataOK'
    BY <2>1, <2>2, <2>3 DEF DataOK
  <2> QED
    BY <2>3, <2>4, Finished
<1>4. ASSUME NEW h \in Handlers, FindSetting(h)
      PROVE  ReqOK' /\ DataOK'
  <2>1. CASE Finish(h)
    BY <1>4, <2>1, Finished DEF FindSetting, DataOK
  <2>2. ASSUME NEW at \in {"update", "lock"}, Goto(h, at), UNCHANGED req
        PROVE  ReqOK' /\ DataOK'
    <3>1. Fitting(at, req[h]) /\ at \in Steps
      BY <1>4 DEF FindSetting, ReqOK, Fitting, Steps
    <3> QED
      BY <1>4, <2>2, <3>1, Went DEF FindSetting, DataOK
  <2> QED
    BY <1>4, <2>1, <2>2 DEF FindSetting
<1>5. ASSUME NEW h \in Handlers, Switch(h)
      PROVE  ReqOK' /\ DataOK'
  <2>1. req[h].s \in Clients
    BY <1>5 DEF Switch, ReqOK, Fitting
  <2>2. PICK c \in Claims : claims' = [claims EXCEPT ![req[h].s] = @ \cup {c}]
    BY <1>5, ClaimType DEF Switch, Give
  <2>3. /\ Finish(h) /\ enabled' \in [Accounts -> BOOLEAN]
        /\ UNCHANGED <<store, otp, refresh, history>>
    BY <1>5 DEF Switch, DataOK
  <2>4. DataOK'
    BY <2>1, <2>2, <2>3 DEF DataOK
  <2> QED
    BY <2>3, <2>4, Finished
<1>6. ASSUME NEW h \in Handlers, NEW n \in Nat,
             NEW at \in Steps \ {"idle", "save"},
             req' = [req EXCEPT ![h].got = n], Goto(h, at), pc[h] # "idle",
             at \in {"get", "drop", "put", "take"} => req[h].c \in Codes
      PROVE  ReqOK'
  <2> DEFINE r == [req[h] EXCEPT !.got = n]
  <2>1. req' = [req EXCEPT ![h] = r] /\ pc' = [pc EXCEPT ![h] = at]
    BY <1>6 DEF Goto
  <2>2. req[h] \in Requests /\ req[h].s \in Clients
    BY <1>6 DEF ReqOK, Fitting
  <2>3. r \in Requests /\ r.s = req[h].s /\ r.c = req[h].c
    BY ONLY <2>2, n \in Nat, GotType
  <2> HIDE DEF r
  <2>4. Fitting(at, r)
    BY <1>6, <2>2, <2>3 DEF Fitting
  <2> QED
    BY <2>1, <2>3, <2>4, Moved
<1>7. ASSUME NEW h \in Handlers, LockSecret(h)
      PROVE  ReqOK' /\ DataOK'
  <2>1. PICK r \in Requests :
          /\ Fitting("save", r)
          /\ req' = [req EXCEPT ![h] = r] /\ pc' = [pc EXCEPT ![h] = "save"]
    BY <1>7, Locked
  <2>2. ReqOK'
    BY <2>1, Moved DEF Steps
  <2>3. drawn' \in 0 .. MaxSecrets
    BY <1>7 DEF LockSecret, DataOK
  <2>4. DataOK'
    BY <1>7, <2>3 DEF LockSecret, DataOK
  <2> QED
    BY <2>2, <2>4
<1>8. ASSUME NEW h \in Handlers, SaveSecret(h)
      PROVE  ReqOK' /\ DataOK'
  <2>1. req[h].got \in 0 .. MaxSecrets
    BY <1>8 DEF SaveSecret, ReqOK, Fitting
  <2>2. secret' \in [Accounts -> 0 .. MaxSecrets]
    BY <1>8, <2>1 DEF SaveSecret, DataOK
  <2>3. DataOK'
    BY <1>8, <2>2 DEF SaveSecret, DataOK
  <2> QED
    BY <1>8, <2>3, Finished DEF SaveSecret
<1>9. ASSUME NEW h \in Handlers, NEW c \in Codes, StoreCode(h, c)
      PROVE  ReqOK' /\ DataOK'
  BY <1>9, Finished DEF StoreCode, DataOK
<1>10. ASSUME NEW h \in Handlers, GetCode(h)
       PROVE  ReqOK' /\ DataOK'
  <2>1. CASE Finish(h)
    BY <1>10, <2>1, Finished DEF GetCode, DataOK
  <2>2. CASE attempts[req[h].c] # None /\ ~ Finish(h)
    <3>1. req[h].c \in Codes
      BY <1>10 DEF GetCode, ReqOK, Fitting
    <3>2. PICK at \in {"drop", "take", "put"} : Goto(h, at)
      BY <1>10, <2>2 DEF GetCode
    <3>3. /\ attempts[req[h].c] \in Nat /\ at \in Steps \ {"idle", "save"}
          /\ pc[h] # "idle"
          /\ req' = [req EXCEPT ![h].got = attempts[req[h].c]]
      BY <1>10, <2>2, <3>1 DEF GetCode, DataOK, Steps
    <3>4. ReqOK'
      BY <1>6, <3>1, <3>2, <3>3
    <3>5. DataOK'
      BY <1>10 DEF GetCode, DataOK
    <3> QED
      BY <3>4, <3>5
  <2> QED
    BY <1>10, <2>1, <2>2 DEF GetCode
<1>11. ASSUME NEW h \in Handlers, DropCode(h)
       PROVE  ReqOK' /\ DataOK'
  BY <1>11, Finished DEF DropCode, DataOK
<1>12. ASSUME NEW h \in Handlers, PutBack(h)
       PROVE  ReqOK' /\ DataOK'
  <2>1. req[h].c \in Codes /\ req[h].got \in Nat
    BY <1>12, FieldTypes DEF PutBack, ReqOK, Fitting
  <2> QED
    BY <1>12, <2>1, Finished DEF PutBack, DataOK
<1>13. ASSUME NEW h \in Handlers, TakeCode(h)
       PROVE  ReqOK' /\ DataOK'
  <2>1. req[h].s \in Clients /\ req[h].c \in Codes
    BY <1>13 DEF TakeCode, ReqOK, Fitting
  <2>2. PICK c \in Claims : claims' = [claims EXCEPT ![req[h].s] = @ \cup {c}]
    BY <1>13, ClaimType DEF TakeCode, Give
  <2>3. /\ attempts' = [attempts EXCEPT ![req[h].c] = None]
        /\ admitted' = [admitted EXCEPT ![req[h].c] = @ + 1]
        /\ verified' = verified \cup {req[h].s}
        /\ UNCHANGED <<enabled, store, refresh, aged, sent, gated, wrong>>
        /\ UNCHANGED raced
    BY <1>13 DEF TakeCode
  <2>4. DataOK'
    BY <2>1, <2>2, <2>3 DEF DataOK
  <2> QED
    BY <1>13, <2>4, Finished DEF TakeCode
<1>14. ASSUME NEW h \in Handlers, CheckSecret(h)
       PROVE  ReqOK' /\ DataOK'
  <2>1. req[h].s \in Clients
    BY <1>14 DEF CheckSecret, ReqOK, Fitting
  <2>2. PICK c \in Claims :
          \/ /\ claims' = [claims EXCEPT ![req[h].s] = @ \cup {c}]
             /\ verified' = verified \cup {req[h].s}
          \/ UNCHANGED <<claims, verified>>
    BY <1>14, ClaimType DEF CheckSecret, Give
  <2>3. DataOK'
    BY <1>14, <2>1, <2>2 DEF CheckSecret, DataOK
  <2> QED
    BY <1>14, <2>3, Finished DEF CheckSecret
<1>15. ASSUME NEW h \in Handlers, Fail(h)
       PROVE  ReqOK' /\ DataOK'
  BY <1>15, Finished DEF Fail, DataOK
<1>16. CASE UNCHANGED vars
  BY <1>16 DEF ReqOK, DataOK
<1>17. ASSUME NEW h \in Handlers, Run(h)
       PROVE  ReqOK' /\ DataOK'
  BY <1>3, <1>4, <1>5, <1>7, <1>8, <1>9, <1>10, <1>11, <1>12, <1>13, <1>14,
     <1>15, <1>17 DEF Run
<1> QED
  BY <1>1, <1>2, <1>16, <1>17, <1>18 DEF Next

\* Every variable has its type; a handler at rest holds nothing, another has
\* its session.
THEOREM TypeCorrect == Spec => []TypeOK
<1>1. TInv => TypeOK
  BY DEF TInv, ReqOK, DataOK, Fitting, TypeOK
<1> QED
  BY <1>1, TypesInit, TypesStep, PTL DEF Spec

-------------------------------------------------------------------------------
(***************************************************************************)
(* CodeBeforeRoutes.                                                       *)
(***************************************************************************)
Bare == Claim(FALSE, TRUE)

\* The steps of requests behind the factor.
Guarded == {"sign", "find", "update", "lock", "save"}

\* s holds no claim but Bare, and nobody is about to give it another.
Shut(s) ==
  /\ claims[s] \subseteq {Bare} /\ refresh[s] \in {None, Bare}
  /\ \A h \in Handlers :
       req[h].s = s => /\ pc[h] \notin Guarded
                       /\ pc[h] = "session" => req[h].on

\* A session is opened with an access token.
Opened == \A s \in Clients : refresh[s] # None => claims[s] # {}

SInv == Opened /\ \A s \in gated \ verified : Shut(s)

LEMMA BareShut == ~ RouteTakes(Bare)
  BY ClaimType DEF Bare, RouteTakes

LEMMA ShutInit == Init => SInv
  BY DEF Init, SInv, Opened

\* A step of h, other than a login, that gives no claim to s.
LEMMA StaysShut ==
  ASSUME TInv, NEW s \in Clients, Shut(s), NEW h \in Handlers,
         NEW r, NEW at,
         req' = [req EXCEPT ![h] = r], pc' = [pc EXCEPT ![h] = at],
         r.s = s => at \notin Guarded /\ at # "session",
         claims'[s] = claims[s], refresh'[s] = refresh[s]
  PROVE  Shut(s)'
  BY DEF TInv, ReqOK, Shut, Bare, Claim

\* A step of h that gives nobody a claim, and does not enter a guarded request
\* for a session that is shut.
LEMMA NoneOpened ==
  ASSUME TInv, SInv, NEW h \in Handlers, NEW r \in Requests, NEW at \in Steps,
         req' = [req EXCEPT ![h] = r], pc' = [pc EXCEPT ![h] = at],
         \A s \in gated \ verified :
           r.s = s => at \notin Guarded /\ at # "session",
         claims' = claims, refresh' = refresh, gated' = gated,
         verified' = verified
  PROVE  SInv'
<1>1. ASSUME NEW s \in gated' \ verified'
      PROVE  Shut(s)'
  <2>1. s \in gated \ verified /\ s \in Clients /\ Shut(s)
    BY DEF SInv, TInv, DataOK
  <2> QED
    BY <2>1, StaysShut
<1> QED
  BY <1>1 DEF SInv, Opened

LEMMA ShutStep == TInv /\ SInv /\ [Next]_vars => SInv'
<1> SUFFICES ASSUME TInv, SInv, [Next]_vars
             PROVE  SInv'
  OBVIOUS
<1>0. /\ pc \in [Handlers -> Steps] /\ req \in [Handlers -> Requests]
      /\ claims \in [Clients -> SUBSET Claims]
      /\ refresh \in [Clients -> Claims \cup {None}]
      /\ gated \subseteq Clients /\ None \notin Clients
      /\ NoRequest.s = None
  BY SecondFactorAssumption, NoRequestType DEF TInv, ReqOK, DataOK
<1>1. ASSUME UNCHANGED <<claims, refresh, gated, verified, pc, req>>
      PROVE  SInv'
  BY <1>1 DEF SInv, Opened, Shut, Bare, Claim
\* A step that ends a request for q, and may give q a claim: q is not shut, or
\* not any more, or is given Bare.
<1>3. ASSUME NEW h \in Handlers, NEW q \in Clients, NEW c,
             Finish(h), UNCHANGED gated, verified \subseteq verified',
             claims' = [claims EXCEPT ![q] = @ \cup {c}],
             refresh' \in {refresh, [refresh EXCEPT ![q] = c]},
             q \in gated' \ verified' => c = Bare
      PROVE  SInv'
  <2>1. ASSUME NEW s \in gated' \ verified'
        PROVE  Shut(s)'
    <3>1. s \in gated \ verified /\ s \in Clients /\ Shut(s)
      BY <1>0, <1>3 DEF SInv
    <3>2. /\ req' = [req EXCEPT ![h] = NoRequest]
          /\ pc' = [pc EXCEPT ![h] = "idle"]
      BY <1>3 DEF Finish, Goto
    <3>3. CASE s # q
      <4>1. claims'[s] = claims[s] /\ refresh'[s] = refresh[s]
        BY <1>0, <1>3, <3>1, <3>3
      <4>2. "idle" \notin Guarded /\ "idle" # "session"
        BY DEF Guarded
      <4> QED
        BY <3>1, <3>2, <4>1, <4>2, StaysShut
    <3>4. CASE s = q
      <4>1. claims'[s] \subseteq {Bare} /\ refresh'[s] \in {None, Bare}
        BY <1>0, <1>3, <3>1, <3>4 DEF Shut
      <4>2. \A g \in Handlers :
              req'[g].s = s => /\ pc'[g] \notin Guarded
                               /\ pc'[g] = "session" => req'[g].on
        BY <1>0, <3>1, <3>2 DEF Shut
      <4> QED
        BY <4>1, <4>2 DEF Shut, Bare, Claim
    <3> QED
      BY <3>3, <3>4
  <2>2. Opened'
    BY <1>0, <1>3 DEF SInv, Opened
  <2> QED
    BY <2>1, <2>2 DEF SInv
<1>2. ASSUME NEW q \in Clients, Register(q)
      PROVE  SInv'
  <2> DEFINE c == Claim(FALSE, FALSE)
  <2>1. /\ claims' = [claims EXCEPT ![q] = @ \cup {c}]
        /\ refresh' = [refresh EXCEPT ![q] = c]
        /\ gated' = gated \ {q} /\ UNCHANGED <<pc, req, verified>>
    BY <1>2 DEF Register, Give
  <2> HIDE DEF c
  <2>2. ASSUME NEW s \in gated' \ verified'
        PROVE  Shut(s)'
    <3>1. s \in gated \ verified /\ s # q /\ s \in Clients /\ Shut(s)
      BY <1>0, <2>1 DEF SInv
    <3>2. claims'[s] = claims[s] /\ refresh'[s] = refresh[s]
      BY <1>0, <2>1, <3>1
    <3> QED
      BY <2>1, <3>1, <3>2 DEF Shut, Bare, Claim
  <2>3. Opened'
    BY <1>0, <2>1 DEF SInv, Opened
  <2> QED
    BY <2>2, <2>3 DEF SInv
<1>4. \A s \in gated \ verified : s \in Clients /\ Shut(s)
  BY <1>0 DEF SInv
<1>5. ASSUME NEW h \in Handlers, Request(h)
      PROVE  SInv'
  <2>0. PICK q \in Clients :
          \/ StartLogin(h, q) \/ StartRefresh(h, q) \/ SendM2FAOtp(h, q)
          \/ \E op \in {"enable", "disable", "setup"} : StartSetting(h, op, q)
          \/ \E c \in Codes, right \in BOOLEAN : VerifyM2FAOtp(h, q, c, right)
          \/ \E n \in 0 .. drawn : VerifyM2FAAuthenticator(h, q, n)
    BY <1>5 DEF Request, EnableM2FA, DisableM2FA, SetAuthenticationMethod
  <2>1. {"login", "refresh", "send", "enable", "disable", "setup",
         "verify_otp", "verify_totp"} \subseteq Ops
    BY DEF Ops
  \* A request that passes a guard is not for a session that is shut.
  <2>2. ASSUME NEW op \in Ops, NEW on \in BOOLEAN, NEW first \in Steps,
               Begin(h, Ask(op, q, on, None, FALSE, 0), first),
               first # "session", q \notin gated \ verified,
               UNCHANGED <<claims, refresh, gated, verified>>
        PROVE  SInv'
    <3> DEFINE r == Ask(op, q, on, None, FALSE, 0)
    <3>1. r \in Requests /\ r.s = q
      BY DEF Ask, Requests
    <3>2. req' = [req EXCEPT ![h] = r] /\ pc' = [pc EXCEPT ![h] = first]
      BY <2>2 DEF Begin
    <3>3. \A s \in gated \ verified : r.s # s
      BY <2>2, <3>1
    <3> HIDE DEF r
    <3> QED
      BY <2>2, <3>1, <3>2, <3>3, NoneOpened
  \* The others are for what no guard asks.
  <2>3. ASSUME NEW r \in Requests, NEW first \in {"store", "get", "secret"},
               Begin(h, r, first),
               UNCHANGED <<claims, refresh, gated, verified>>
        PROVE  SInv'
    <3>1. first \in Steps \ Guarded /\ first # "session"
      BY DEF Guarded, Steps
    <3> QED
      BY <2>3, <3>1, NoneOpened DEF Begin
  <2>4. CASE StartLogin(h, q)
    <3> DEFINE r == Ask("login", q, On(q), None, FALSE, 0)
    <3>1. r.s = q /\ r.on = On(q)
      BY DEF Ask
    <3>2. /\ req' = [req EXCEPT ![h] = r] /\ pc' = [pc EXCEPT ![h] = "session"]
          /\ gated' = IF On(q) THEN gated \cup {q} ELSE gated \ {q}
          /\ claims[q] = {} /\ \A g \in Handlers : req[g].s # q
          /\ UNCHANGED <<claims, refresh, verified>>
      BY <2>4 DEF StartLogin, Begin, Idle
    <3> HIDE DEF r
    <3>3. ASSUME NEW s \in gated' \ verified', s # q
          PROVE  Shut(s)'
      <4>1. Shut(s) /\ s \in Clients
        BY <1>4, <3>2, <3>3
      <4> QED
        BY <3>1, <3>2, <3>3, <4>1, StaysShut
    <3>4. ASSUME q \in gated' \ verified'
          PROVE  Shut(q)'
      <4>1. On(q) /\ refresh[q] = None
        BY <3>2, <3>4 DEF SInv, Opened
      <4>2. \A g \in Handlers : g # h => req'[g].s # q
        BY <1>0, <3>2
      <4>3. req'[h] = r /\ pc'[h] = "session" /\ "session" \notin Guarded
        BY <1>0, <3>2 DEF Guarded
      <4>4. \A g \in Handlers :
              req'[g].s = q => /\ pc'[g] \notin Guarded
                               /\ pc'[g] = "session" => req'[g].on
        BY <3>1, <4>1, <4>2, <4>3
      <4>5. claims'[q] \subseteq {Bare} /\ refresh'[q] \in {None, Bare}
        BY <3>2, <4>1
      <4> QED
        BY <4>4, <4>5 DEF Shut, Bare, Claim
    <3> QED
      BY <3>2, <3>3, <3>4 DEF SInv, Opened
  <2>5. CASE StartRefresh(h, q)
    <3>1. q \notin gated \ verified
      BY <1>4, <2>5, BareShut DEF StartRefresh, Shut
    <3> QED
      BY <2>1, <2>2, <2>5, <3>1, OwnerType DEF StartRefresh, TInv, Steps
  <2>6. CASE SendM2FAOtp(h, q)
    <3>1. Ask("send", q, FALSE, None, FALSE, 0) \in Requests
      BY <2>1, AskType
    <3> QED
      BY <2>3, <2>6, <3>1 DEF SendM2FAOtp
  <2>7. ASSUME NEW op \in {"enable", "disable", "setup"}, StartSetting(h, op, q)
        PROVE  SInv'
    <3>1. q \notin gated \ verified
      BY <1>4, <2>7, BareShut DEF StartSetting, Shut
    <3> QED
      BY <2>1, <2>2, <2>7, <3>1 DEF StartSetting, Steps
  <2>8. ASSUME NEW c \in Codes, NEW right \in BOOLEAN,
               VerifyM2FAOtp(h, q, c, right)
        PROVE  SInv'
    <3>1. Ask("verify_otp", q, FALSE, c, right, 0) \in Requests
      BY <2>1, AskType
    <3> QED
      BY <2>3, <2>8, <3>1 DEF VerifyM2FAOtp
  <2>9. ASSUME NEW n \in 0 .. drawn, VerifyM2FAAuthenticator(h, q, n)
        PROVE  SInv'
    <3>0. n \in Nat
      BY SecondFactorAssumption DEF TInv, DataOK
    <3>1. Ask("verify_totp", q, FALSE, None, FALSE, n) \in Requests
      BY <2>1, <3>0, AskType
    <3> QED
      BY <2>3, <2>9, <3>1 DEF VerifyM2FAAuthenticator
  <2> QED
    BY <2>0, <2>4, <2>5, <2>6, <2>7, <2>8, <2>9
\* Who is at a guarded step is not for a session that is shut.
<1>6. ASSUME NEW h \in Handlers, pc[h] \in Guarded
      PROVE  req[h].s \notin gated \ verified
  BY <1>4, <1>6 DEF Shut
<1>7. ASSUME NEW h \in Handlers, pc[h] # "idle"
      PROVE  req[h].s \in Clients
  BY <1>7 DEF TInv, ReqOK, Fitting
\* A step that ends a request, and one that goes on with it.
<1>8. ASSUME NEW h \in Handlers, Finish(h),
             UNCHANGED <<claims, refresh, gated, verified>>
      PROVE  SInv'
  BY <1>0, <1>8, NoneOpened, NoRequestType DEF Finish, Goto, Guarded, Steps
<1>9. ASSUME NEW h \in Handlers, NEW at \in Steps, Goto(h, at),
             UNCHANGED req, at # "session",
             pc[h] \in Guarded \/ at \notin Guarded,
             UNCHANGED <<claims, refresh, gated, verified>>
      PROVE  SInv'
  <2>1. req' = [req EXCEPT ![h] = req[h]]
    BY <1>0, <1>9
  <2>2. \A s \in gated \ verified :
          req[h].s = s => at \notin Guarded /\ at # "session"
    BY <1>6, <1>9
  <2>3. pc' = [pc EXCEPT ![h] = at] /\ verified \subseteq verified'
    BY <1>9 DEF Goto
  <2> DEFINE r == req[h]
  <2> HIDE DEF r
  <2>4. /\ req' = [req EXCEPT ![h] = r]
        /\ r \in Requests
        /\ \A s \in gated \ verified :
             r.s = s => at \notin Guarded /\ at # "session"
    BY <1>0, <2>1, <2>2 DEF r
  <2> QED
    BY <1>9, <2>3, <2>4, NoneOpened
<1>10. ASSUME NEW h \in Handlers, NEW at \in Steps, NEW n \in Nat,
              Goto(h, at), req' = [req EXCEPT ![h].got = n],
              at # "session", pc[h] \in Guarded \/ at \notin Guarded,
              UNCHANGED <<claims, refresh, gated, verified>>
       PROVE  SInv'
  <2> DEFINE r == [req[h] EXCEPT !.got = n]
  <2>1. req' = [req EXCEPT ![h] = r]
    BY <1>10
  <2>2. req[h] \in Requests
    BY <1>0
  <2>3. r \in Requests /\ r.s = req[h].s
    BY ONLY <2>2, n \in Nat, GotType
  <2> HIDE DEF r
  <2>4. \A s \in gated \ verified :
          r.s = s => at \notin Guarded /\ at # "session"
    BY <1>6, <1>10, <2>3
  <2>5. pc' = [pc EXCEPT ![h] = at] /\ verified \subseteq verified'
    BY <1>10 DEF Goto
  <2> QED
    BY <1>10, <2>1, <2>3, <2>4, <2>5, NoneOpened
<1>11. ASSUME NEW h \in Handlers, CreateSession(h)
       PROVE  SInv'
  <2> DEFINE c == LoginClaim(req[h].on)
             q == req[h].s
  <2>1. /\ pc[h] = "session" /\ Finish(h)
        /\ claims' = [claims EXCEPT ![q] = @ \cup {c}]
        /\ refresh' = [refresh EXCEPT ![q] = c]
        /\ UNCHANGED <<gated, verified>>
    BY <1>11 DEF CreateSession, Give
  <2>2. q \in Clients
    BY <1>7, <2>1
  <2>3. ASSUME q \in gated' \ verified'
        PROVE  c = Bare
    <3>1. req[h].on
      BY <1>4, <2>1, <2>3 DEF Shut
    <3>2. req[h].on = TRUE
      BY <1>0, <3>1, FieldTypes
    <3> QED
      BY <3>2 DEF LoginClaim, Bare
  <2> HIDE DEF c, q
  <2> QED
    BY <1>3, <2>1, <2>2, <2>3
<1>12. ASSUME NEW h \in Handlers, SignRefreshed(h)
       PROVE  SInv'
  <2> DEFINE c == Claim(TRUE, req[h].on)
             q == req[h].s
  <2>1. /\ pc[h] = "sign" /\ Finish(h)
        /\ claims' = [claims EXCEPT ![q] = @ \cup {c}]
        /\ refresh' = [refresh EXCEPT ![q] = c]
        /\ UNCHANGED <<gated, verified>>
    BY <1>12 DEF SignRefreshed, Give
  <2>2. q \in Clients /\ q \notin gated \ verified
    BY <1>6, <1>7, <2>1 DEF Guarded
  <2> HIDE DEF c, q
  <2> QED
    BY <1>3, <2>1, <2>2
<1>13. ASSUME NEW h \in Handlers, FindSetting(h)
       PROVE  SInv'
  <2>1. pc[h] = "find" /\ UNCHANGED <<claims, refresh, gated, verified>>
    BY <1>13 DEF FindSetting
  <2>2. \/ Finish(h)
        \/ Goto(h, "update") /\ UNCHANGED req
        \/ Goto(h, "lock") /\ UNCHANGED req
    BY <1>13 DEF FindSetting
  <2> QED
    BY <1>8, <1>9, <2>1, <2>2 DEF Guarded, Steps
<1>14. ASSUME NEW h \in Handlers, Switch(h)
       PROVE  SInv'
  <2> DEFINE c == Claim(TRUE, req[h].op = "enable")
             q == req[h].s
  <2>1. /\ pc[h] = "update" /\ Finish(h)
        /\ claims' = [claims EXCEPT ![q] = @ \cup {c}]
        /\ UNCHANGED <<refresh, gated, verified>>
    BY <1>14 DEF Switch, Give
  <2>2. q \in Clients /\ q \notin gated \ verified
    BY <1>6, <1>7, <2>1 DEF Guarded
  <2> HIDE DEF c, q
  <2> QED
    BY <1>3, <2>1, <2>2
<1>15. ASSUME NEW h \in Handlers, LockSecret(h)
       PROVE  SInv'
  <2>1. PICK r \in Requests :
          /\ r.s = req[h].s
          /\ req' = [req EXCEPT ![h] = r] /\ pc' = [pc EXCEPT ![h] = "save"]
    BY <1>15, Locked
  <2>2. pc[h] = "lock" /\ UNCHANGED <<claims, refresh, gated, verified>>
    BY <1>15 DEF LockSecret
  <2>3. \A s \in gated \ verified : r.s # s
    BY <1>6, <2>1, <2>2 DEF Guarded
  <2> QED
    BY <2>1, <2>2, <2>3, NoneOpened DEF Steps
<1>16. ASSUME NEW h \in Handlers, NEW c \in Codes,
              SaveSecret(h) \/ StoreCode(h, c) \/ DropCode(h) \/ PutBack(h)
                \/ Fail(h)
       PROVE  SInv'
  BY <1>8, <1>16 DEF SaveSecret, StoreCode, DropCode, PutBack, Fail
<1>17. ASSUME NEW h \in Handlers, GetCode(h)
       PROVE  SInv'
  <2>1. pc[h] = "get" /\ UNCHANGED <<claims, refresh, gated, verified>>
    BY <1>17 DEF GetCode
  <2>2. CASE Finish(h)
    BY <1>8, <2>1, <2>2
  <2>3. ASSUME attempts[req[h].c] # None, NEW at \in {"drop", "take", "put"},
               Goto(h, at), req' = [req EXCEPT ![h].got = attempts[req[h].c]]
        PROVE  SInv'
    <3>1. attempts[req[h].c] \in Nat
      BY <2>1, <2>3 DEF TInv, ReqOK, DataOK, Fitting
    <3>2. at # "session" /\ at \in Steps \ Guarded
      BY DEF Guarded, Steps
    <3> QED
      BY <1>10, <2>1, <2>3, <3>1, <3>2
  <2> QED
    BY <1>17, <2>2, <2>3 DEF GetCode
<1>18. ASSUME NEW h \in Handlers, TakeCode(h)
       PROVE  SInv'
  <2> DEFINE c == Claim(TRUE, TRUE)
             q == req[h].s
  <2>1. /\ pc[h] = "take" /\ Finish(h)
        /\ claims' = [claims EXCEPT ![q] = @ \cup {c}]
        /\ verified' = verified \cup {q} /\ UNCHANGED <<refresh, gated>>
    BY <1>18 DEF TakeCode, Give
  <2>2. q \in Clients
    BY <1>7, <2>1
  <2> HIDE DEF c, q
  <2> QED
    BY <1>3, <2>1, <2>2
<1>19. ASSUME NEW h \in Handlers, CheckSecret(h)
       PROVE  SInv'
  <2> DEFINE c == Claim(TRUE, TRUE)
             q == req[h].s
  <2>1. /\ pc[h] = "secret" /\ Finish(h) /\ UNCHANGED <<refresh, gated>>
        /\ \/ /\ claims' = [claims EXCEPT ![q] = @ \cup {c}]
              /\ verified' = verified \cup {q}
           \/ UNCHANGED <<claims, verified>>
    BY <1>19 DEF CheckSecret, Give
  <2>2. q \in Clients
    BY <1>7, <2>1
  <2> HIDE DEF c, q
  <2> QED
    BY <1>3, <1>8, <2>1, <2>2
<1>20. ASSUME NEW c \in Codes, Expire(c) \/ Age(c)
       PROVE  SInv'
  BY <1>1, <1>20 DEF Expire, Age
<1>21. CASE UNCHANGED vars
  BY <1>1, <1>21
<1>22. ASSUME NEW h \in Handlers, Run(h)
       PROVE  SInv'
  <2>1. CASE Fail(h)
    BY <1>8, <2>1 DEF Fail
  <2>2. CASE SaveSecret(h) \/ DropCode(h) \/ PutBack(h)
    BY <1>8, <2>2 DEF SaveSecret, DropCode, PutBack
  <2> QED
    BY <1>11, <1>12, <1>13, <1>14, <1>15, <1>16, <1>17, <1>18, <1>19, <1>22,
       <2>1, <2>2 DEF Run
<1> QED
  BY <1>2, <1>5, <1>20, <1>21, <1>22 DEF Next

\* The HTTP routes and the refresh ask for the factor: a session whose login
\* found it on holds no token that they take until a right code was presented
\* for it, of the account's authenticator or of any e-mail that was sent.
THEOREM RoutesAskForCode == Spec => []CodeBeforeRoutes
<1>1. TInv /\ SInv => CodeBeforeRoutes
  BY BareShut DEF TInv, DataOK, SInv, Shut,
                    CodeBeforeRoutes
<1> QED
  BY <1>1, TypesInit, TypesStep, ShutInit, ShutStep, PTL DEF Spec

-------------------------------------------------------------------------------
(***************************************************************************)
(* The guesses at a code.                                                  *)
(***************************************************************************)

\* One request at most is about c, after c was sent.
Lone(c) ==
  /\ \A g, h \in Handlers : req[g].c = c /\ req[h].c = c => g = h
  /\ \A h \in Handlers : req[h].c = c => c \in sent

\* What the key in Redis says is how many guesses were wrong; so does what a
\* request holds that is to write the key, or to take the code.
KeyCounts(c) == attempts[c] # None => attempts[c] = wrong[c] /\ admitted[c] = 0

InHand(c) ==
  \A h \in Handlers :
    req[h].c = c /\ pc[h] \in {"put", "take"} =>
      req[h].got = wrong[c] /\ wrong[c] < MaxGuesses /\ admitted[c] = 0

Few(c) ==
  /\ c \notin sent => wrong[c] = 0 /\ admitted[c] = 0
  /\ admitted[c] <= 1 /\ wrong[c] <= MaxGuesses
  /\ admitted[c] + wrong[c] <= MaxGuesses

Counted(c) == Lone(c) /\ KeyCounts(c) /\ InHand(c) /\ Few(c)

CInv == \A c \in Codes \ raced : Counted(c)

LEMMA CountedInit == Init => CInv
<1> SUFFICES ASSUME Init, NEW c \in Codes PROVE Counted(c)
  BY DEF CInv
<1>1. \A h \in Handlers : req[h].c # c
  BY SecondFactorAssumption, NoRequestType DEF Init
<1>2. attempts[c] = None /\ wrong[c] = 0 /\ admitted[c] = 0
  BY DEF Init
<1> QED
  BY <1>1, <1>2 DEF Counted, Lone, KeyCounts, InHand, Few, MaxGuesses

\* A step of h that counts no guess at c, and leaves nothing in hand about it.
LEMMA StaysCounted ==
  ASSUME TInv, NEW c \in Codes, Counted(c), NEW h \in Handlers,
         NEW r \in Requests, NEW at \in Steps,
         req' = [req EXCEPT ![h] = r], pc' = [pc EXCEPT ![h] = at],
         r.c = c => req[h].c = c /\ at \notin {"put", "take"},
         attempts'[c] \in {attempts[c], None},
         wrong'[c] = wrong[c], admitted'[c] = admitted[c], sent \subseteq sent'
  PROVE  Counted(c)'
<1>1. Lone(c)'
  BY DEF TInv, ReqOK, Counted, Lone
<1>2. KeyCounts(c)'
  BY DEF Counted, KeyCounts
<1>3. InHand(c)'
  BY DEF TInv, ReqOK, Counted, InHand
<1>4. Few(c)'
  BY DEF Counted, Few
<1> QED
  BY <1>1, <1>2, <1>3, <1>4 DEF Counted

LEMMA CountedStep == TInv /\ CInv /\ [Next]_vars => CInv'
<1> SUFFICES ASSUME TInv, CInv, [Next]_vars
             PROVE  CInv'
  OBVIOUS
<1>0. /\ pc \in [Handlers -> Steps] /\ req \in [Handlers -> Requests]
      /\ attempts \in [Codes -> Nat \cup {None}]
      /\ wrong \in [Codes -> Nat] /\ admitted \in [Codes -> Nat]
      /\ None \notin Nat /\ None \notin Codes
      /\ NoRequest \in Requests /\ NoRequest.c = None
  BY SecondFactorAssumption, NoRequestType DEF TInv, ReqOK, DataOK
\* A step that counts nothing, and leaves nothing in hand.
<1>1. ASSUME NEW h \in Handlers, NEW r \in Requests, NEW at \in Steps,
             req' = [req EXCEPT ![h] = r], pc' = [pc EXCEPT ![h] = at],
             \A c \in Codes :
               r.c = c => req[h].c = c /\ at \notin {"put", "take"},
             \A c \in Codes : attempts'[c] \in {attempts[c], None},
             wrong' = wrong, admitted' = admitted, sent \subseteq sent',
             raced \subseteq raced'
      PROVE  CInv'
  <2> SUFFICES ASSUME NEW c \in Codes \ raced' PROVE Counted(c)'
    BY DEF CInv
  <2>1. c \in Codes /\ Counted(c)
    BY <1>1 DEF CInv
  <2> QED
    BY <1>1, <2>1, StaysCounted
<1>2. ASSUME NEW h \in Handlers, Finish(h),
             \A c \in Codes : attempts'[c] \in {attempts[c], None},
             UNCHANGED <<wrong, admitted, sent, raced>>
      PROVE  CInv'
  <2>1. "idle" \in Steps
    BY DEF Steps
  <2> QED
    BY <1>0, <1>1, <1>2, <2>1 DEF Finish, Goto
\* A new request that is about no code.
<1>3. ASSUME NEW h \in Handlers, NEW op \in Ops, NEW s \in Clients,
             NEW on \in BOOLEAN, NEW n \in Nat, NEW first \in Steps,
             Begin(h, Ask(op, s, on, None, FALSE, n), first),
             UNCHANGED <<attempts, wrong, admitted, sent, raced>>
      PROVE  CInv'
  <2> DEFINE r == Ask(op, s, on, None, FALSE, n)
  <2>1. r \in Requests /\ r.c = None
    BY DEF Ask, Requests
  <2>2. req' = [req EXCEPT ![h] = r] /\ pc' = [pc EXCEPT ![h] = first]
    BY <1>3 DEF Begin
  <2> HIDE DEF r
  <2>3. /\ \A c \in Codes : r.c # c
        /\ \A c \in Codes : attempts'[c] \in {attempts[c], None}
        /\ wrong' = wrong /\ admitted' = admitted /\ sent' = sent
        /\ raced' = raced
    BY <1>0, <1>3, <2>1
  <2> QED
    BY <1>1, <2>1, <2>2, <2>3
<1>4. ASSUME NEW h \in Handlers, NEW s \in Clients, NEW c \in Codes,
             NEW right \in BOOLEAN, VerifyM2FAOtp(h, s, c, right)
      PROVE  CInv'
  <2> DEFINE r == Ask("verify_otp", s, FALSE, c, right, 0)
  <2>1. r \in Requests /\ r.c = c
    BY DEF Ask, Requests, Ops
  <2>2. /\ req' = [req EXCEPT ![h] = r] /\ pc' = [pc EXCEPT ![h] = "get"]
        /\ raced' = IF \E g \in Handlers : req[g].c = c
                      THEN raced \cup {c} ELSE raced
        /\ c \in sent /\ UNCHANGED <<attempts, wrong, admitted, sent>>
    BY <1>4 DEF VerifyM2FAOtp, Begin
  <2> HIDE DEF r
  <2> SUFFICES ASSUME NEW d \in Codes \ raced' PROVE Counted(d)'
    BY DEF CInv
  <2>3. d \in Codes /\ Counted(d)
    BY <2>2 DEF CInv
  <2>4. CASE d # c
    <3>1. "get" \in Steps
      BY DEF Steps
    <3> QED
      BY <1>4, <2>1, <2>2, <2>3, <2>4, <3>1, StaysCounted
  <2>5. CASE d = c
    <3>1. \A g \in Handlers : req[g].c # c
      BY <2>2, <2>5
    <3>2. Lone(c)' /\ InHand(c)'
      BY <1>0, <2>1, <2>2, <3>1 DEF Lone, InHand
    <3> QED
      BY <2>2, <2>3, <2>5, <3>2 DEF Counted, KeyCounts, Few
  <2> QED
    BY <2>4, <2>5
<1>5. ASSUME NEW h \in Handlers, Request(h)
      PROVE  CInv'
  <2>0. PICK s \in Clients :
          \/ StartLogin(h, s) \/ StartRefresh(h, s) \/ SendM2FAOtp(h, s)
          \/ \E op \in {"enable", "disable", "setup"} : StartSetting(h, op, s)
          \/ \E c \in Codes, right \in BOOLEAN : VerifyM2FAOtp(h, s, c, right)
          \/ \E n \in 0 .. drawn : VerifyM2FAAuthenticator(h, s, n)
    BY <1>5 DEF Request, EnableM2FA, DisableM2FA, SetAuthenticationMethod
  <2>1. /\ {"login", "refresh", "send", "enable", "disable", "setup",
            "verify_totp"} \subseteq Ops
        /\ {"session", "sign", "find", "store", "secret"} \subseteq Steps
    BY DEF Ops, Steps
  <2>2. On(s) \in BOOLEAN /\ \A n \in 0 .. drawn : n \in Nat
    BY SecondFactorAssumption, OwnerType DEF TInv, DataOK
  <2>3. CASE StartLogin(h, s)
    BY <1>3, <2>1, <2>2, <2>3 DEF StartLogin
  <2>4. CASE StartRefresh(h, s)
    BY <1>3, <2>1, <2>2, <2>4 DEF StartRefresh
  <2>5. CASE SendM2FAOtp(h, s)
    BY <1>3, <2>1, <2>5 DEF SendM2FAOtp
  <2>6. ASSUME NEW op \in {"enable", "disable", "setup"}, StartSetting(h, op, s)
        PROVE  CInv'
    BY <1>3, <2>1, <2>6 DEF StartSetting
  <2>7. ASSUME NEW n \in 0 .. drawn, VerifyM2FAAuthenticator(h, s, n)
        PROVE  CInv'
    BY <1>3, <2>1, <2>2, <2>7 DEF VerifyM2FAAuthenticator
  <2> QED
    BY <1>4, <2>0, <2>3, <2>4, <2>5, <2>6, <2>7
\* A step of h that goes on with its request, and leaves nothing in hand.
<1>6. ASSUME NEW h \in Handlers, NEW at \in Steps, Goto(h, at),
             at \notin {"put", "take"},
             UNCHANGED <<req, attempts, wrong, admitted, sent, raced>>
      PROVE  CInv'
  <2> DEFINE r == req[h]
  <2>1. r \in Requests /\ r.c = req[h].c
    BY <1>0
  <2>2. req' = [req EXCEPT ![h] = r] /\ pc' = [pc EXCEPT ![h] = at]
    BY <1>0, <1>6 DEF Goto
  <2> HIDE DEF r
  <2> QED
    BY <1>1, <1>6, <2>1, <2>2
<1>7. ASSUME NEW h \in Handlers, LockSecret(h)
      PROVE  CInv'
  <2>1. PICK r \in Requests :
          /\ r.c = req[h].c
          /\ req' = [req EXCEPT ![h] = r] /\ pc' = [pc EXCEPT ![h] = "save"]
    BY <1>7, Locked
  <2>2. UNCHANGED <<attempts, wrong, admitted, sent, raced>>
    BY <1>7 DEF LockSecret
  <2>3. "save" \in Steps \ {"put", "take"}
    BY DEF Steps
  <2> QED
    BY <1>1, <2>1, <2>2, <2>3
<1>8. ASSUME NEW h \in Handlers, FindSetting(h) \/ LockSecret(h)
      PROVE  CInv'
  <2>1. {"update", "lock"} \subseteq Steps
    BY DEF Steps
  <2>2. CASE FindSetting(h)
    BY <1>2, <1>6, <2>1, <2>2 DEF FindSetting
  <2> QED
    BY <1>7, <1>8, <2>2
<1>9. ASSUME NEW h \in Handlers,
             \/ CreateSession(h) \/ SignRefreshed(h) \/ Switch(h)
             \/ SaveSecret(h) \/ DropCode(h) \/ CheckSecret(h) \/ Fail(h)
      PROVE  CInv'
  <2>1. /\ Finish(h) /\ UNCHANGED <<wrong, admitted, sent, raced>>
        /\ \/ UNCHANGED attempts
           \/ attempts' = [attempts EXCEPT ![req[h].c] = None]
    BY <1>9 DEF CreateSession, SignRefreshed, Switch, SaveSecret, DropCode,
                CheckSecret, Fail
  <2> QED
    BY <1>0, <1>2, <2>1
\* A code is sent: nobody has it in hand.
<1>10. ASSUME NEW h \in Handlers, NEW c \in Codes, StoreCode(h, c)
       PROVE  CInv'
  <2>1. /\ c \notin sent /\ sent' = sent \cup {c}
        /\ attempts' = [attempts EXCEPT ![c] = 0]
        /\ req' = [req EXCEPT ![h] = NoRequest]
        /\ pc' = [pc EXCEPT ![h] = "idle"]
        /\ UNCHANGED <<wrong, admitted, raced>>
    BY <1>10 DEF StoreCode, Finish, Goto
  <2>2. "idle" \in Steps
    BY DEF Steps
  <2> SUFFICES ASSUME NEW d \in Codes \ raced' PROVE Counted(d)'
    BY DEF CInv
  <2>3. d \in Codes /\ Counted(d)
    BY <2>1 DEF CInv
  <2>4. Lone(d)' /\ InHand(d)'
    BY <1>0, <2>1, <2>3 DEF Counted, Lone, InHand
  <2>5. KeyCounts(d)' /\ Few(d)'
    BY <1>0, <2>1, <2>3 DEF Counted, KeyCounts, Few
  <2> QED
    BY <2>4, <2>5 DEF Counted
\* What h holds about c is not against the count.
<1>11. ASSUME NEW h \in Handlers, GetCode(h)
       PROVE  CInv'
  <2>1. /\ pc[h] = "get" /\ req[h].c \in Codes
        /\ UNCHANGED <<attempts, wrong, admitted, sent, raced>>
    BY <1>11 DEF GetCode, TInv, ReqOK, Fitting
  <2>2. CASE Finish(h)
    BY <1>2, <2>1, <2>2
  <2>3. ASSUME attempts[req[h].c] # None, NEW at \in {"drop", "put", "take"},
               at # "drop" => ~ TooMany(attempts[req[h].c]),
               Goto(h, at), req' = [req EXCEPT ![h].got = attempts[req[h].c]]
        PROVE  CInv'
    <3> DEFINE n == attempts[req[h].c]
               r == [req[h] EXCEPT !.got = n]
    <3>1. n \in Nat /\ req[h] \in Requests /\ at \in Steps
      BY <1>0, <2>1, <2>3 DEF Steps
    <3>2. r \in Requests /\ r.c = req[h].c /\ r.got = n
      BY ONLY <3>1, GotType
    <3>3. req' = [req EXCEPT ![h] = r] /\ pc' = [pc EXCEPT ![h] = at]
      BY <2>3 DEF Goto
    <3>4. n # None /\ n = attempts[req[h].c] /\ (at # "drop" => n < MaxGuesses)
      BY <2>3, <3>1 DEF TooMany, MaxGuesses
    <3> HIDE DEF r, n
    <3> SUFFICES ASSUME NEW d \in Codes \ raced' PROVE Counted(d)'
      BY DEF CInv
    <3>5. d \in Codes /\ Counted(d)
      BY <2>1 DEF CInv
    <3>6. Lone(d)' /\ KeyCounts(d)' /\ Few(d)'
      BY <1>0, <2>1, <3>2, <3>3, <3>5 DEF Counted, Lone, KeyCounts, Few
    <3>7. InHand(d)'
      BY <1>0, <2>1, <3>2, <3>3, <3>4, <3>5 DEF Counted, InHand, KeyCounts
    <3> QED
      BY <3>6, <3>7 DEF Counted
  <2> QED
    BY <1>11, <2>2, <2>3 DEF GetCode
\* A guess is counted, and nobody else has the code in hand.
<1>12. ASSUME NEW h \in Handlers, PutBack(h) \/ TakeCode(h)
       PROVE  CInv'
  <2> DEFINE c == req[h].c
  <2>1. /\ c \in Codes /\ pc[h] \in {"put", "take"}
        /\ req' = [req EXCEPT ![h] = NoRequest]
        /\ pc' = [pc EXCEPT ![h] = "idle"]
        /\ UNCHANGED <<sent, raced>>
    BY <1>12 DEF PutBack, TakeCode, Finish, Goto, TInv, ReqOK, Fitting
  <2>2. \/ /\ attempts' = [attempts EXCEPT ![c] = req[h].got + 1]
           /\ wrong' = [wrong EXCEPT ![c] = @ + 1] /\ admitted' = admitted
        \/ /\ attempts' = [attempts EXCEPT ![c] = None]
           /\ admitted' = [admitted EXCEPT ![c] = @ + 1] /\ wrong' = wrong
    BY <1>12 DEF PutBack, TakeCode
  <2> SUFFICES ASSUME NEW d \in Codes \ raced' PROVE Counted(d)'
    BY DEF CInv
  <2>3. d \in Codes /\ Counted(d)
    BY <2>1 DEF CInv
  <2>4. CASE d # c
    <3>1. /\ attempts'[d] = attempts[d] /\ wrong'[d] = wrong[d]
          /\ admitted'[d] = admitted[d] /\ "idle" \in Steps
      BY <1>0, <2>2, <2>3, <2>4 DEF Steps
    <3> HIDE DEF c
    <3> QED
      BY <1>0, <2>1, <2>3, <3>1, StaysCounted
  <2>5. CASE d = c
    <3>1. \A g \in Handlers : g # h => req[g].c # c
      BY <2>3, <2>5 DEF Counted, Lone
    <3>2. \A g \in Handlers : req'[g].c # c
      BY <1>0, <2>1, <3>1
    <3>3. req[h].got = wrong[c] /\ wrong[c] < MaxGuesses /\ admitted[c] = 0
      BY <2>1, <2>3, <2>5 DEF Counted, InHand
    <3>4. c \in sent
      BY <2>3, <2>5 DEF Counted, Lone
    <3>5. Lone(d)' /\ InHand(d)'
      BY <2>5, <3>2 DEF Lone, InHand
    <3>6. wrong[d] \in Nat /\ attempts[d] \in Nat \cup {None}
      BY <1>0, <2>3
    <3>7. \/ /\ attempts'[d] = wrong[d] + 1 /\ wrong'[d] = wrong[d] + 1
             /\ admitted'[d] = 0
          \/ attempts'[d] = None /\ wrong'[d] = wrong[d] /\ admitted'[d] = 1
      BY <1>0, <2>1, <2>2, <2>5, <3>3
    <3>8. d \in sent' /\ wrong[d] < MaxGuesses
      BY <2>1, <2>5, <3>3, <3>4
    <3>9. KeyCounts(d)' /\ Few(d)'
      BY <3>6, <3>7, <3>8 DEF KeyCounts, Few, MaxGuesses
    <3> QED
      BY <3>5, <3>9 DEF Counted
  <2> QED
    BY <2>4, <2>5
<1>13. ASSUME NEW c \in Codes, Expire(c) \/ Age(c)
       PROVE  CInv'
  <2>1. /\ UNCHANGED <<pc, req, wrong, admitted, sent, raced>>
        /\ \A d \in Codes : attempts'[d] \in {attempts[d], None}
    BY <1>0, <1>13 DEF Expire, Age
  <2> QED
    BY <2>1 DEF CInv, Counted, Lone, KeyCounts, InHand, Few
<1>16. ASSUME NEW s \in Clients, Register(s)
       PROVE  CInv'
  BY <1>16 DEF Register, CInv, Counted, Lone, KeyCounts, InHand, Few
<1>14. CASE UNCHANGED vars
  BY <1>14 DEF CInv, Counted, Lone, KeyCounts, InHand, Few
<1>15. ASSUME NEW h \in Handlers, Run(h)
       PROVE  CInv'
  BY <1>8, <1>9, <1>10, <1>11, <1>12, <1>15 DEF Run
<1> QED
  BY <1>5, <1>13, <1>14, <1>15, <1>16 DEF Next

\* A code that no two requests verified at a time answers four guesses at
\* most, and none passes after the fourth wrong one.
THEOREM FourGuesses == Spec => []GuessLimit
<1>1. TInv /\ CInv => GuessLimit
  <2> SUFFICES ASSUME TInv, CInv, NEW c \in Codes \ raced
               PROVE  wrong[c] + admitted[c] <= MaxGuesses
    BY DEF GuessLimit
  <2>1. wrong[c] \in Nat /\ admitted[c] \in Nat
    BY DEF TInv, DataOK
  <2>2. admitted[c] + wrong[c] <= MaxGuesses
    BY DEF CInv, Counted, Few
  <2> QED
    BY <2>1, <2>2 DEF MaxGuesses
<1> QED
  BY <1>1, TypesInit, TypesStep, CountedInit, CountedStep, PTL DEF Spec

\* Such a code lets one session pass once.
THEOREM PassesOnce == Spec => []OncePerCode
<1>1. CInv => OncePerCode
  BY DEF CInv, Counted, Few, OncePerCode
<1> QED
  BY <1>1, TypesInit, TypesStep, CountedInit, CountedStep, PTL DEF Spec
===============================================================================

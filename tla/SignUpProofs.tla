----------------------------- MODULE SignUpProofs -----------------------------
(***************************************************************************)
(* Theorems about SignUp, for any number of users, subjects, link tokens,  *)
(* requests in flight and connections.                                     *)
(*                                                                         *)
(* LinkedOnce.  A token is in Redis for one user at most (Single), and one *)
(* handler at most presents it if it is not spared (Lone).  A handler that *)
(* is past the comparison is the only one, and its account is not linked   *)
(* yet; one that linked it is about to delete the token (Used).            *)
(*                                                                         *)
(* NeverEmpty.  A handler holds one connection at most: with more of them  *)
(* than handlers and lost connections, one is always left to the           *)
(* statements that the holders wait for.                                   *)
(***************************************************************************)
EXTENDS SignUp, FiniteSetTheorems, TLAPS

\* The steps of a callback.
OfCallback == {"account", "get", "match", "user", "link", "reread", "del",
               "linked", "login"}

\* What a handler at step p is about, by its request r.
Fitting(p, r) ==
  /\ p = "idle" <=> r = NoRequest
  /\ p = "idle" <=> r.op = "none"
  /\ p # "idle" => r.e \in Emails
  /\ p \in OfCallback => r.op = "callback"
  /\ p = "connect" => r.op \in {"register", "create", "oauth", "callback"}
  /\ r.op = "callback" \/ p = "remove" => r.s \in Subjects
  /\ p \in {"get", "reread", "del"} => r.t \in Tokens

ReqOK ==
  /\ pc \in [Handlers -> Steps]
  /\ req \in [Handlers -> Requests]
  /\ \A h \in Handlers : Fitting(pc[h], req[h])
  /\ held = {h \in Handlers : pc[h] \in Holding}

PoolOK == IsFiniteSet(held) /\ leaked \in 0 .. MaxLeaks /\ Free >= 0

DataOK ==
  /\ users \subseteq Emails
  /\ accounts \subseteq Emails \X Subjects
  /\ link \in [Emails -> drawn \cup {None}] /\ drawn \subseteq Tokens
  /\ made \in 0 .. MaxRequests
  /\ links \in [Tokens -> Nat] /\ spared \subseteq Tokens
  /\ cut \subseteq Handlers

TInv == ReqOK /\ PoolOK /\ DataOK

USE DEF vars, rows, redis, pool, history

-------------------------------------------------------------------------------
(***************************************************************************)
(* Requests, as records.                                                   *)
(***************************************************************************)
LEMMA NoRequestType ==
  NoRequest \in Requests /\ NoRequest.op = "none" /\ NoRequest.t = None
  BY DEF NoRequest, Requests

LEMMA FieldTypes ==
  ASSUME NEW r \in Requests
  PROVE  /\ r.op \in Ops \cup {"none"} /\ r.e \in Emails \cup {None}
         /\ r.s \in Subjects \cup {None} /\ r.t \in Tokens \cup {None}
  BY DEF Requests

LEMMA AsksType ==
  ASSUME NEW op \in Ops, NEW e \in Emails
  PROVE  LET r == Asks(op, e) IN
         /\ r \in Requests /\ r.op = op /\ r.e = e /\ r.s = None /\ r.t = None
  BY DEF Asks, NoRequest, Requests

LEMMA CallbackType ==
  ASSUME NEW e \in Emails, NEW s \in Subjects, NEW t \in Tokens \cup {None}
  PROVE  LET r == [op |-> "callback", e |-> e, s |-> s, t |-> t] IN
         /\ r \in Requests
         /\ r.op = "callback" /\ r.e = e /\ r.s = s /\ r.t = t
  BY DEF Requests, Ops

LEMMA UserType ==
  ASSUME NEW r \in Requests, NEW e \in Emails
  PROVE  LET q == [r EXCEPT !.e = e] IN
         /\ q \in Requests
         /\ q.op = r.op /\ q.e = e /\ q.s = r.s /\ q.t = r.t
  BY DEF Requests

LEMMA SubjectType ==
  ASSUME NEW r \in Requests, NEW s \in Subjects
  PROVE  LET q == [r EXCEPT !.s = s] IN
         /\ q \in Requests
         /\ q.op = r.op /\ q.e = r.e /\ q.s = s /\ q.t = r.t
  BY DEF Requests

LEMMA TokenType ==
  ASSUME NEW r \in Requests
  PROVE  LET q == [r EXCEPT !.t = None] IN
         /\ q \in Requests
         /\ q.op = r.op /\ q.e = r.e /\ q.s = r.s /\ q.t = None
  BY DEF Requests

LEMMA OpType ==
  ASSUME NEW r \in Requests
  PROVE  LET q == [r EXCEPT !.op = "oauth"] IN
         /\ q \in Requests
         /\ q.op = "oauth" /\ q.e = r.e /\ q.s = r.s /\ q.t = r.t
  BY DEF Requests, Ops

-------------------------------------------------------------------------------
(***************************************************************************)
(* The pool.                                                               *)
(***************************************************************************)
LEMMA Released ==
  ASSUME PoolOK, NEW h, held' = held \ {h}, leaked' = leaked
  PROVE  PoolOK'
<1>1. /\ IsFiniteSet(held')
      /\ Cardinality(held') \in {Cardinality(held), Cardinality(held) - 1}
  BY FS_RemoveElement DEF PoolOK
<1>2. Cardinality(held) \in Nat /\ PoolSize \in Nat /\ MaxLeaks \in Nat
  BY FS_CardinalityType, SignUpAssumption DEF PoolOK
<1> QED
  BY <1>1, <1>2 DEF PoolOK, Free

LEMMA Taken ==
  ASSUME PoolOK, NEW h, held' = held \cup {h}, Free > 0, leaked' = leaked
  PROVE  PoolOK'
<1>1. /\ IsFiniteSet(held')
      /\ Cardinality(held') \in {Cardinality(held), Cardinality(held) + 1}
  BY FS_AddElement DEF PoolOK
<1>2. Cardinality(held) \in Nat /\ PoolSize \in Nat /\ MaxLeaks \in Nat
  BY FS_CardinalityType, SignUpAssumption DEF PoolOK
<1> QED
  BY <1>1, <1>2 DEF PoolOK, Free

LEMMA Lost ==
  ASSUME PoolOK, NEW h \in held, held' = held \ {h}, leaked' = leaked + 1,
         leaked < MaxLeaks
  PROVE  PoolOK'
<1>1. /\ IsFiniteSet(held') /\ Cardinality(held') = Cardinality(held) - 1
  BY FS_RemoveElement DEF PoolOK
<1>2. Cardinality(held) \in Nat /\ PoolSize \in Nat /\ MaxLeaks \in Nat
  BY FS_CardinalityType, SignUpAssumption DEF PoolOK
<1> QED
  BY <1>1, <1>2 DEF PoolOK, Free

-------------------------------------------------------------------------------
(***************************************************************************)
(* Types.                                                                  *)
(***************************************************************************)
\* A step of h that keeps its hold on the pool, or its lack of one.
LEMMA Moved ==
  ASSUME ReqOK, PoolOK, NEW h \in Handlers, NEW r \in Requests,
         NEW at \in Steps, Fitting(at, r),
         req' = [req EXCEPT ![h] = r], pc' = [pc EXCEPT ![h] = at],
         UNCHANGED pool, pc[h] \in Holding <=> at \in Holding
  PROVE  ReqOK' /\ PoolOK'
<1>1. PoolOK'
  BY DEF PoolOK, Free
<1>2. \A g \in Handlers : Fitting(pc'[g], req'[g])
  BY DEF ReqOK
<1>3. held' = {g \in Handlers : pc'[g] \in Holding}
  BY DEF ReqOK
<1> QED
  BY <1>1, <1>2, <1>3 DEF ReqOK

LEMMA Went ==
  ASSUME ReqOK, PoolOK, NEW h \in Handlers, NEW at \in Steps,
         Fitting(at, req[h]), UNCHANGED req, Goto(h, at),
         UNCHANGED pool, pc[h] \in Holding <=> at \in Holding
  PROVE  ReqOK' /\ PoolOK'
<1>1. req' = [req EXCEPT ![h] = req[h]] /\ req[h] \in Requests
  BY DEF ReqOK
<1> QED
  BY <1>1, Moved DEF Goto

\* What it is to be at rest.
LEMMA AtRest ==
  /\ Fitting("idle", NoRequest) /\ "idle" \in Steps /\ "idle" \notin Holding
  /\ NoRequest \in Requests
  BY NoRequestType, SignUpAssumption
  DEF Fitting, Steps, Holding, OfCallback, NoRequest

LEMMA Rested ==
  ASSUME ReqOK, NEW h \in Handlers, Rest(h), held' = held \ {h}
  PROVE  ReqOK'
<1>1. req' = [req EXCEPT ![h] = NoRequest] /\ pc' = [pc EXCEPT ![h] = "idle"]
  BY DEF Rest, Goto
<1>2. \A g \in Handlers : Fitting(pc'[g], req'[g])
  BY <1>1, AtRest DEF ReqOK
<1>3. held' = {g \in Handlers : pc'[g] \in Holding}
  BY <1>1, AtRest DEF ReqOK
<1> QED
  BY <1>1, <1>2, <1>3, AtRest DEF ReqOK

LEMMA Finished ==
  ASSUME ReqOK, PoolOK, NEW h \in Handlers, Finish(h)
  PROVE  ReqOK' /\ PoolOK' /\ cut' = cut \ {h}
  BY Rested, Released DEF Finish, Rest

LEMMA Leaking ==
  ASSUME ReqOK, PoolOK, NEW h \in Handlers, Leak(h), pc[h] = "roles"
  PROVE  ReqOK' /\ PoolOK' /\ cut' = cut \ {h}
<1>1. h \in held
  BY DEF ReqOK, Holding
<1> QED
  BY <1>1, Rested, Lost DEF Leak, Rest

LEMMA TypesInit == Init => TInv
<1> SUFFICES ASSUME Init PROVE TInv
  OBVIOUS
<1>1. ReqOK
  BY AtRest DEF Init, ReqOK
<1>2. PoolOK
  BY FS_EmptySet, SignUpAssumption DEF Init, PoolOK, Free
<1>3. DataOK
  BY SignUpAssumption DEF Init, DataOK
<1> QED
  BY <1>1, <1>2, <1>3 DEF TInv

LEMMA TypesStep == TInv /\ [Next]_vars => TInv'
<1> SUFFICES ASSUME TInv, [Next]_vars
             PROVE  TInv'
  OBVIOUS
<1>0. ReqOK /\ PoolOK /\ DataOK
  BY DEF TInv
<1> USE <1>0 DEF TInv
<1>1. ASSUME NEW e \in Emails, ExpireToken(e)
      PROVE  TInv'
  BY <1>1 DEF ExpireToken, ReqOK, PoolOK, Free, DataOK
<1>2. ASSUME NEW a \in Emails \X Subjects, DeleteAccount(a)
      PROVE  TInv'
  BY <1>2 DEF DeleteAccount, Using, ReqOK, PoolOK, Free, DataOK
<1>3. ASSUME NEW h \in Handlers, NEW e \in Emails, NEW op \in Ops,
             NEW first \in {"connect", "look"}, op # "callback",
             op \in {"register", "create"} \/ first = "look",
             Begin(h, Asks(op, e), first), UNCHANGED spared
      PROVE  TInv'
  <2> DEFINE r == Asks(op, e)
  <2>1. r \in Requests /\ r.op = op /\ r.e = e
    BY AsksType
  <2>2. r # NoRequest
    BY <2>1, NoRequestType DEF Ops
  <2>3. /\ pc[h] \notin Holding /\ first \notin Holding
        /\ first \in Steps
    BY <1>3 DEF Begin, Holding, Steps
  <2> HIDE DEF r
  <2>4. Fitting(first, r)
    BY <1>3, <2>1, <2>2 DEF Fitting, OfCallback, Ops
  <2>5. ReqOK' /\ PoolOK'
    BY <1>3, <2>1, <2>3, <2>4, Moved DEF Begin, Goto, r
  <2>6. DataOK'
    BY <1>3, SignUpAssumption DEF Begin, DataOK
  <2> QED
    BY <2>5, <2>6
<1>4. ASSUME NEW h \in Handlers, NEW s \in Subjects, NEW e \in Emails,
             NEW t \in Tokens \cup {None}, Callback(h, s, e, t)
      PROVE  TInv'
  <2> DEFINE r == [op |-> "callback", e |-> e, s |-> s, t |-> t]
  <2>1. /\ r \in Requests
        /\ r.op = "callback" /\ r.e = e /\ r.s = s /\ r.t = t
    BY CallbackType
  <2>2. /\ pc[h] \notin Holding /\ "account" \notin Holding
        /\ "account" \in Steps
        /\ req' = [req EXCEPT ![h] = r] /\ pc' = [pc EXCEPT ![h] = "account"]
        /\ UNCHANGED pool
    BY <1>4 DEF Callback, Valid, State, Begin, Goto, Holding, Steps
  <2> HIDE DEF r
  <2>3. Fitting("account", r)
    BY <2>1, NoRequestType DEF Fitting, OfCallback
  <2>4. ReqOK' /\ PoolOK'
    BY <2>1, <2>2, <2>3, Moved
  <2>5. DataOK'
    BY <1>4, SignUpAssumption DEF Callback, Valid, State, Begin, DataOK
  <2> QED
    BY <2>4, <2>5
<1> USE DEF Pooled
<1>5. ASSUME NEW h \in Handlers, ConnectRunner(h)
      PROVE  TInv'
  <2>1. PICK at \in {"exists", "roles", "insert", "link"} :
          /\ pc' = [pc EXCEPT ![h] = at]
          /\ at = "link" => req[h].op = "callback"
    BY <1>5 DEF ConnectRunner, Goto, ReqOK, Fitting
  <2>2. /\ pc[h] = "connect" /\ Free > 0 /\ held' = held \cup {h}
        /\ UNCHANGED <<rows, redis, leaked, req, made, history>>
    BY <1>5 DEF ConnectRunner
  <2>3. at \in Holding /\ at \in Steps
    BY DEF Holding, Steps
  <2>4. Fitting(at, req[h])
    BY <2>1, <2>2 DEF ReqOK, Fitting, OfCallback
  <2>5. ReqOK'
    BY <2>1, <2>2, <2>3, <2>4 DEF ReqOK
  <2>6. PoolOK'
    BY <2>2, Taken
  <2>7. DataOK'
    BY <2>2 DEF DataOK
  <2> QED
    BY <2>5, <2>6, <2>7
<1>6. ASSUME NEW h \in Handlers, FindExisting(h)
      PROVE  TInv'
  <2>1. CASE Finish(h)
    BY <1>6, <2>1, Finished DEF FindExisting, DataOK
  <2>2. CASE Goto(h, "insert") /\ UNCHANGED <<pool, req, cut>>
    <3>1. /\ Fitting("insert", req[h]) /\ "insert" \in Steps
          /\ pc[h] \in Holding /\ "insert" \in Holding
      BY <1>6 DEF FindExisting, Fitting, ReqOK, OfCallback, Steps, Holding
    <3> QED
      BY <1>6, <2>2, <3>1, Went DEF FindExisting, DataOK
  <2> QED
    BY <1>6, <2>1, <2>2 DEF FindExisting
<1>7. ASSUME NEW h \in Handlers, FindRoles(h)
      PROVE  TInv'
  <2>1. CASE Leak(h)
    BY <1>7, <2>1, Leaking DEF FindRoles, DataOK
  <2>2. CASE Goto(h, "insert") /\ UNCHANGED <<pool, req, cut>>
    <3>1. /\ Fitting("insert", req[h]) /\ "insert" \in Steps
          /\ pc[h] \in Holding /\ "insert" \in Holding
      BY <1>7 DEF FindRoles, Fitting, ReqOK, OfCallback, Steps, Holding
    <3> QED
      BY <1>7, <2>2, <3>1, Went DEF FindRoles, DataOK
  <2> QED
    BY <1>7, <2>1, <2>2 DEF FindRoles
<1>8. ASSUME NEW h \in Handlers, InsertUser(h)
      PROVE  TInv'
  <2>1. CASE Finish(h)
    BY <1>8, <2>1, Finished DEF InsertUser, DataOK
  <2>2. ASSUME NEW at \in {"commit", "role"}, Goto(h, at),
               UNCHANGED <<pool, req, cut>>
        PROVE  TInv'
    <3>1. /\ Fitting(at, req[h]) /\ at \in Steps
          /\ pc[h] \in Holding /\ at \in Holding
      BY <1>8 DEF InsertUser, Fitting, ReqOK, OfCallback, Steps, Holding
    <3> QED
      BY <1>8, <2>2, <3>1, Went DEF InsertUser, DataOK
  <2> QED
    BY <1>8, <2>1, <2>2 DEF InsertUser
<1>9. ASSUME NEW h \in Handlers, FindRole(h)
      PROVE  TInv'
  <2>1. CASE Finish(h)
    BY <1>9, <2>1, Finished DEF FindRole, DataOK
  <2>2. CASE Goto(h, "commit") /\ UNCHANGED <<pool, req, cut>>
    <3>1. /\ Fitting("commit", req[h]) /\ "commit" \in Steps
          /\ pc[h] \in Holding /\ "commit" \in Holding
      BY <1>9 DEF FindRole, Fitting, ReqOK, OfCallback, Steps, Holding
    <3> QED
      BY <1>9, <2>2, <3>1, Went DEF FindRole, DataOK
  <2> QED
    BY <1>9, <2>1, <2>2 DEF FindRole
<1>10. ASSUME NEW h \in Handlers, CommitUser(h)
       PROVE  TInv'
  <2>1. req[h].e \in Emails
    BY <1>10 DEF CommitUser, ReqOK, Fitting
  <2> QED
    BY <1>10, <2>1, Finished DEF CommitUser, DataOK
<1>11. ASSUME NEW h \in Handlers, FindAccount(h)
       PROVE  TInv'
  <2>0. pc[h] = "account" /\ pc[h] \notin Holding /\ req[h] \in Requests
    BY <1>11 DEF FindAccount, Holding, ReqOK
  <2>1. CASE Finish(h)
    BY <1>11, <2>1, Finished DEF FindAccount, DataOK
  <2>2. ASSUME NEW at \in {"get", "match"}, Goto(h, at),
               UNCHANGED <<pool, req, cut>>, at = "get" => req[h].t # None
        PROVE  TInv'
    <3>1. /\ Fitting(at, req[h]) /\ at \in Steps /\ at \notin Holding
      BY <2>0, <2>2, FieldTypes DEF Fitting, ReqOK, OfCallback, Steps, Holding
    <3> QED
      BY <1>11, <2>0, <2>2, <3>1, Went DEF FindAccount, DataOK
  <2>3. ASSUME NEW e \in Emails, req' = [req EXCEPT ![h].e = e],
               Goto(h, "login"), UNCHANGED <<pool, cut>>
        PROVE  TInv'
    <3> DEFINE r == [req[h] EXCEPT !.e = e]
    <3>1. req' = [req EXCEPT ![h] = r]
      BY <2>3
    <3>2. /\ r \in Requests
          /\ r.op = req[h].op /\ r.e = e /\ r.s = req[h].s
      BY ONLY <2>0, e \in Emails, UserType
    <3> HIDE DEF r
    <3>3. Fitting("login", r) /\ "login" \in Steps /\ "login" \notin Holding
      BY <2>0, <3>2, NoRequestType
      DEF Fitting, ReqOK, OfCallback, Steps, Holding
    <3>4. ReqOK' /\ PoolOK'
      BY <2>0, <2>3, <3>1, <3>2, <3>3, Moved DEF Goto
    <3> QED
      BY <1>11, <2>3, <3>4 DEF FindAccount, DataOK
  <2> QED
    BY <1>11, <2>1, <2>2, <2>3 DEF FindAccount, OwnersOf
<1>12. ASSUME NEW h \in Handlers, GetToken(h)
       PROVE  TInv'
  <2>1. CASE Finish(h)
    BY <1>12, <2>1, Finished DEF GetToken, DataOK
  <2>2. CASE Goto(h, "user") /\ UNCHANGED <<pool, req, cut>>
    <3>1. /\ Fitting("user", req[h]) /\ "user" \in Steps
          /\ pc[h] \notin Holding /\ "user" \notin Holding
      BY <1>12 DEF GetToken, Fitting, ReqOK, OfCallback, Steps, Holding
    <3> QED
      BY <1>12, <2>2, <3>1, Went DEF GetToken, DataOK
  <2> QED
    BY <1>12, <2>1, <2>2 DEF GetToken
<1>13. ASSUME NEW h \in Handlers, MatchUser(h)
       PROVE  TInv'
  <2>0. pc[h] = "match" /\ pc[h] \notin Holding /\ req[h] \in Requests
    BY <1>13 DEF MatchUser, Holding, ReqOK
  <2>1. CASE Goto(h, "user") /\ UNCHANGED req
    <3>1. Fitting("user", req[h]) /\ "user" \in Steps /\ "user" \notin Holding
      BY <2>0 DEF Fitting, ReqOK, OfCallback, Steps, Holding
    <3> QED
      BY <1>13, <2>0, <2>1, <3>1, Went DEF MatchUser, DataOK
  <2>2. CASE req' = [req EXCEPT ![h].op = "oauth"] /\ Goto(h, "connect")
    <3> DEFINE r == [req[h] EXCEPT !.op = "oauth"]
    <3>1. req' = [req EXCEPT ![h] = r]
      BY <2>2
    <3>2. /\ r \in Requests
          /\ r.op = "oauth" /\ r.e = req[h].e /\ r.s = req[h].s
      BY ONLY <2>0, OpType
    <3> HIDE DEF r
    <3>3. /\ Fitting("connect", r)
          /\ "connect" \in Steps /\ "connect" \notin Holding
      BY <2>0, <3>2, NoRequestType
      DEF Fitting, ReqOK, OfCallback, Steps, Holding
    <3>4. ReqOK' /\ PoolOK'
      BY <1>13, <2>0, <2>2, <3>1, <3>2, <3>3, Moved DEF MatchUser, Goto
    <3> QED
      BY <1>13, <3>4 DEF MatchUser, DataOK
  <2> QED
    BY <1>13, <2>1, <2>2 DEF MatchUser
<1>14. ASSUME NEW h \in Handlers, FindLinked(h)
       PROVE  TInv'
  <2>1. /\ Fitting("connect", req[h]) /\ "connect" \in Steps
        /\ pc[h] \notin Holding /\ "connect" \notin Holding
    BY <1>14 DEF FindLinked, Fitting, ReqOK, OfCallback, Steps, Holding
  <2> QED
    BY <1>14, <2>1, Went DEF FindLinked, DataOK
<1>15. ASSUME NEW h \in Handlers, LinkAccount(h)
       PROVE  TInv'
  <2>1. CASE Conflict(req[h].e, req[h].s)
    BY <1>15, <2>1, Finished DEF LinkAccount, DataOK
  <2>2. CASE ~ Conflict(req[h].e, req[h].s)
    <3>1. PICK at \in {"reread", "login"} :
            /\ pc' = [pc EXCEPT ![h] = at]
            /\ at = "reread" => req[h].t # None
      BY <1>15, <2>2 DEF LinkAccount, Goto
    <3>2. /\ pc[h] = "link" /\ held' = held \ {h}
          /\ accounts' = accounts \cup {<<req[h].e, req[h].s>>}
          /\ UNCHANGED <<leaked, req, cut, users, redis, made, spared>>
      BY <1>15, <2>2 DEF LinkAccount
    <3>3. req[h] \in Requests /\ req[h].e \in Emails /\ req[h].s \in Subjects
      BY <3>2 DEF ReqOK, Fitting, OfCallback
    <3>4. at \in Steps /\ at \notin Holding
      BY DEF Steps, Holding
    <3>5. Fitting(at, req[h])
      BY <3>1, <3>2, <3>3, FieldTypes DEF ReqOK, Fitting, OfCallback
    <3>6. ReqOK'
      BY <3>1, <3>2, <3>4, <3>5 DEF ReqOK
    <3>7. PoolOK'
      BY <3>2, Released
    <3>8. links' \in [Tokens -> Nat]
      <4>1. \/ links' = links
            \/ /\ req[h].t # None
               /\ links' = [links EXCEPT ![req[h].t] = @ + 1]
        BY <1>15, <2>2 DEF LinkAccount
      <4> QED
        BY <3>3, <4>1, FieldTypes DEF DataOK
    <3>9. DataOK'
      BY <3>2, <3>3, <3>8 DEF DataOK
    <3> QED
      BY <3>6, <3>7, <3>9
  <2> QED
    BY <2>1, <2>2
<1>16. ASSUME NEW h \in Handlers, ReadUser(h)
       PROVE  TInv'
  <2>1. /\ Fitting("del", req[h]) /\ "del" \in Steps
        /\ pc[h] \notin Holding /\ "del" \notin Holding
    BY <1>16 DEF ReadUser, Fitting, ReqOK, OfCallback, Steps, Holding
  <2> QED
    BY <1>16, <2>1, Went DEF ReadUser, DataOK
<1>17. ASSUME NEW h \in Handlers, DropToken(h)
       PROVE  TInv'
  <2> DEFINE r == [req[h] EXCEPT !.t = None]
  <2>0. pc[h] = "del" /\ pc[h] \notin Holding /\ req[h] \in Requests
    BY <1>17 DEF DropToken, Holding, ReqOK
  <2>1. req' = [req EXCEPT ![h] = r]
    BY <1>17 DEF DropToken
  <2>2. /\ r \in Requests
        /\ r.op = req[h].op /\ r.e = req[h].e /\ r.s = req[h].s
    BY ONLY <2>0, TokenType
  <2> HIDE DEF r
  <2>3. Fitting("linked", r) /\ "linked" \in Steps /\ "linked" \notin Holding
    BY <2>0, <2>2, NoRequestType
    DEF Fitting, ReqOK, OfCallback, Steps, Holding
  <2>4. ReqOK' /\ PoolOK'
    BY <1>17, <2>0, <2>1, <2>2, <2>3, Moved DEF DropToken, Goto
  <2> QED
    BY <1>17, <2>4 DEF DropToken, DataOK
<1>18. ASSUME NEW h \in Handlers, AnswerLinked(h) \/ Login(h)
       PROVE  TInv'
  BY <1>18, Finished DEF AnswerLinked, Login, DataOK
<1>19. ASSUME NEW h \in Handlers, Look(h)
       PROVE  TInv'
  <2>0. pc[h] = "look" /\ pc[h] \notin Holding /\ req[h] \in Requests
    BY <1>19 DEF Look, Holding, ReqOK
  <2>1. CASE Finish(h)
    BY <1>19, <2>1, Finished DEF Look, DataOK
  <2>2. CASE Goto(h, "set") /\ UNCHANGED <<pool, req, cut>>
    <3>1. Fitting("set", req[h]) /\ "set" \in Steps /\ "set" \notin Holding
      BY <2>0 DEF Fitting, ReqOK, OfCallback, Steps, Holding
    <3> QED
      BY <1>19, <2>0, <2>2, <3>1, Went DEF Look, DataOK
  <2>3. ASSUME NEW s \in Subjects, req' = [req EXCEPT ![h].s = s],
               Goto(h, "remove"), UNCHANGED <<pool, cut>>
        PROVE  TInv'
    <3> DEFINE r == [req[h] EXCEPT !.s = s]
    <3>1. req' = [req EXCEPT ![h] = r]
      BY <2>3
    <3>2. /\ r \in Requests
          /\ r.op = req[h].op /\ r.e = req[h].e /\ r.s = s
      BY ONLY <2>0, s \in Subjects, SubjectType
    <3> HIDE DEF r
    <3>3. /\ Fitting("remove", r)
          /\ "remove" \in Steps /\ "remove" \notin Holding
      BY <2>0, <3>2, NoRequestType
      DEF Fitting, ReqOK, OfCallback, Steps, Holding
    <3>4. ReqOK' /\ PoolOK'
      BY <2>0, <2>3, <3>1, <3>2, <3>3, Moved DEF Goto
    <3> QED
      BY <1>19, <2>3, <3>4 DEF Look, DataOK
  <2> QED
    BY <1>19, <2>1, <2>2, <2>3 DEF Look
<1>20. ASSUME NEW h \in Handlers, SetToken(h)
       PROVE  TInv'
  <2>1. PICK t \in Tokens \ drawn :
          /\ link'  = [link EXCEPT ![req[h].e] = t]
          /\ drawn' = drawn \cup {t}
    BY <1>20 DEF SetToken
  <2> QED
    BY <1>20, <2>1, Finished DEF SetToken, DataOK
<1>21. ASSUME NEW h \in Handlers, RemoveAccount(h)
       PROVE  TInv'
  <2>1. /\ req' = [req EXCEPT ![h] = NoRequest] /\ Goto(h, "idle")
        /\ pc[h] \notin Holding /\ UNCHANGED <<users, redis, pool, made, links,
                                               spared>>
    BY <1>21 DEF RemoveAccount, Holding
  <2>2. ReqOK' /\ PoolOK'
    BY <2>1, AtRest, Moved DEF Goto
  <2>3. cut' \subseteq Handlers /\ accounts' \subseteq accounts
    BY <1>21 DEF RemoveAccount, DataOK, Using
  <2> QED
    BY <2>1, <2>2, <2>3 DEF DataOK
<1>22. ASSUME NEW h \in Handlers, Fail(h)
       PROVE  TInv'
  <2>1. ReqOK' /\ PoolOK' /\ cut' = cut \ {h}
    BY <1>22, Finished, Leaking DEF Fail
  <2>2. spared' \subseteq Tokens
    BY <1>22 DEF Fail, ReqOK, Fitting, DataOK
  <2> QED
    BY <1>22, <2>1, <2>2 DEF Fail, DataOK
<1>23. CASE UNCHANGED vars
  BY <1>23 DEF ReqOK, PoolOK, Free, DataOK
<1>24. ASSUME NEW h \in Handlers, Request(h)
       PROVE  TInv'
  <2> HIDE DEF TInv
  <2>1. {"register", "create", "ask", "unlink"} \subseteq Ops
    BY DEF Ops
  <2> QED
    BY <1>3, <1>4, <1>24, <2>1
    DEF Request, Register, CreateUser, AskLink, Unlink
<1>25. ASSUME NEW h \in Handlers, Run(h)
       PROVE  TInv'
  BY <1>5, <1>6, <1>7, <1>8, <1>9, <1>10, <1>11, <1>12, <1>13, <1>14, <1>15,
     <1>16, <1>17, <1>18, <1>19, <1>20, <1>21, <1>25 DEF Run
<1> QED
  BY <1>1, <1>2, <1>22, <1>23, <1>24, <1>25 DEF Next

\* Every variable has its type; connections are held where the code holds
\* them, and never more than the pool has.
THEOREM TypeCorrect == Spec => []TypeOK
<1>1. TInv => TypeOK
  BY DEF TInv, ReqOK, PoolOK, DataOK, TypeOK, Fitting
<1> QED
  BY <1>1, TypesInit, TypesStep, PTL DEF Spec

-------------------------------------------------------------------------------
\* With more connections than requests in flight and connections lost, a
\* statement never finds the pool empty: nobody who holds a connection waits
\* for another one.
THEOREM NeverEmpty ==
  ASSUME IsFiniteSet(Handlers), PoolSize > Cardinality(Handlers) + MaxLeaks
  PROVE  Spec => [](Free > 0)
<1>1. TInv => Free > 0
  <2> SUFFICES ASSUME TInv
               PROVE  Free > 0
    OBVIOUS
  <2>1. held \subseteq Handlers /\ IsFiniteSet(held) /\ leaked \in 0 .. MaxLeaks
    BY DEF TInv, ReqOK, PoolOK
  <2>2. Cardinality(held) <= Cardinality(Handlers)
    BY <2>1, FS_Subset
  <2>3. Cardinality(held) \in Nat /\ Cardinality(Handlers) \in Nat
    BY <2>1, FS_CardinalityType
  <2> QED
    BY <2>1, <2>2, <2>3, SignUpAssumption DEF Free
<1> QED
  BY <1>1, TypesInit, TypesStep, PTL DEF Spec

-------------------------------------------------------------------------------
\* A handler's step leaves the other handlers as they are.
LEMMA Frame ==
  ASSUME TInv, NEW h \in Handlers, Request(h) \/ Run(h) \/ Fail(h),
         NEW g \in Handlers, g # h
  PROVE  pc'[g] = pc[g] /\ req'[g] = req[g]
<1> USE DEF Goto, Rest, Finish, Leak
<1>0. pc \in [Handlers -> Steps] /\ req \in [Handlers -> Requests]
  BY DEF TInv, ReqOK
<1>1. CASE Request(h)
  BY <1>0, <1>1 DEF Request, Register, CreateUser, AskLink, Unlink, Callback,
                    Begin
<1>2. CASE \/ ConnectRunner(h) \/ FindExisting(h) \/ FindRoles(h)
           \/ InsertUser(h) \/ FindRole(h) \/ CommitUser(h)
  BY <1>0, <1>2 DEF ConnectRunner, FindExisting, FindRoles, InsertUser,
                    FindRole, CommitUser
<1>3. CASE FindAccount(h)
  BY <1>0, <1>3 DEF FindAccount
<1>4. CASE GetToken(h) \/ FindLinked(h) \/ LinkAccount(h) \/ ReadUser(h)
  BY <1>0, <1>4 DEF GetToken, FindLinked, LinkAccount, ReadUser
<1>5. CASE \/ MatchUser(h) \/ DropToken(h) \/ AnswerLinked(h) \/ Login(h)
           \/ SetToken(h)
  BY <1>0, <1>5 DEF MatchUser, DropToken, AnswerLinked, Login, SetToken
<1>6. CASE Look(h)
  BY <1>0, <1>6 DEF Look
<1>7. CASE RemoveAccount(h) \/ Fail(h)
  BY <1>0, <1>7 DEF RemoveAccount, Fail
<1> QED
  BY <1>1, <1>2, <1>3, <1>4, <1>5, <1>6, <1>7 DEF Run

-------------------------------------------------------------------------------
(***************************************************************************)
(* Who is signed in through a provider.                                    *)
(***************************************************************************)
LEMMA LinkedInit == Init => SignedInLinked
  BY DEF Init, SignedInLinked

\* Accounts are only added, and "cut" only loses who comes to rest, but by the
\* steps that take an account away.
LEMMA Adds ==
  ASSUME TInv, NEW h \in Handlers, Request(h) \/ Run(h) \/ Fail(h),
         ~ RemoveAccount(h)
  PROVE  /\ accounts \subseteq accounts' /\ cut' \in {cut, cut \ {h}}
         /\ pc'[h] = "login" =>
              \/ FindAccount(h) /\ req[h].t = None
              \/ LinkAccount(h) /\ ~ Conflict(req[h].e, req[h].s)
<1> USE DEF Goto, Rest, Finish, Leak
<1>0. pc \in [Handlers -> Steps]
  BY DEF TInv, ReqOK
<1>1. CASE Request(h)
  BY <1>0, <1>1 DEF Request, Register, CreateUser, AskLink, Unlink, Callback,
                    Begin
<1>2. CASE \/ ConnectRunner(h) \/ FindExisting(h) \/ FindRoles(h)
           \/ InsertUser(h) \/ FindRole(h) \/ CommitUser(h)
  BY <1>0, <1>2 DEF ConnectRunner, FindExisting, FindRoles, InsertUser,
                    FindRole, CommitUser
<1>3. CASE FindAccount(h)
  <2>1. accounts \subseteq accounts' /\ cut' \in {cut, cut \ {h}}
    BY <1>3 DEF FindAccount
  <2>2. CASE req[h].t = None
    BY <1>3, <2>1, <2>2
  <2>3. CASE req[h].t # None
    BY <1>0, <1>3, <2>1, <2>3 DEF FindAccount
  <2> QED
    BY <2>2, <2>3
<1>4. CASE GetToken(h) \/ FindLinked(h) \/ LinkAccount(h) \/ ReadUser(h)
  BY <1>0, <1>4 DEF GetToken, FindLinked, LinkAccount, ReadUser
<1>5. CASE \/ MatchUser(h) \/ DropToken(h) \/ AnswerLinked(h) \/ Login(h)
           \/ SetToken(h)
  BY <1>0, <1>5 DEF MatchUser, DropToken, AnswerLinked, Login, SetToken
<1>6. CASE Look(h)
  BY <1>0, <1>6 DEF Look
<1>7. CASE Fail(h)
  BY <1>0, <1>7 DEF Fail
<1> QED
  BY <1>1, <1>2, <1>3, <1>4, <1>5, <1>6, <1>7 DEF Run

LEMMA LinkedStep == TInv /\ SignedInLinked /\ [Next]_vars => SignedInLinked'
<1> SUFFICES ASSUME TInv, SignedInLinked, [Next]_vars,
                    NEW g \in Handlers, g \notin cut', pc'[g] = "login"
             PROVE  <<req'[g].e, req'[g].s>> \in accounts'
  BY DEF SignedInLinked
<1>0. /\ pc \in [Handlers -> Steps] /\ req \in [Handlers -> Requests]
      /\ cut \subseteq Handlers
  BY DEF TInv, ReqOK, DataOK
<1>1. ASSUME NEW h \in Handlers, Request(h) \/ Run(h) \/ Fail(h),
             ~ RemoveAccount(h)
      PROVE  <<req'[g].e, req'[g].s>> \in accounts'
  <2>1. CASE g # h
    BY <1>1, <2>1, Frame, Adds DEF SignedInLinked
  <2>2. CASE g = h /\ FindAccount(h) /\ req[h].t = None
    <3>1. PICK e \in OwnersOf(req[h].s) : req' = [req EXCEPT ![h].e = e]
      BY <1>0, <2>2 DEF FindAccount, Goto
    <3> DEFINE r == [req[h] EXCEPT !.e = e]
    <3>2. req' = [req EXCEPT ![h] = r]
      BY <3>1
    <3>3. e \in Emails /\ req[h] \in Requests
      BY <1>0 DEF OwnersOf
    <3>4. r.e = e /\ r.s = req[h].s
      BY ONLY <3>3, UserType
    <3> HIDE DEF r
    <3>5. <<e, req[h].s>> \in accounts /\ accounts' = accounts
      BY <2>2 DEF OwnersOf, FindAccount
    <3> QED
      BY <1>0, <2>2, <3>2, <3>4, <3>5
  <2>3. CASE g = h /\ LinkAccount(h) /\ ~ Conflict(req[h].e, req[h].s)
    BY <2>3 DEF LinkAccount
  <2> QED
    BY <1>1, <2>1, <2>2, <2>3, Adds
<1>2. ASSUME NEW h \in Handlers, RemoveAccount(h)
      PROVE  <<req'[g].e, req'[g].s>> \in accounts'
  <2>1. g # h
    BY <1>0, <1>2 DEF RemoveAccount, Goto
  <2>2. pc[g] = "login" /\ req'[g] = req[g]
    BY <1>2, <2>1, Frame DEF Run
  <2> QED
    BY <1>2, <2>1, <2>2 DEF RemoveAccount, Using, SignedInLinked
<1>3. ASSUME NEW a \in Emails \X Subjects, DeleteAccount(a)
      PROVE  <<req'[g].e, req'[g].s>> \in accounts'
  <2>1. pc[g] = "login" /\ req'[g] = req[g] /\ g \notin cut
    BY <1>3 DEF DeleteAccount
  <2>2. <<req[g].e, req[g].s>> # a
    BY <1>3, <2>1 DEF DeleteAccount, Using
  <2> QED
    BY <1>3, <2>1, <2>2 DEF DeleteAccount, SignedInLinked
<1>4. ASSUME NEW e \in Emails, ExpireToken(e)
      PROVE  <<req'[g].e, req'[g].s>> \in accounts'
  BY <1>4 DEF ExpireToken, SignedInLinked
<1>5. CASE UNCHANGED vars
  BY <1>5 DEF SignedInLinked
<1> QED
  BY <1>1, <1>2, <1>3, <1>4, <1>5 DEF Next

\* Who is signed in through a provider has the account linked, unless it was
\* unlinked since he was found by it.
THEOREM LoginIsLinked == Spec => []SignedInLinked
  BY TypesInit, TypesStep, LinkedInit, LinkedStep, PTL DEF Spec

-------------------------------------------------------------------------------
(***************************************************************************)
(* What a link token links.                                                *)
(***************************************************************************)
\* The steps from the comparison with the key to the deletion of it, and
\* those of them before the account is linked.
Past == {"user", "connect", "link", "reread", "del"}
Open == {"user", "connect", "link"}

\* Redis has a token for one user only.
Single ==
  \A e, f \in Emails : link[e] = link[f] /\ link[e] # None => e = f

\* One handler presents t.
Lone(t) ==
  \A g, h \in Handlers : req[g].t = t /\ req[h].t = t => g = h

\* Who presents t and is past the comparison works for the user that has t;
\* nothing is linked by it yet, unless he did that.
Used(t) ==
  \A h \in Handlers :
    req[h].t = t =>
      /\ t \in drawn
      /\ pc[h] \in Open => links[t] = 0
      /\ pc[h] \in Past => \A e \in Emails : link[e] = t => e = req[h].e

\* After it linked an account, t is of no use: it is gone, or about to go.
Spent(t) ==
  links[t] > 0 =>
    /\ links[t] = 1 /\ t \in drawn
    /\ \A e \in Emails :
         link[e] = t => \E h \in Handlers :
                          req[h].t = t /\ pc[h] \in {"reread", "del"}

Once(t) == Lone(t) /\ Used(t) /\ Spent(t)

OInv ==
  /\ Single
  /\ \A h \in Handlers : pc[h] = "match" => req[h].t = None
  /\ \A t \in Tokens \ spared : Once(t)

\* g does nothing new about t: he goes on, or is about another token.
Calm(g, t) ==
  /\ req'[g].t = t => /\ req[g].t = t /\ req'[g].e = req[g].e
                      /\ pc'[g] \in Open => pc[g] \in Open
                      /\ pc'[g] \in Past => pc[g] \in Past
  /\ req[g].t = t /\ pc[g] \in {"reread", "del"} =>
       req'[g].t = t /\ pc'[g] \in {"reread", "del"}

LEMMA Quiet ==
  ASSUME NEW t \in Tokens, Once(t), \A g \in Handlers : Calm(g, t),
         links'[t] = links[t], drawn \subseteq drawn',
         \A e \in Emails : link'[e] = t => link[e] = t
  PROVE  Once(t)'
<1> USE DEF Once, Calm
<1>1. Lone(t)'
  BY DEF Lone
<1>2. Used(t)'
  BY DEF Used
<1>3. Spent(t)'
  BY DEF Spent
<1> QED
  BY <1>1, <1>2, <1>3

LEMMA OnceInit == Init => OInv
  BY NoRequestType, SignUpAssumption
  DEF Init, OInv, Single, Once, Lone, Used, Spent

\* The steps that neither touch a token nor pass a comparison.
Plain(h) ==
  \/ ConnectRunner(h) \/ FindExisting(h) \/ FindRoles(h) \/ InsertUser(h)
  \/ FindRole(h) \/ CommitUser(h) \/ FindAccount(h) \/ MatchUser(h)
  \/ FindLinked(h) \/ ReadUser(h) \/ AnswerLinked(h) \/ Login(h)
  \/ Look(h) \/ RemoveAccount(h)

\* What such a step does with the token of its request.
Plainly(h) ==
  /\ UNCHANGED <<link, links, drawn, spared>>
  /\ req'[h].t = None \/ (req'[h].t = req[h].t /\ req'[h].e = req[h].e)
  /\ pc'[h] \in Open => pc[h] \in Open \/ req'[h].t = None
  /\ pc'[h] \in Past => pc[h] \in Past \/ req'[h].t = None
  /\ pc[h] \in {"reread", "del"} =>
       pc'[h] \in {"reread", "del"} /\ req'[h].t = req[h].t
  /\ pc'[h] = "match" => req'[h].t = None

LEMMA PlainSteps ==
  ASSUME TInv, OInv, NEW h \in Handlers, Plain(h)
  PROVE  Plainly(h)
<1> USE NoRequestType DEF Goto, Rest, Finish, Leak, Plainly, Past, Open, Pooled
<1>0. /\ pc \in [Handlers -> Steps] /\ req \in [Handlers -> Requests]
      /\ req[h] \in Requests
  BY DEF TInv, ReqOK
<1>1. CASE \/ FindExisting(h) \/ FindRoles(h) \/ InsertUser(h)
           \/ FindRole(h) \/ CommitUser(h)
  BY <1>0, <1>1 DEF FindExisting, FindRoles, InsertUser, FindRole, CommitUser
<1>2. CASE ConnectRunner(h)
  BY <1>0, <1>2 DEF ConnectRunner
<1>3. CASE FindAccount(h)
  <2>0. pc[h] = "account" /\ UNCHANGED <<link, links, drawn, spared>>
    BY <1>3 DEF FindAccount
  <2>1. CASE Finish(h)
    BY <1>0, <2>0, <2>1
  <2>2. CASE (Goto(h, "get") \/ (Goto(h, "match") /\ req[h].t = None))
               /\ UNCHANGED req
    BY <1>0, <2>0, <2>2
  <2>3. ASSUME NEW e \in Emails, req' = [req EXCEPT ![h].e = e],
               Goto(h, "login"), req[h].t = None
        PROVE  Plainly(h)
    <3> DEFINE r == [req[h] EXCEPT !.e = e]
    <3>1. req' = [req EXCEPT ![h] = r]
      BY <2>3
    <3>2. r.t = req[h].t
      BY ONLY <1>0, e \in Emails, UserType
    <3> HIDE DEF r
    <3> QED
      BY <1>0, <2>0, <2>3, <3>1, <3>2
  <2> QED
    BY <1>3, <2>1, <2>2, <2>3 DEF FindAccount, OwnersOf
<1>4. CASE MatchUser(h)
  <2>0. /\ pc[h] = "match" /\ req[h].t = None
        /\ UNCHANGED <<link, links, drawn, spared>>
    BY <1>4 DEF MatchUser, OInv
  <2>1. CASE Goto(h, "user") /\ UNCHANGED req
    BY <1>0, <2>0, <2>1
  <2>2. CASE req' = [req EXCEPT ![h].op = "oauth"] /\ Goto(h, "connect")
    <3> DEFINE r == [req[h] EXCEPT !.op = "oauth"]
    <3>1. req' = [req EXCEPT ![h] = r]
      BY <2>2
    <3>2. r.t = req[h].t
      BY ONLY <1>0, OpType
    <3> HIDE DEF r
    <3> QED
      BY <1>0, <2>0, <2>2, <3>1, <3>2
  <2> QED
    BY <1>4, <2>1, <2>2 DEF MatchUser
<1>5. CASE \/ FindLinked(h) \/ ReadUser(h) \/ AnswerLinked(h) \/ Login(h)
           \/ RemoveAccount(h)
  BY <1>0, <1>5 DEF FindLinked, ReadUser, AnswerLinked, Login, RemoveAccount
<1>6. CASE Look(h)
  <2>0. pc[h] = "look" /\ UNCHANGED <<link, links, drawn, spared>>
    BY <1>6 DEF Look
  <2>1. CASE Finish(h)
    BY <1>0, <2>0, <2>1
  <2>2. CASE Goto(h, "set") /\ UNCHANGED req
    BY <1>0, <2>0, <2>2
  <2>3. ASSUME NEW s \in Subjects, req' = [req EXCEPT ![h].s = s],
               Goto(h, "remove")
        PROVE  Plainly(h)
    <3> DEFINE r == [req[h] EXCEPT !.s = s]
    <3>1. req' = [req EXCEPT ![h] = r]
      BY <2>3
    <3>2. r.t = req[h].t /\ r.e = req[h].e
      BY ONLY <1>0, s \in Subjects, SubjectType
    <3> HIDE DEF r
    <3> QED
      BY <1>0, <2>0, <2>3, <3>1, <3>2
  <2> QED
    BY <1>6, <2>1, <2>2, <2>3 DEF Look
<1> QED
  BY <1>1, <1>2, <1>3, <1>4, <1>5, <1>6 DEF Plain

\* A plain step keeps what is said of the tokens, and so does one that is like
\* it for all the tokens that are not spared.
LEMMA PlainInv ==
  ASSUME TInv, OInv, NEW h \in Handlers, Request(h) \/ Run(h) \/ Fail(h),
         Plainly(h)
  PROVE  OInv'
<1>1. \A g \in Handlers : g # h => pc'[g] = pc[g] /\ req'[g] = req[g]
  BY Frame
<1>2. \A g \in Handlers : pc'[g] = "match" => req'[g].t = None
  BY <1>1 DEF OInv, Plainly
<1>3. ASSUME NEW t \in Tokens \ spared
      PROVE  Once(t)'
  <2>1. Once(t) /\ t # None
    BY SignUpAssumption DEF OInv
  <2>2. \A g \in Handlers : Calm(g, t)
    BY <1>1, <2>1 DEF Plainly, Calm
  <2> QED
    BY <2>1, <2>2, Quiet DEF Plainly
<1> QED
  BY <1>2, <1>3 DEF OInv, Plainly, Single

LEMMA OnceStep == TInv /\ OInv /\ [Next]_vars => OInv'
<1> SUFFICES ASSUME TInv, OInv, [Next]_vars
             PROVE  OInv'
  OBVIOUS
<1>0. /\ pc \in [Handlers -> Steps] /\ req \in [Handlers -> Requests]
      /\ link \in [Emails -> drawn \cup {None}] /\ drawn \subseteq Tokens
      /\ links \in [Tokens -> Nat] /\ None \notin Tokens
  BY SignUpAssumption DEF TInv, ReqOK, DataOK
<1>1. ASSUME NEW h \in Handlers, Plain(h)
      PROVE  OInv'
  BY <1>1, PlainSteps, PlainInv DEF Plain, Run
<1>2. ASSUME NEW h \in Handlers, Request(h)
      PROVE  OInv'
  <2>1. ASSUME NEW op \in Ops, NEW e \in Emails,
               NEW first \in {"connect", "look"},
               Begin(h, Asks(op, e), first), UNCHANGED spared
        PROVE  OInv'
    <3>1. Asks(op, e).t = None
      BY AsksType
    <3>2. Plainly(h)
      BY <1>0, <2>1, <3>1 DEF Plainly, Begin, Goto, Open, Past
    <3> QED
      BY <1>2, <3>2, PlainInv
  <2>2. ASSUME NEW s \in Subjects, NEW e \in Emails,
               NEW n \in Tokens \cup {None}, Callback(h, s, e, n)
        PROVE  OInv'
    <3> DEFINE r == [op |-> "callback", e |-> e, s |-> s, t |-> n]
    <3>0. r.t = n
      OBVIOUS
    <3>1. /\ pc[h] = "idle" /\ req[h].t = None
          /\ req' = [req EXCEPT ![h] = r] /\ pc' = [pc EXCEPT ![h] = "account"]
          /\ UNCHANGED <<link, links, drawn>>
          /\ n # None => n \in drawn
          /\ spared' = IF n # None /\ (\E g \in Handlers : req[g].t = n)
                         THEN spared \cup {n} ELSE spared
      BY <2>2, NoRequestType
      DEF Callback, Valid, State, Begin, Goto, TInv, ReqOK, Fitting
    <3> HIDE DEF r
    <3>2. \A g \in Handlers : pc'[g] = "match" => req'[g].t = None
      BY <1>0, <3>1 DEF OInv
    <3>3. ASSUME NEW t \in Tokens \ spared'
          PROVE  Once(t)'
      <4>1. Once(t) /\ t # None
        BY <1>0, <3>1 DEF OInv
      <4>2. CASE n # t
        <5>1. \A g \in Handlers : Calm(g, t)
          BY <1>0, <3>0, <3>1, <4>1, <4>2 DEF Calm
        <5> QED
          BY <3>1, <4>1, <5>1, Quiet
      <4>3. CASE n = t
        <5>1. \A g \in Handlers : req[g].t # t
          BY <3>1, <4>1, <4>3
        <5>2. Lone(t)'
          BY <1>0, <3>1, <5>1 DEF Lone
        <5>3. Used(t)'
          BY <1>0, <3>1, <4>1, <4>3, <5>1 DEF Used, Open, Past
        <5>4. Spent(t)'
          BY <1>0, <3>1, <4>1, <5>1 DEF Once, Spent
        <5> QED
          BY <5>2, <5>3, <5>4 DEF Once
      <4> QED
        BY <4>2, <4>3
    <3> QED
      BY <3>1, <3>2, <3>3 DEF OInv, Single
  <2>3. {"register", "create", "ask", "unlink"} \subseteq Ops
    BY DEF Ops
  <2> HIDE DEF TInv, OInv
  <2> QED
    BY <1>2, <2>1, <2>2, <2>3
    DEF Request, Register, CreateUser, AskLink, Unlink
<1>3. ASSUME NEW h \in Handlers, GetToken(h)
      PROVE  OInv'
  <2>0. /\ pc[h] = "get" /\ req[h].e \in Emails
        /\ UNCHANGED <<link, links, drawn, spared>>
    BY <1>3 DEF GetToken, TInv, ReqOK, Fitting
  <2>1. CASE Finish(h)
    <3>1. Plainly(h)
      BY <1>0, <2>0, <2>1, NoRequestType
      DEF Plainly, Finish, Rest, Goto, Open, Past
    <3> QED
      BY <1>3, <3>1, PlainInv DEF Run
  <2>2. CASE /\ link[req[h].e] = req[h].t
             /\ Goto(h, "user") /\ UNCHANGED req
    <3>1. \A g \in Handlers : pc'[g] = "match" => req'[g].t = None
      BY <1>0, <2>2 DEF OInv, Goto
    <3>2. ASSUME NEW t \in Tokens \ spared
          PROVE  Once(t)'
      <4>1. Once(t)
        BY DEF OInv
      <4>2. CASE req[h].t # t
        <5>1. \A g \in Handlers : Calm(g, t)
          BY <1>0, <2>0, <2>2, <4>2 DEF Calm, Goto
        <5> QED
          BY <2>0, <4>1, <5>1, Quiet
      <4>3. CASE req[h].t = t
        <5>1. links[t] = 0
          BY <1>0, <2>0, <2>2, <4>1, <4>3 DEF Once, Spent, Lone
        <5>2. \A e \in Emails : link[e] = t => e = req[h].e
          BY <1>0, <2>0, <2>2, <4>3 DEF OInv, Single
        <5>3. Lone(t)'
          BY <2>2, <4>1 DEF Once, Lone
        <5>4. Used(t)'
          BY <1>0, <2>0, <2>2, <4>1, <4>3, <5>1, <5>2
          DEF Once, Used, Lone, Goto
        <5>5. Spent(t)'
          BY <2>0, <5>1 DEF Spent
        <5> QED
          BY <5>3, <5>4, <5>5 DEF Once
      <4> QED
        BY <4>2, <4>3
    <3> QED
      BY <2>0, <3>1, <3>2 DEF OInv, Single
  <2> QED
    BY <1>3, <2>1, <2>2 DEF GetToken
<1>4. ASSUME NEW h \in Handlers, LinkAccount(h)
      PROVE  OInv'
  <2>0. pc[h] = "link" /\ UNCHANGED <<link, drawn, spared>>
    BY <1>4 DEF LinkAccount
  <2>1. CASE Conflict(req[h].e, req[h].s)
    <3>1. Plainly(h)
      BY <1>0, <1>4, <2>0, <2>1, NoRequestType
      DEF LinkAccount, Plainly, Finish, Rest, Goto, Open, Past
    <3> QED
      BY <1>4, <3>1, PlainInv DEF Run
  <2>2. CASE ~ Conflict(req[h].e, req[h].s) /\ req[h].t = None
    <3>1. Plainly(h)
      BY <1>0, <1>4, <2>0, <2>2 DEF LinkAccount, Plainly, Goto, Open, Past
    <3> QED
      BY <1>4, <3>1, PlainInv DEF Run
  <2>3. CASE ~ Conflict(req[h].e, req[h].s) /\ req[h].t # None
    <3>0. /\ links' = [links EXCEPT ![req[h].t] = @ + 1]
          /\ pc' = [pc EXCEPT ![h] = "reread"] /\ req' = req
      BY <1>4, <2>3 DEF LinkAccount, Goto
    <3>1. \A g \in Handlers : pc'[g] = "match" => req'[g].t = None
      BY <1>0, <3>0 DEF OInv
    <3>2. ASSUME NEW t \in Tokens \ spared
          PROVE  Once(t)'
      <4>1. Once(t)
        BY DEF OInv
      <4>2. CASE req[h].t # t
        <5>1. \A g \in Handlers : Calm(g, t)
          BY <1>0, <2>0, <3>0, <4>2 DEF Calm
        <5>2. links'[t] = links[t]
          BY <1>0, <3>0, <4>2
        <5> QED
          BY <2>0, <4>1, <5>1, <5>2, Quiet
      <4>3. CASE req[h].t = t
        <5>1. links[t] = 0 /\ t \in drawn
          BY <2>0, <4>1, <4>3 DEF Once, Used, Open
        <5>2. links'[t] = 1
          BY <1>0, <3>0, <4>3, <5>1
        <5>3. Lone(t)'
          BY <3>0, <4>1 DEF Once, Lone
        <5>4. Used(t)'
          BY <1>0, <2>0, <3>0, <4>1, <4>3 DEF Once, Used, Lone, Open, Past
        <5>5. Spent(t)'
          BY <1>0, <2>0, <3>0, <4>3, <5>1, <5>2 DEF Spent
        <5> QED
          BY <5>3, <5>4, <5>5 DEF Once
      <4> QED
        BY <4>2, <4>3
    <3> QED
      BY <2>0, <3>1, <3>2 DEF OInv, Single
  <2> QED
    BY <2>1, <2>2, <2>3
<1>5. ASSUME NEW h \in Handlers, DropToken(h)
      PROVE  OInv'
  <2>0. /\ pc[h] = "del" /\ UNCHANGED <<links, drawn, spared>>
        /\ link' = [link EXCEPT ![req[h].e] = None]
        /\ pc' = [pc EXCEPT ![h] = "linked"]
        /\ \A g \in Handlers : g # h => req'[g] = req[g]
    BY <1>0, <1>5 DEF DropToken, Goto
  <2>1. req'[h].t = None
    <3> DEFINE r == [req[h] EXCEPT !.t = None]
    <3>1. req' = [req EXCEPT ![h] = r] /\ req[h] \in Requests
      BY <1>0, <1>5 DEF DropToken
    <3>2. r.t = None
      BY ONLY <3>1, TokenType
    <3> HIDE DEF r
    <3> QED
      BY <1>0, <3>1, <3>2
  <2>2. \A g \in Handlers : pc'[g] = "match" => req'[g].t = None
    BY <1>0, <2>0 DEF OInv
  <2>3. Single'
    BY <1>0, <2>0 DEF OInv, Single
  <2>4. ASSUME NEW t \in Tokens \ spared
        PROVE  Once(t)'
    <3>1. Once(t) /\ t # None
      BY <1>0 DEF OInv
    <3>2. \A e \in Emails : link'[e] = t => link[e] = t /\ e # req[h].e
      BY <1>0, <2>0, <3>1
    <3>3. CASE req[h].t # t
      <4>1. \A g \in Handlers : Calm(g, t)
        BY <1>0, <2>0, <2>1, <3>1, <3>3 DEF Calm
      <4> QED
        BY <2>0, <3>1, <3>2, <4>1, Quiet
    <3>4. CASE req[h].t = t
      <4>1. \A e \in Emails : link'[e] # t
        BY <2>0, <3>1, <3>2, <3>4 DEF Once, Used, Past
      <4>2. \A g \in Handlers : req'[g].t # t
        BY <2>0, <2>1, <3>1, <3>4 DEF Once, Lone
      <4>3. Spent(t)'
        BY <2>0, <3>1, <4>1 DEF Once, Spent
      <4> QED
        BY <4>2, <4>3 DEF Once, Lone, Used
    <3> QED
      BY <3>3, <3>4
  <2> QED
    BY <2>0, <2>2, <2>3, <2>4 DEF OInv
<1>6. ASSUME NEW h \in Handlers, SetToken(h)
      PROVE  OInv'
  <2>0. PICK n \in Tokens \ drawn :
          /\ link'  = [link EXCEPT ![req[h].e] = n]
          /\ drawn' = drawn \cup {n}
    BY <1>6 DEF SetToken
  <2>1. /\ pc[h] = "set" /\ UNCHANGED <<links, spared>>
        /\ req' = [req EXCEPT ![h] = NoRequest]
        /\ pc' = [pc EXCEPT ![h] = "idle"]
    BY <1>6 DEF SetToken, Finish, Rest, Goto
  <2>2. \A g \in Handlers : pc'[g] = "match" => req'[g].t = None
    BY <1>0, <2>1, NoRequestType DEF OInv
  <2>3. Single'
    BY <1>0, <2>0 DEF OInv, Single
  <2>4. ASSUME NEW t \in Tokens \ spared
        PROVE  Once(t)'
    <3>1. Once(t) /\ t # None
      BY <1>0 DEF OInv
    <3>2. \A g \in Handlers : Calm(g, t)
      BY <1>0, <2>1, <3>1, NoRequestType DEF Calm
    <3>3. CASE t # n
      <4>1. \A e \in Emails : link'[e] = t => link[e] = t
        BY <1>0, <2>0, <3>3
      <4> QED
        BY <2>0, <2>1, <3>1, <3>2, <4>1, Quiet
    <3>4. CASE t = n
      <4>1. \A g \in Handlers : req'[g].t # t
        BY <2>0, <3>1, <3>2, <3>4 DEF Once, Used, Calm
      <4>2. links'[t] = 0
        BY <1>0, <2>0, <2>1, <3>1, <3>4 DEF Once, Spent
      <4> QED
        BY <4>1, <4>2 DEF Once, Lone, Used, Spent
    <3> QED
      BY <3>3, <3>4
  <2> QED
    BY <2>1, <2>2, <2>3, <2>4 DEF OInv
<1>7. ASSUME NEW h \in Handlers, Fail(h)
      PROVE  OInv'
  <2>0. /\ UNCHANGED <<link, links, drawn>>
        /\ req' = [req EXCEPT ![h] = NoRequest]
        /\ pc' = [pc EXCEPT ![h] = "idle"]
        /\ spared' = IF pc[h] \in {"reread", "del"}
                       THEN spared \cup {req[h].t} ELSE spared
    BY <1>7 DEF Fail, Leak, Finish, Rest, Goto
  <2>1. \A g \in Handlers : pc'[g] = "match" => req'[g].t = None
    BY <1>0, <2>0, NoRequestType DEF OInv
  <2>2. ASSUME NEW t \in Tokens \ spared'
        PROVE  Once(t)'
    <3>1. Once(t) /\ t # None
      BY <1>0, <2>0 DEF OInv
    <3>2. \A g \in Handlers : Calm(g, t)
      BY <1>0, <2>0, <3>1, NoRequestType DEF Calm
    <3> QED
      BY <2>0, <3>1, <3>2, Quiet
  <2> QED
    BY <2>0, <2>1, <2>2 DEF OInv, Single
\* Steps of nobody's handler.
<1>8. ASSUME UNCHANGED <<pc, req, links, drawn, spared>>,
             \A e \in Emails : link'[e] \in {link[e], None}
      PROVE  OInv'
  <2>1. ASSUME NEW t \in Tokens \ spared
        PROVE  Once(t)'
    <3>1. \A g \in Handlers : Calm(g, t)
      BY <1>8 DEF Calm
    <3> QED
      BY <1>0, <1>8, <3>1, Quiet DEF OInv
  <2> QED
    BY <1>8, <2>1 DEF OInv, Single
<1>9. ASSUME NEW e \in Emails, ExpireToken(e)
      PROVE  OInv'
  BY <1>0, <1>8, <1>9 DEF ExpireToken
<1>10. ASSUME NEW a \in Emails \X Subjects, DeleteAccount(a)
       PROVE  OInv'
  BY <1>8, <1>10 DEF DeleteAccount
<1>11. CASE UNCHANGED vars
  BY <1>8, <1>11
<1>12. ASSUME NEW h \in Handlers, Run(h)
       PROVE  OInv'
  BY <1>1, <1>3, <1>4, <1>5, <1>6, <1>12 DEF Run, Plain
<1> QED
  BY <1>2, <1>7, <1>9, <1>10, <1>11, <1>12 DEF Next

\* A link token links one account at most, unless two callbacks presented it
\* at a time, or the one that linked ended before it deleted the token.
THEOREM LinksOnce == Spec => []LinkedOnce
<1>1. TInv /\ OInv => LinkedOnce
  BY DEF TInv, DataOK, OInv, Once, Spent, LinkedOnce
<1> QED
  BY <1>1, TypesInit, TypesStep, OnceInit, OnceStep, PTL DEF Spec
===============================================================================

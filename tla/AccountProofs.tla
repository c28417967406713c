----------------------------- MODULE AccountProofs ----------------------------
(***************************************************************************)
(* Theorems about Account, for any number of requests in flight, sockets,  *)
(* passwords, update bodies and for any length of a suspension.            *)
(*                                                                         *)
(* SuspensionServed.  Whoever read the account and was not blinded by a    *)
(* suspension since knows of the present one: a request of the account     *)
(* itself passed a guard that found it not suspended, and that is still    *)
(* so; the handshake of a socket, and the entity of a confirmation, have   *)
(* the status and the end of a suspension that runs (Informed).            *)
(*                                                                         *)
(* PasswordKept.  Only a change of the password has the column among those *)
(* it writes, and its entity has the password it was asked to set          *)
(* (Fitting).                                                              *)
(***************************************************************************)
EXTENDS Account, TLAPS

\* A request, as a record.
IsRequest(r) ==
  /\ r = [op |-> r.op, set |-> r.set, own |-> r.own, next |-> r.next,
          old |-> r.old, user |-> r.user, cols |-> r.cols]
  /\ r.op \in Ops \cup {"lift", "none"} /\ r.next \in Ops \cup {"none"}
  /\ r.own \in BOOLEAN
  /\ IsSet(r.set)
  /\ r.cols \subseteq DOMAIN r.set \cup Loaded

\* A body that says nothing of a suspension.
Spares(set) == DOMAIN set \cap {"status", "ends"} = {}

\* What a handler at step p is about, by its request r.
Fitting(p, r) ==
  /\ p = "idle" <=> r = NoRequest
  /\ p = "idle" <=> r.op = "none"
  /\ p \in {"select", "update"} => IsRow(r.user)
  /\ p = "guard" => r.own /\ r.op \in Ops /\ r.next = "none"
  /\ p = "commit" => r.op \in {"delete", "restore"}
  /\ r.op = "lift" => r.own /\ p \in {"find", "select", "update"}
  /\ r.next # "none" => r.op = "lift"
  /\ r.own \/ r.op \in Decisions \cup {"verify", "none"}
  /\ "verify" \in {r.op, r.next} => Spares(r.set)

\* Who sets the password.
Setting(p, r) ==
  /\ "password" \in DOMAIN r.set =>
       /\ r.op \in {"password", "lift"}
       /\ r.next \in {"password", "none"}
  /\ "password" \in DOMAIN r.set /\ r.op = "password"
       /\ p \in {"select", "update"} => r.user["password"] = r.set["password"]
  /\ p = "update" /\ "password" \in r.cols =>
       r.op = "password" /\ "password" \in DOMAIN r.set

RequestOK(p, r) == IsRequest(r) /\ Fitting(p, r) /\ Setting(p, r)

ReqOK ==
  /\ pc \in [Handlers -> Steps]
  /\ req = [h \in Handlers |-> req[h]]
  /\ \A h \in Handlers : RequestOK(pc[h], req[h])

DataOK ==
  /\ now \in Times
  /\ IsRow(row)
  /\ socket = [c \in Sockets |-> socket[c]]
  /\ \A c \in Sockets : socket[c] = None \/ IsRow(socket[c])
  /\ blind \subseteq Handlers \cup Sockets
  /\ made \in 0 .. MaxRequests

TInv == ReqOK /\ DataOK

USE DEF vars

-------------------------------------------------------------------------------
(***************************************************************************)
(* Rows and requests.                                                      *)
(***************************************************************************)
LEMMA EmptySet == IsSet(NoSet) /\ DOMAIN NoSet = {}
  BY DEF IsSet, NoSet

LEMMA ValueSets ==
  /\ Values("status") = Statuses /\ Values("ends") = Times \cup {None}
  /\ Values("deleted") = BOOLEAN /\ Values("is_verified") = BOOLEAN
  /\ Values("password") = Passwords
  BY DEF Values

LEMMA LiftSet ==
  /\ IsSet(Lift) /\ DOMAIN Lift = {"status", "ends"}
  /\ Lift["status"] = "active" /\ Lift["ends"] = None
<1>1. DOMAIN Lift = {"status", "ends"}
  BY DEF Lift
<1>2. Lift["status"] = "active" /\ Lift["ends"] = None
  BY DEF Lift
<1> QED
  BY <1>1, <1>2 DEF IsSet, Values, Columns, Statuses

LEMMA NewRowType ==
  ASSUME NEW v \in BOOLEAN
  PROVE  IsRow(NewRow(v))
  BY AccountAssumption DEF IsRow, NewRow, Columns, Values, Statuses

LEMMA AssignType ==
  ASSUME NEW u, IsRow(u), NEW set, IsSet(set)
  PROVE  LET v == Assign(u, set) IN
         /\ IsRow(v)
         /\ \A c \in Columns : v[c] = IF c \in DOMAIN set THEN set[c] ELSE u[c]
  BY DEF IsRow, IsSet, Assign

\* A row of which some columns are written.
LEMMA SavedType ==
  ASSUME NEW u, IsRow(u), NEW v, IsRow(v), NEW cols
  PROVE  LET w == [c \in Columns |-> IF c \in cols THEN v[c] ELSE u[c]] IN
         /\ IsRow(w)
         /\ \A c \in Columns : w[c] = IF c \in cols THEN v[c] ELSE u[c]
  BY DEF IsRow

LEMMA AsksForm ==
  ASSUME NEW op, NEW next, NEW own, NEW set, NEW old
  PROVE  LET r == Asks(op, next, own, set, old) IN
         /\ r = [op |-> r.op, set |-> r.set, own |-> r.own, next |-> r.next,
                 old |-> r.old, user |-> r.user, cols |-> r.cols]
         /\ r.op = op /\ r.next = next /\ r.own = own /\ r.set = set
         /\ r.cols = {}
  BY DEF Asks

LEMMA NoRequestOK == NoRequest.op = "none" /\ RequestOK("idle", NoRequest)
<1>1. /\ NoRequest = [op |-> NoRequest.op, set |-> NoRequest.set,
                      own |-> NoRequest.own, next |-> NoRequest.next,
                      old |-> NoRequest.old, user |-> NoRequest.user,
                      cols |-> NoRequest.cols]
      /\ NoRequest.op = "none" /\ NoRequest.next = "none"
      /\ NoRequest.own = FALSE /\ NoRequest.set = NoSet /\ NoRequest.cols = {}
  BY DEF NoRequest, Asks
<1>2. IsRequest(NoRequest)
  BY <1>1, EmptySet DEF IsRequest
<1>3. Fitting("idle", NoRequest)
  BY <1>1 DEF Fitting
<1>4. Setting("idle", NoRequest)
  BY <1>1, EmptySet DEF Setting
<1> QED
  BY <1>1, <1>2, <1>3, <1>4 DEF RequestOK

\* A request that starts, or goes on once its suspension is lifted.
LEMMA AsksOK ==
  ASSUME NEW op \in Ops, NEW own \in BOOLEAN, NEW set, IsSet(set), NEW old,
         "password" \in DOMAIN set => op = "password",
         own \/ op \in Decisions \cup {"verify"}, op = "verify" => Spares(set),
         NEW p \in {"guard", "find"}, p = "guard" => own
  PROVE  RequestOK(p, Asks(op, "none", own, set, old))
<1> DEFINE r == Asks(op, "none", own, set, old)
<1>1. /\ r = [op |-> r.op, set |-> r.set, own |-> r.own, next |-> r.next,
              old |-> r.old, user |-> r.user, cols |-> r.cols]
      /\ r.op = op /\ r.next = "none" /\ r.own = own /\ r.set = set
      /\ r.cols = {}
  BY AsksForm
<1>2. op # "none" /\ op # "lift"
  BY DEF Ops
<1> HIDE DEF r
<1>3. IsRequest(r)
  BY <1>1 DEF IsRequest
<1>4. Fitting(p, r)
  BY <1>1, <1>2, NoRequestOK DEF Fitting
<1>5. Setting(p, r)
  BY <1>1 DEF Setting
<1> QED
  BY <1>3, <1>4, <1>5 DEF RequestOK, r

\* A request that is to lift its suspension first.
LEMMA LiftsOK ==
  ASSUME NEW next \in Ops \cup {"none"}, NEW set, IsSet(set), NEW old,
         "password" \in DOMAIN set => next \in {"password", "none"},
         next = "verify" => Spares(set)
  PROVE  RequestOK("find", Asks("lift", next, TRUE, set, old))
<1> DEFINE r == Asks("lift", next, TRUE, set, old)
<1>1. /\ r = [op |-> r.op, set |-> r.set, own |-> r.own, next |-> r.next,
              old |-> r.old, user |-> r.user, cols |-> r.cols]
      /\ r.op = "lift" /\ r.next = next /\ r.own = TRUE /\ r.set = set
      /\ r.cols = {}
  BY AsksForm
<1> HIDE DEF r
<1>3. IsRequest(r)
  BY <1>1 DEF IsRequest
<1>4. Fitting("find", r)
  BY <1>1, NoRequestOK DEF Fitting
<1>5. Setting("find", r)
  BY <1>1 DEF Setting
<1> QED
  BY <1>3, <1>4, <1>5 DEF RequestOK, r

-------------------------------------------------------------------------------
(***************************************************************************)
(* Types.                                                                  *)
(***************************************************************************)
LEMMA Moved ==
  ASSUME ReqOK, NEW h \in Handlers, NEW r, NEW at \in Steps, RequestOK(at, r),
         req' = [req EXCEPT ![h] = r], pc' = [pc EXCEPT ![h] = at]
  PROVE  ReqOK'
<1>1. \A g \in Handlers : RequestOK(pc'[g], req'[g])
  BY DEF ReqOK
<1>2. pc' \in [Handlers -> Steps] /\ req' = [g \in Handlers |-> req'[g]]
  BY DEF ReqOK
<1> QED
  BY <1>1, <1>2 DEF ReqOK

LEMMA Went ==
  ASSUME ReqOK, NEW h \in Handlers, NEW at \in Steps, RequestOK(at, req[h]),
         UNCHANGED req, Goto(h, at)
  PROVE  ReqOK'
<1>1. req' = [req EXCEPT ![h] = req[h]]
  BY DEF ReqOK
<1> QED
  BY <1>1, Moved DEF Goto

LEMMA Rested ==
  ASSUME ReqOK, NEW h \in Handlers, Goto(h, "idle"),
         req' = [req EXCEPT ![h] = NoRequest]
  PROVE  ReqOK'
  BY NoRequestOK, Moved DEF Goto, Steps

LEMMA Began ==
  ASSUME ReqOK, NEW h \in Handlers, NEW r, NEW first \in {"guard", "find"},
         RequestOK(first, r), NEW b, Begin(h, r, first, b)
  PROVE  ReqOK'
  BY Moved DEF Begin, Goto, Steps

\* What the columns of a Lapsed row say.
LEMMA Columned ==
  ASSUME NEW u, IsRow(u)
  PROVE  /\ u["status"] \in Statuses /\ u["ends"] \in Times \cup {None}
         /\ u["password"] \in Passwords
  BY DEF IsRow, Columns, Values

\* What the guard makes of a request.
LEMMA ToLiftOK ==
  ASSUME NEW r, RequestOK("guard", r), NEW next \in {r.op, "none"}
  PROVE  r.own /\ RequestOK("find", Asks("lift", next, r.own, r.set, r.old))
<1>1. /\ r.own = TRUE /\ r.op \in Ops /\ IsSet(r.set)
      /\ "password" \in DOMAIN r.set => r.op = "password"
      /\ r.op = "verify" => Spares(r.set)
  BY DEF RequestOK, IsRequest, Fitting, Setting, Ops
<1> QED
  BY <1>1, LiftsOK

LEMMA PassedOK ==
  ASSUME NEW r, RequestOK("guard", r)
  PROVE  r.own /\ RequestOK("find", r)
  BY NoRequestOK DEF RequestOK, Fitting, Setting

\* What is left of it once the suspension is lifted.
LEMMA ContinuedOK ==
  ASSUME NEW p \in {"select", "update"}, NEW r, RequestOK(p, r),
         r.next # "none"
  PROVE  r.own /\ RequestOK("find", Asks(r.next, "none", r.own, r.set, r.old))
<1>1. /\ r.own = TRUE /\ r.next \in Ops /\ IsSet(r.set)
      /\ "password" \in DOMAIN r.set => r.next = "password"
      /\ r.next = "verify" => Spares(r.set)
  BY DEF RequestOK, IsRequest, Fitting, Setting
<1> QED
  BY <1>1, AsksOK

\* The entity that a request found.
LEMMA FoundOK ==
  ASSUME NEW r, RequestOK("find", r), NEW u, IsRow(u),
         r.op # "lift" /\ "password" \in DOMAIN r.set
           => u["password"] = r.set["password"]
  PROVE  RequestOK("select", [r EXCEPT !.user = u])
<1> DEFINE q == [r EXCEPT !.user = u]
<1>1. r = [op |-> r.op, set |-> r.set, own |-> r.own, next |-> r.next,
           old |-> r.old, user |-> r.user, cols |-> r.cols]
  BY DEF RequestOK, IsRequest
<1>2. q = [op |-> r.op, set |-> r.set, own |-> r.own, next |-> r.next,
           old |-> r.old, user |-> u, cols |-> r.cols]
  BY <1>1
<1>3. /\ q.op = r.op /\ q.set = r.set /\ q.own = r.own /\ q.next = r.next
      /\ q.old = r.old /\ q.user = u /\ q.cols = r.cols
  BY <1>2
<1> HIDE DEF q
<1>4. IsRequest(q)
  BY <1>2, <1>3 DEF RequestOK, IsRequest
<1>5. Fitting("select", q)
  BY <1>3, NoRequestOK DEF RequestOK, Fitting
<1>6. Setting("select", q)
  BY <1>3 DEF RequestOK, Setting
<1> QED
  BY <1>4, <1>5, <1>6 DEF RequestOK, q

\* The columns that it is going to write.
LEMMA SelectedOK ==
  ASSUME NEW r, RequestOK("select", r), NEW cols,
         cols \subseteq DOMAIN r.set \cup Loaded,
         "password" \in cols => r.op # "lift" /\ "password" \in DOMAIN r.set
  PROVE  RequestOK("update", [r EXCEPT !.cols = cols])
<1> DEFINE q == [r EXCEPT !.cols = cols]
<1>1. r = [op |-> r.op, set |-> r.set, own |-> r.own, next |-> r.next,
           old |-> r.old, user |-> r.user, cols |-> r.cols]
  BY DEF RequestOK, IsRequest
<1>2. q = [op |-> r.op, set |-> r.set, own |-> r.own, next |-> r.next,
           old |-> r.old, user |-> r.user, cols |-> cols]
  BY <1>1
<1>3. /\ q.op = r.op /\ q.set = r.set /\ q.own = r.own /\ q.next = r.next
      /\ q.old = r.old /\ q.user = r.user /\ q.cols = cols
  BY <1>2
<1> HIDE DEF q
<1>4. IsRequest(q)
  BY <1>2, <1>3 DEF RequestOK, IsRequest
<1>5. Fitting("update", q)
  BY <1>3, NoRequestOK DEF RequestOK, Fitting
<1>6. Setting("update", q)
  BY <1>3 DEF RequestOK, Setting
<1> QED
  BY <1>4, <1>5, <1>6 DEF RequestOK, q

LEMMA TypesInit == Init => TInv
<1> SUFFICES ASSUME Init PROVE TInv
  OBVIOUS
<1>1. ReqOK
  <2>1. "idle" \in Steps
    BY DEF Steps
  <2>2. req = [h \in Handlers |-> req[h]] /\ pc \in [Handlers -> Steps]
    BY <2>1 DEF Init
  <2>3. \A h \in Handlers : pc[h] = "idle" /\ req[h] = NoRequest
    BY DEF Init
  <2> QED
    BY <2>2, <2>3, NoRequestOK DEF ReqOK
<1>2. IsRow(row)
  BY NewRowType DEF Init
<1>3. /\ now \in Times /\ made \in 0 .. MaxRequests
      /\ blind \subseteq Handlers \cup Sockets
  BY AccountAssumption DEF Init, Times
<1>4. /\ socket = [c \in Sockets |-> socket[c]]
      /\ \A c \in Sockets : socket[c] = None
  BY DEF Init
<1> QED
  BY <1>1, <1>2, <1>3, <1>4 DEF TInv, DataOK

\* A request begins: of the variables beside its own, two change.
LEMMA BeginTypes ==
  ASSUME TInv, NEW h \in Handlers, NEW r, NEW first \in {"guard", "find"},
         RequestOK(first, r), NEW b, Begin(h, r, first, b),
         UNCHANGED <<now, row, socket>>
  PROVE  TInv'
<1>1. ReqOK'
  BY Began DEF TInv
<1>2. made' \in 0 .. MaxRequests
  BY AccountAssumption DEF TInv, DataOK, Begin
<1>3. blind' \subseteq Handlers \cup Sockets
  BY DEF TInv, DataOK, Begin
<1> QED
  BY <1>1, <1>2, <1>3 DEF TInv, DataOK

LEMMA StartTypes ==
  ASSUME TInv, NEW h \in Handlers, NEW op \in Ops, NEW own \in BOOLEAN,
         NEW set, IsSet(set), NEW old,
         "password" \in DOMAIN set => op = "password",
         own \/ op \in Decisions \cup {"verify"}, op = "verify" => Spares(set),
         Start(h, op, own, set, old)
  PROVE  TInv'
<1> DEFINE r == Asks(op, "none", own, set, old)
<1>1. ASSUME own PROVE TInv'
  <2>1. RequestOK("guard", r)
    BY <1>1, AsksOK
  <2>2. Begin(h, r, "guard", FALSE) /\ UNCHANGED <<now, row, socket>>
    BY <1>1 DEF Start
  <2> QED
    BY <2>1, <2>2, BeginTypes
<1>2. ASSUME ~ own PROVE TInv'
  <2>1. RequestOK("find", r)
    BY <1>2, AsksOK
  <2>2. Begin(h, r, "find", FALSE) /\ UNCHANGED <<now, row, socket>>
    BY <1>2 DEF Start
  <2> QED
    BY <2>1, <2>2, BeginTypes
<1> QED
  BY <1>1, <1>2

\* The bodies of the requests.
LEMMA Bodies ==
  /\ \A dto \in Updates : IsSet(dto) /\ "password" \notin DOMAIN dto
  /\ \A t \in Times : LET s == [status |-> "suspended", ends |-> t] IN
                      IsSet(s) /\ DOMAIN s = {"status", "ends"}
  /\ \A p \in Passwords : LET s == [password |-> p] IN
                          IsSet(s) /\ DOMAIN s = {"password"}
  /\ LET s == [is_verified |-> TRUE] IN IsSet(s) /\ DOMAIN s = {"is_verified"}
  /\ LET s == [status |-> "soft_deleted", deleted |-> TRUE] IN
     IsSet(s) /\ DOMAIN s = {"status", "deleted"}
  /\ LET s == [status |-> "active", deleted |-> FALSE] IN
     IsSet(s) /\ DOMAIN s = {"status", "deleted"}
<1>1. \A dto \in Updates : IsSet(dto) /\ "password" \notin DOMAIN dto
  BY AccountAssumption
<1>2. ASSUME NEW t \in Times
      PROVE  LET s == [status |-> "suspended", ends |-> t] IN
             IsSet(s) /\ DOMAIN s = {"status", "ends"}
  BY DEF IsSet, Values, Columns, Statuses
<1>3. ASSUME NEW p \in Passwords
      PROVE  LET s == [password |-> p] IN
             IsSet(s) /\ DOMAIN s = {"password"}
  BY DEF IsSet, Values, Columns
<1>4. LET s == [is_verified |-> TRUE] IN IsSet(s) /\ DOMAIN s = {"is_verified"}
  <2> DEFINE s == [is_verified |-> TRUE]
  <2>1. DOMAIN s = {"is_verified"} /\ s["is_verified"] = TRUE
    OBVIOUS
  <2> HIDE DEF s
  <2>2. s["is_verified"] \in Values("is_verified")
    BY <2>1, ValueSets
  <2>3. IsSet(s)
    BY <2>1, <2>2 DEF IsSet, Columns
  <2> QED
    BY <2>1, <2>3 DEF s
<1>5. LET s == [status |-> "soft_deleted", deleted |-> TRUE] IN
      IsSet(s) /\ DOMAIN s = {"status", "deleted"}
  <2> DEFINE s == [status |-> "soft_deleted", deleted |-> TRUE]
  <2>1. /\ DOMAIN s = {"status", "deleted"}
        /\ s["status"] = "soft_deleted" /\ s["deleted"] = TRUE
    OBVIOUS
  <2> HIDE DEF s
  <2>2. s["deleted"] \in Values("deleted")
    BY <2>1, ValueSets
  <2>3. s["status"] \in Values("status")
    BY <2>1, ValueSets DEF Statuses
  <2>4. IsSet(s)
    BY <2>1, <2>2, <2>3 DEF IsSet, Columns
  <2> QED
    BY <2>1, <2>4 DEF s
<1>6. LET s == [status |-> "active", deleted |-> FALSE] IN
      IsSet(s) /\ DOMAIN s = {"status", "deleted"}
  <2> DEFINE s == [status |-> "active", deleted |-> FALSE]
  <2>1. /\ DOMAIN s = {"status", "deleted"}
        /\ s["status"] = "active" /\ s["deleted"] = FALSE
    OBVIOUS
  <2> HIDE DEF s
  <2>2. s["deleted"] \in Values("deleted")
    BY <2>1, ValueSets
  <2>3. s["status"] \in Values("status")
    BY <2>1, ValueSets DEF Statuses
  <2>4. IsSet(s)
    BY <2>1, <2>2, <2>3 DEF IsSet, Columns
  <2> QED
    BY <2>1, <2>4 DEF s
<1> QED
  BY <1>1, <1>2, <1>3, <1>4, <1>5, <1>6

LEMMA RequestTypes ==
  ASSUME TInv, NEW h \in Handlers, Request(h)
  PROVE  TInv'
<1>1. ASSUME NEW own \in BOOLEAN, NEW dto \in Updates, UpdateUser(h, own, dto)
      PROVE  TInv'
  BY <1>1, Bodies, StartTypes DEF UpdateUser, Ops, Decisions
<1>2. ASSUME NEW own \in BOOLEAN, NEW t \in Times, SuspendUser(h, own, t)
      PROVE  TInv'
  <2> DEFINE s == [status |-> "suspended", ends |-> t]
  <2>1. IsSet(s) /\ "password" \notin DOMAIN s
    BY Bodies
  <2> HIDE DEF s
  <2>2. Start(h, "suspend", own, s, None)
    BY <1>2 DEF SuspendUser, s
  <2> QED
    BY <2>1, <2>2, StartTypes DEF Ops, Decisions
<1>3. ASSUME NEW own \in BOOLEAN, UnsuspendUser(h, own)
      PROVE  TInv'
  BY <1>3, LiftSet, StartTypes DEF UnsuspendUser, Ops, Decisions
<1>4. ASSUME NEW own \in BOOLEAN, SoftDelete(h, own)
      PROVE  TInv'
  <2> DEFINE s == [status |-> "soft_deleted", deleted |-> TRUE]
  <2>1. IsSet(s) /\ "password" \notin DOMAIN s
    BY Bodies
  <2> HIDE DEF s
  <2>2. Start(h, "delete", own, s, None)
    BY <1>4 DEF SoftDelete, s
  <2> QED
    BY <2>1, <2>2, StartTypes DEF Ops, Decisions
<1>5. ASSUME NEW own \in BOOLEAN, Restore(h, own)
      PROVE  TInv'
  <2> DEFINE s == [status |-> "active", deleted |-> FALSE]
  <2>1. IsSet(s) /\ "password" \notin DOMAIN s
    BY Bodies
  <2> HIDE DEF s
  <2>2. Start(h, "restore", own, s, None)
    BY <1>5 DEF Restore, s
  <2> QED
    BY <2>1, <2>2, StartTypes DEF Ops, Decisions
<1>6. CASE UpdateMe(h)
  BY <1>6, EmptySet, StartTypes DEF UpdateMe, Ops
<1>7. CASE ConfirmEmail(h)
  <2> DEFINE s == [is_verified |-> TRUE]
  <2>1. IsSet(s) /\ "password" \notin DOMAIN s /\ Spares(s)
    BY Bodies DEF Spares
  <2> HIDE DEF s
  <2>2. Start(h, "verify", FALSE, s, None)
    BY <1>7 DEF ConfirmEmail, s
  <2> QED
    BY <2>1, <2>2, StartTypes DEF Ops
<1>8. ASSUME NEW old \in Passwords, NEW new \in Passwords,
             ChangePassword(h, old, new)
      PROVE  TInv'
  <2> DEFINE s == [password |-> new]
  <2>1. IsSet(s)
    BY Bodies
  <2> HIDE DEF s
  <2>2. Start(h, "password", TRUE, s, old)
    BY <1>8 DEF ChangePassword, s
  <2> QED
    BY <2>1, <2>2, StartTypes DEF Ops
<1>9. ASSUME NEW c \in Sockets, Message(h, c)
      PROVE  TInv'
  <2>1. RequestOK("find", Asks("lift", "none", TRUE, NoSet, None))
    BY EmptySet, LiftsOK
  <2> QED
    BY <1>9, <2>1, BeginTypes DEF Message
<1> QED
  BY <1>1, <1>2, <1>3, <1>4, <1>5, <1>6, <1>7, <1>8, <1>9
  DEF Request, SoftDeleteUser, RestoreUser, SoftDeleteMe, RestoreMe

\* What h writes is a row.
LEMMA WriteTypes ==
  ASSUME TInv, NEW h \in Handlers, NEW u, IsRow(u), Write(h, u)
  PROVE  IsRow(row') /\ blind' \subseteq Handlers \cup Sockets
  BY DEF Write, TInv, DataOK, HasRead

LEMMA FinishTypes ==
  ASSUME TInv, NEW h \in Handlers, Finish(h),
         UNCHANGED <<now, row, socket, made>>
  PROVE  TInv'
<1>1. ReqOK'
  BY Rested DEF TInv, Finish
<1> QED
  BY <1>1 DEF TInv, DataOK, Finish

LEMMA RunTypes ==
  ASSUME TInv, NEW h \in Handlers, Run(h)
  PROVE  TInv'
<1> USE DEF TInv
<1>0. RequestOK(pc[h], req[h])
  BY DEF ReqOK
<1>1. CASE Guard(h)
  <2> DEFINE next == IF Allowed(row) THEN req[h].op ELSE "none"
  <2>1. CASE Finish(h)
    BY <1>1, <2>1, FinishTypes DEF Guard
  <2>2. CASE Goto(h, "find") /\ UNCHANGED <<req, blind>>
    <3>1. ReqOK'
      BY <1>0, <1>1, <2>2, PassedOK, Went DEF Guard, Steps
    <3> QED
      BY <1>1, <2>2, <3>1 DEF Guard, DataOK
  <2>3. CASE /\ Goto(h, "find") /\ UNCHANGED blind
             /\ req' = [req EXCEPT ![h] = Asks("lift", next, req[h].own,
                                               req[h].set, req[h].old)]
    <3>1. next \in {req[h].op, "none"}
      OBVIOUS
    <3> HIDE DEF next
    <3>2. ReqOK'
      BY <1>0, <1>1, <2>3, <3>1, ToLiftOK, Moved DEF Guard, Goto, Steps
    <3> QED
      BY <1>1, <2>3, <3>2 DEF Guard, DataOK
  <2> QED
    BY <1>1, <2>1, <2>2, <2>3 DEF Guard
<1>2. CASE Find(h)
  <2>1. CASE Finish(h)
    BY <1>2, <2>1, FinishTypes DEF Find
  <2>2. CASE /\ req[h].op \in {"delete", "restore"} /\ Goto(h, "commit")
             /\ UNCHANGED <<req, blind>>
    <3>1. RequestOK("commit", req[h])
      BY <1>0, <1>2, <2>2, NoRequestOK DEF Find, RequestOK, Fitting, Setting
    <3>2. ReqOK'
      BY <2>2, <3>1, Went DEF Steps
    <3> QED
      BY <1>2, <2>2, <3>2 DEF Find, DataOK
  <2>3. CASE /\ Goto(h, "select") /\ UNCHANGED blind
             /\ req' = [req EXCEPT ![h].user = Assign(row, Set(req[h]))]
    <3> DEFINE u == Assign(row, Set(req[h]))
    <3>1. IsSet(Set(req[h])) /\ IsRow(row)
      BY <1>0, LiftSet DEF RequestOK, IsRequest, Set, DataOK
    <3>2. /\ IsRow(u)
          /\ \A c \in Columns : u[c] = IF c \in DOMAIN Set(req[h])
                                         THEN Set(req[h])[c] ELSE row[c]
      BY <3>1, AssignType
    <3>3. ASSUME req[h].op # "lift", "password" \in DOMAIN req[h].set
          PROVE  u["password"] = req[h].set["password"]
      BY <3>2, <3>3 DEF Set, Columns
    <3> HIDE DEF u
    <3>4. RequestOK("select", [req[h] EXCEPT !.user = u])
      BY <1>0, <1>2, <3>2, <3>3, FoundOK DEF Find
    <3>5. req' = [req EXCEPT ![h] = [req[h] EXCEPT !.user = u]]
      BY <2>3 DEF u
    <3>6. ReqOK'
      BY <2>3, <3>4, <3>5, Moved DEF Goto, Steps
    <3> QED
      BY <1>2, <2>3, <3>6 DEF Find, DataOK
  <2> QED
    BY <1>2, <2>1, <2>2, <2>3 DEF Find
<1>3. CASE SelectSaved(h)
  <2> DEFINE cols == IF req[h].op = "lift"
                       THEN Changed(req[h]) \ {"password"} ELSE Changed(req[h])
  <2>1. CASE Finish(h)
    BY <1>3, <2>1, FinishTypes DEF SelectSaved
  <2>2. CASE Continue(h) /\ req[h].next # "none" /\ UNCHANGED blind
    <3>1. ReqOK'
      BY <1>0, <1>3, <2>2, ContinuedOK, Moved
      DEF SelectSaved, Continue, Goto, Steps
    <3> QED
      BY <1>3, <2>2, <3>1 DEF SelectSaved, DataOK
  <2>3. CASE /\ Goto(h, "update") /\ UNCHANGED blind
             /\ req' = [req EXCEPT ![h].cols = cols]
    <3>1. /\ cols \subseteq DOMAIN req[h].set \cup Loaded
          /\ "password" \in cols
               => req[h].op # "lift" /\ "password" \in DOMAIN req[h].set
      BY DEF Changed, Loaded
    <3> HIDE DEF cols
    <3>2. RequestOK("update", [req[h] EXCEPT !.cols = cols])
      BY <1>0, <1>3, <3>1, SelectedOK DEF SelectSaved
    <3>3. req' = [req EXCEPT ![h] = [req[h] EXCEPT !.cols = cols]]
      BY <2>3
    <3>4. ReqOK'
      BY <2>3, <3>2, <3>3, Moved DEF Goto, Steps
    <3> QED
      BY <1>3, <2>3, <3>4 DEF SelectSaved, DataOK
  <2> QED
    BY <1>3, <2>1, <2>2, <2>3 DEF SelectSaved
<1>4. CASE Update(h)
  <2>1. ReqOK'
    <3>1. CASE req[h].next # "none"
      BY <1>0, <1>4, <3>1, ContinuedOK, Moved DEF Update, Continue, Goto, Steps
    <3>2. CASE req[h].next = "none"
      BY <1>4, <3>2, Rested DEF Update
    <3> QED
      BY <3>1, <3>2
  <2> DEFINE w == [c \in Columns |-> IF c \in req[h].cols
                                       THEN req[h].user[c] ELSE row[c]]
  <2>2. IsRow(w)
    BY <1>0, <1>4, SavedType DEF Update, RequestOK, Fitting, DataOK
  <2>3. Write(h, w)
    BY <1>4 DEF Update
  <2> HIDE DEF w
  <2>4. IsRow(row') /\ blind' \subseteq Handlers \cup Sockets
    BY <2>2, <2>3, WriteTypes
  <2> QED
    BY <1>4, <2>1, <2>4 DEF Update, DataOK
<1>5. CASE Commit(h)
  <2>1. ReqOK'
    BY <1>5, Rested DEF Commit
  <2>2. IsRow(Assign(row, req[h].set))
    BY <1>0, AssignType DEF RequestOK, IsRequest, DataOK
  <2>3. IsRow(row') /\ blind' \subseteq Handlers \cup Sockets
    BY <1>5, <2>2, WriteTypes DEF Commit
  <2> QED
    BY <1>5, <2>1, <2>3 DEF Commit, DataOK
<1>6. CASE Fail(h)
  BY <1>6, FinishTypes DEF Fail
<1> QED
  BY <1>1, <1>2, <1>3, <1>4, <1>5, <1>6 DEF Run

LEMMA TypesStep == TInv /\ [Next]_vars => TInv'
<1> SUFFICES ASSUME TInv, [Next]_vars PROVE TInv'
  OBVIOUS
<1>1. CASE Tick
  <2>1. now' \in Times
    BY <1>1, AccountAssumption DEF Tick, TInv, DataOK, Times
  <2> QED
    BY <1>1, <2>1 DEF Tick, TInv, ReqOK, DataOK
<1>2. ASSUME NEW c \in Sockets, Connect(c)
      PROVE  TInv'
  BY <1>2 DEF Connect, TInv, ReqOK, DataOK
<1>3. ASSUME NEW c \in Sockets, Disconnect(c)
      PROVE  TInv'
  BY <1>3 DEF Disconnect, TInv, ReqOK, DataOK
<1>4. CASE UNCHANGED vars
  BY <1>4 DEF TInv, ReqOK, DataOK
<1> QED
  BY <1>1, <1>2, <1>3, <1>4, RequestTypes, RunTypes DEF Next

\* Every variable has its type; what a handler holds fits its step.
THEOREM TypeCorrect == Spec => []TypeOK
<1>1. TInv => TypeOK
  BY DEF TInv, ReqOK, DataOK, RequestOK, IsRequest, Fitting, TypeOK
<1> QED
  BY <1>1, TypesInit, TypesStep, PTL DEF Spec

-------------------------------------------------------------------------------
(***************************************************************************)
(* Who writes the row.                                                     *)
(***************************************************************************)
LEMMA Writers ==
  ASSUME [Next]_vars, row' # row
  PROVE  \E h \in Handlers : Update(h) \/ Commit(h)
<1>1. ASSUME NEW h \in Handlers, Request(h)
      PROVE  UNCHANGED row
  BY <1>1
  DEF Request, SoftDeleteUser, RestoreUser, SoftDeleteMe, RestoreMe,
      UpdateUser, SuspendUser, UnsuspendUser, SoftDelete, Restore, UpdateMe,
      ConfirmEmail, ChangePassword, Message, Start
<1>2. ASSUME NEW h \in Handlers, Run(h), ~ Update(h), ~ Commit(h)
      PROVE  UNCHANGED row
  BY <1>2 DEF Run, Guard, Find, SelectSaved, Fail
<1>3. ASSUME Tick \/ \E c \in Sockets : Connect(c) \/ Disconnect(c)
      PROVE  UNCHANGED row
  BY <1>3 DEF Tick, Connect, Disconnect
<1> QED
  BY <1>1, <1>2, <1>3 DEF Next

\* Writing is the last that a handler does at its step.
LEMMA WritesOnce ==
  ASSUME ReqOK, NEW h \in Handlers, Update(h) \/ Commit(h)
  PROVE  Writes(h)
<1>1. pc' = [pc EXCEPT ![h] = "idle"] \/ pc' = [pc EXCEPT ![h] = "find"]
  BY DEF Update, Commit, Continue, Goto
<1>2. pc'[h] \in {"idle", "find"} /\ pc[h] \in {"update", "commit"}
  BY <1>1 DEF ReqOK, Update, Commit
<1> QED
  BY <1>2 DEF Writes

\* What an Update leaves in the row.
LEMMA Written ==
  ASSUME TInv, NEW h \in Handlers, Update(h)
  PROVE  \A c \in Columns :
           row'[c] = IF c \in req[h].cols THEN req[h].user[c] ELSE row[c]
<1>1. IsRow(row) /\ IsRow(req[h].user)
  BY DEF TInv, ReqOK, DataOK, RequestOK, Fitting, Update
<1>2. row' = [c \in Columns |-> IF c \in req[h].cols THEN req[h].user[c]
                                                     ELSE row[c]]
  BY DEF Update, Write
<1> QED
  BY <1>1, <1>2, SavedType

LEMMA Decided ==
  ASSUME TInv, NEW h \in Handlers, Commit(h)
  PROVE  \A c \in Columns :
           row'[c] = IF c \in DOMAIN req[h].set THEN req[h].set[c] ELSE row[c]
<1>1. IsRow(row) /\ IsSet(req[h].set)
  BY DEF TInv, ReqOK, DataOK, RequestOK, IsRequest
<1>2. row' = Assign(row, req[h].set)
  BY DEF Commit, Write
<1> QED
  BY <1>1, <1>2, AssignType

-------------------------------------------------------------------------------
(***************************************************************************)
(* PasswordKept.                                                           *)
(***************************************************************************)

\* A step changes the password as a request to do so asks.
ByRequest ==
  row'["password"] # row["password"] =>
    \E h \in Handlers : /\ Writes(h)
                        /\ req[h].op = "password"
                        /\ row'["password"] = req[h].set["password"]

LEMMA KeptStep == TInv /\ [Next]_vars => [ByRequest]_vars
<1>1. ASSUME TInv, [Next]_vars, row'["password"] # row["password"]
      PROVE  \E h \in Handlers :
               /\ Writes(h)
               /\ req[h].op = "password"
               /\ row'["password"] = req[h].set["password"]
  <2>1. PICK h \in Handlers : Update(h) \/ Commit(h)
    BY <1>1, Writers
  <2>2. Writes(h) /\ RequestOK(pc[h], req[h])
    BY <1>1, <2>1, WritesOnce DEF TInv, ReqOK
  <2>3. "password" \in Columns
    BY DEF Columns
  <2>4. CASE Update(h)
    <3>1. "password" \in req[h].cols
          /\ row'["password"] = req[h].user["password"]
      BY <1>1, <2>3, <2>4, Written
    <3> QED
      BY <2>2, <2>4, <3>1 DEF Update, RequestOK, Setting
  <2>5. CASE Commit(h)
    <3>1. "password" \in DOMAIN req[h].set
      BY <1>1, <2>3, <2>5, Decided
    <3> QED
      BY <2>2, <2>5, <3>1 DEF Commit, RequestOK, Setting, Fitting
  <2> QED
    BY <2>1, <2>4, <2>5
<1> QED
  BY <1>1 DEF ByRequest

\* Whatever overlaps, the password is what the last request that changes it
\* made it.
THEOREM PasswordSpared == Spec => PasswordKept
<1>1. Spec => [][ByRequest]_vars
  BY TypesInit, TypesStep, KeptStep, PTL DEF Spec
<1>2. [][ByRequest]_vars => PasswordKept
  BY DEF ByRequest, PasswordKept
<1> QED
  BY <1>1, <1>2

-------------------------------------------------------------------------------
(***************************************************************************)
(* SuspensionServed.                                                       *)
(***************************************************************************)

\* u has the present suspension, if there is one.
Knows(u) ==
  Suspended(row) => u["status"] = "suspended" /\ u["ends"] = row["ends"]

\* A handler at step p of request r has read the account.
Reads(p, r) == p \in {"select", "update", "commit"} \/ (p = "find" /\ r.own)

\* What it goes by is still so.
Informed(p, r) ==
  /\ Reads(p, r) /\ r.own => ~ Suspended(row)
  /\ p \in {"select", "update"} /\ r.op = "verify" => Knows(r.user)

SInv ==
  /\ \A h \in Handlers \ blind : Informed(pc[h], req[h])
  /\ \A c \in Sockets \ blind : socket[c] # None => Knows(socket[c])

LEMMA ServedInit == Init => SInv
  BY NoRequestOK DEF Init, SInv, Informed, Reads

\* One handler moves, nobody writes.
LEMMA StepOfOne ==
  ASSUME TInv, SInv, NEW h \in Handlers, NEW at \in Steps, NEW r,
         pc' = [pc EXCEPT ![h] = at], req' = [req EXCEPT ![h] = r],
         UNCHANGED <<now, row, socket>>,
         \A x : x # h => (x \in blind' <=> x \in blind),
         h \notin blind' => Informed(at, r)
  PROVE  SInv'
<1>1. ASSUME NEW g \in Handlers, g \notin blind'
      PROVE  Informed(pc'[g], req'[g])
  BY <1>1 DEF TInv, ReqOK, SInv
<1>2. ASSUME NEW c \in Sockets, c \notin blind', socket[c] # None
      PROVE  Knows(socket[c])
  BY <1>2, AccountAssumption DEF SInv
<1>3. (\A p, q : Informed(p, q)' <=> Informed(p, q))
      /\ \A u : Knows(u)' <=> Knows(u)
  BY DEF Informed, Reads, Knows, Suspended
<1> QED
  BY <1>1, <1>2, <1>3 DEF SInv, Informed, Reads, Knows, Suspended

\* A suspension that runs after a step that suspends nobody ran before it.
LEMMA StillRuns ==
  ASSUME TInv, TInv', Suspended(row)', now <= now',
         row["status"] = "suspended", row["ends"] = row'["ends"]
  PROVE  Suspended(row)
<1>1. now \in Nat /\ now' \in Nat
  BY AccountAssumption DEF TInv, DataOK, Times
<1>2. row["ends"] \in Nat \cup {None}
  BY Columned, AccountAssumption DEF TInv, DataOK, Times
<1> QED
  BY <1>1, <1>2 DEF Suspended

LEMMA ClockForward == TInv /\ [Next]_vars => now <= now'
<1> SUFFICES ASSUME TInv, [Next]_vars PROVE now <= now'
  OBVIOUS
<1>1. now \in Nat
  BY AccountAssumption DEF TInv, DataOK, Times
<1>2. CASE Tick
  BY <1>1, <1>2 DEF Tick
<1>3. ASSUME NEW h \in Handlers, Request(h)
      PROVE  UNCHANGED now
  BY <1>3
  DEF Request, SoftDeleteUser, RestoreUser, SoftDeleteMe, RestoreMe,
      UpdateUser, SuspendUser, UnsuspendUser, SoftDelete, Restore, UpdateMe,
      ConfirmEmail, ChangePassword, Message, Start
<1>4. ASSUME NEW h \in Handlers, Run(h)
      PROVE  UNCHANGED now
  BY <1>4 DEF Run, Guard, Find, SelectSaved, Update, Commit, Fail
<1>5. ASSUME NEW c \in Sockets, Connect(c) \/ Disconnect(c)
      PROVE  UNCHANGED now
  BY <1>5 DEF Connect, Disconnect
<1> QED
  BY <1>1, <1>2, <1>3, <1>4, <1>5 DEF Next

\* Nobody is suspended by the step: what they know is still so.
LEMMA NobodySuspended ==
  ASSUME TInv, TInv', now <= now',
         Suspended(row)' => /\ row["status"] = "suspended"
                            /\ row["ends"] = row'["ends"]
  PROVE  /\ \A p, r : Informed(p, r) => Informed(p, r)'
         /\ \A u : Knows(u) => Knows(u)'
<1>1. Suspended(row)' => Suspended(row) /\ row["ends"] = row'["ends"]
  BY StillRuns
<1> HIDE DEF vars
<1>2. \A u : Knows(u) => Knows(u)'
  BY <1>1 DEF Knows
<1>3. \A p, r : Informed(p, r) => Informed(p, r)'
  BY <1>1, <1>2 DEF Informed, Reads
<1> QED
  BY <1>2, <1>3

\* A request begins: it has read nothing, or it goes on with a guard that its
\* user has passed.
LEMMA BeginServed ==
  ASSUME TInv, SInv, NEW h \in Handlers, NEW r, NEW first \in {"guard", "find"},
         NEW b, Begin(h, r, first, b), UNCHANGED <<now, row, socket>>,
         ~ b => (first = "find" /\ r.own => ~ Suspended(row))
  PROVE  SInv'
<1>1. \A x : x # h => (x \in blind' <=> x \in blind)
  BY DEF Begin
<1>2. h \notin blind' => ~ b
  BY DEF Begin
<1>3. h \notin blind' => Informed(first, r)
  BY <1>2 DEF Informed, Reads
<1>4. /\ first \in Steps
      /\ pc' = [pc EXCEPT ![h] = first] /\ req' = [req EXCEPT ![h] = r]
  BY DEF Begin, Goto, Steps
<1> QED
  BY <1>1, <1>3, <1>4, StepOfOne

LEMMA StartServed ==
  ASSUME TInv, SInv, NEW h \in Handlers, NEW op, NEW own \in BOOLEAN, NEW set,
         NEW old, Start(h, op, own, set, old)
  PROVE  SInv'
<1> DEFINE r == Asks(op, "none", own, set, old)
<1>1. r.own = own
  BY AsksForm
<1>2. CASE own
  <2>1. Begin(h, r, "guard", FALSE) /\ UNCHANGED <<now, row, socket>>
    BY <1>2 DEF Start
  <2> HIDE DEF r
  <2> QED
    BY <2>1, BeginServed
<1>3. CASE ~ own
  <2>1. Begin(h, r, "find", FALSE) /\ UNCHANGED <<now, row, socket>>
    BY <1>3 DEF Start
  <2> HIDE DEF r
  <2> QED
    BY <1>1, <1>3, <2>1, BeginServed
<1> QED
  BY <1>2, <1>3

LEMMA RequestServed ==
  ASSUME TInv, SInv, NEW h \in Handlers, Request(h)
  PROVE  SInv'
<1>1. ASSUME NEW c \in Sockets, Message(h, c)
      PROVE  SInv'
  <2>1. IsRow(socket[c]) /\ IsRow(row) /\ now \in Nat
    BY <1>1, AccountAssumption DEF Message, TInv, DataOK, Times
  <2>2. socket[c]["ends"] \in Nat /\ now > socket[c]["ends"]
    BY <1>1, <2>1, Columned, AccountAssumption
    DEF Message, Lifts, Lapsed, Times
  <2>3. c \notin blind => ~ Suspended(row)
    <3>1. ASSUME c \notin blind, Suspended(row)
          PROVE  FALSE
      <4>1. socket[c]["ends"] = row["ends"]
        BY <1>1, <3>1 DEF Message, SInv, Knows
      <4> QED
        BY <2>1, <2>2, <3>1, <4>1, AccountAssumption DEF Suspended
    <3> QED
      BY <3>1
  <2> QED
    BY <1>1, <2>3, BeginServed DEF Message
<1>2. ASSUME ~ \E c \in Sockets : Message(h, c)
      PROVE  SInv'
  BY <1>2, StartServed
  DEF Request, UpdateUser, SuspendUser, UnsuspendUser, SoftDeleteUser,
      RestoreUser, SoftDeleteMe, RestoreMe, SoftDelete, Restore, UpdateMe,
      ConfirmEmail, ChangePassword
<1> QED
  BY <1>1, <1>2

LEMMA FinishServed ==
  ASSUME TInv, SInv, NEW h \in Handlers, Finish(h),
         UNCHANGED <<now, row, socket>>
  PROVE  SInv'
<1>1. \A x : x # h => (x \in blind' <=> x \in blind)
  BY DEF Finish
<1>2. Informed("idle", NoRequest)
  BY DEF Informed, Reads
<1>3. "idle" \in Steps
  BY DEF Steps
<1> QED
  BY <1>1, <1>2, <1>3, StepOfOne DEF Finish, Goto

\* h goes on at step "at" with r, as informed as it was.
LEMMA MoveServed ==
  ASSUME TInv, SInv, NEW h \in Handlers, NEW at \in Steps, NEW r,
         pc' = [pc EXCEPT ![h] = at], req' = [req EXCEPT ![h] = r],
         UNCHANGED <<now, row, socket, blind>>,
         Informed(pc[h], req[h]) => Informed(at, r)
  PROVE  SInv'
<1>1. h \notin blind' => Informed(at, r)
  BY DEF SInv
<1> QED
  BY <1>1, StepOfOne

\* The guard lets pass, or lifts the suspension of, users that are not
\* suspended or whose suspension has ended.
LEMMA GuardPasses ==
  ASSUME TInv, Lifts(row) \/ Allowed(row)
  PROVE  ~ Suspended(row)
<1>1. row["ends"] \in Nat \cup {None} /\ now \in Nat
  BY Columned, AccountAssumption DEF TInv, DataOK, Times
<1>2. Lapsed(row) \/ row["status"] \in {"active", "inactive"}
  BY DEF Lifts, Allowed, CheckAccountStatus
<1> QED
  BY <1>1, <1>2 DEF Suspended, Lapsed

LEMMA GuardServed ==
  ASSUME TInv, SInv, NEW h \in Handlers, Guard(h)
  PROVE  SInv'
<1>1. CASE Finish(h)
  BY <1>1, FinishServed DEF Guard
<1>2. ASSUME ~ Finish(h)
      PROVE  SInv'
  <2> DEFINE next == IF Allowed(row) THEN req[h].op ELSE "none"
             r    == Asks("lift", next, req[h].own, req[h].set, req[h].old)
  <2>1. ~ Suspended(row)
    BY <1>2, GuardPasses DEF Guard
  <2>2. \A q : Informed("find", q)
    BY <2>1 DEF Informed
  <2>3. Goto(h, "find") /\ UNCHANGED <<now, row, socket, blind>>
    BY <1>2 DEF Guard
  <2>4. req' = [req EXCEPT ![h] = r] \/ req' = [req EXCEPT ![h] = req[h]]
    BY <1>2 DEF Guard, TInv, ReqOK
  <2> HIDE DEF r
  <2> QED
    BY <2>2, <2>3, <2>4, MoveServed DEF Goto, Steps
<1> QED
  BY <1>1, <1>2

LEMMA FindServed ==
  ASSUME TInv, SInv, NEW h \in Handlers, Find(h)
  PROVE  SInv'
<1>0. RequestOK(pc[h], req[h]) /\ pc[h] = "find"
  BY DEF TInv, ReqOK, Find
<1>1. CASE Finish(h)
  BY <1>1, FinishServed DEF Find
<1>2. CASE req[h].op \in {"delete", "restore"} /\ Goto(h, "commit")
           /\ UNCHANGED <<req, blind>>
  <2>1. Informed("find", req[h]) => Informed("commit", req[h])
    BY DEF Informed, Reads
  <2>2. req' = [req EXCEPT ![h] = req[h]]
    BY <1>2 DEF TInv, ReqOK
  <2> QED
    BY <1>0, <1>2, <2>1, <2>2, MoveServed DEF Find, Goto, Steps
<1>3. CASE Goto(h, "select") /\ UNCHANGED blind
           /\ req' = [req EXCEPT ![h].user = Assign(row, Set(req[h]))]
  <2> DEFINE u == Assign(row, Set(req[h]))
             r == [req[h] EXCEPT !.user = u]
  <2>1. req[h].op = "verify" => Knows(u)
    <3>1. ASSUME req[h].op = "verify"
          PROVE  u["status"] = row["status"] /\ u["ends"] = row["ends"]
      <4>1. Spares(req[h].set) /\ Set(req[h]) = req[h].set
        BY <1>0, <3>1 DEF RequestOK, Fitting, Set
      <4> QED
        BY <4>1 DEF Assign, Columns, Spares
    <3> QED
      BY <3>1 DEF Knows, Suspended
  <2> HIDE DEF u
  <2>2. req[h] = [op |-> req[h].op, set |-> req[h].set, own |-> req[h].own,
                  next |-> req[h].next, old |-> req[h].old,
                  user |-> req[h].user, cols |-> req[h].cols]
    BY <1>0 DEF RequestOK, IsRequest
  <2>3. r.op = req[h].op /\ r.own = req[h].own /\ r.user = u
    BY <2>2
  <2>4. req' = [req EXCEPT ![h] = r]
    BY <1>3 DEF u
  <2> HIDE DEF r
  <2>5. Informed("find", req[h]) => Informed("select", r)
    BY <2>1, <2>3 DEF Informed, Reads
  <2> QED
    BY <1>0, <1>3, <2>4, <2>5, MoveServed DEF Find, Goto, Steps
<1> QED
  BY <1>1, <1>2, <1>3 DEF Find

LEMMA SelectServed ==
  ASSUME TInv, SInv, NEW h \in Handlers, SelectSaved(h)
  PROVE  SInv'
<1>0. RequestOK(pc[h], req[h]) /\ pc[h] = "select"
  BY DEF TInv, ReqOK, SelectSaved
<1> DEFINE cols == IF req[h].op = "lift"
                     THEN Changed(req[h]) \ {"password"} ELSE Changed(req[h])
<1>1. CASE Finish(h)
  BY <1>1, FinishServed DEF SelectSaved
<1>2. CASE Continue(h) /\ req[h].next # "none" /\ UNCHANGED blind
  <2> DEFINE r == Asks(req[h].next, "none", req[h].own, req[h].set, req[h].old)
  <2>1. r.own = req[h].own
    BY AsksForm
  <2>2. req' = [req EXCEPT ![h] = r]
    BY <1>2 DEF Continue
  <2>4. Goto(h, "find")
    BY <1>2 DEF Continue
  <2> HIDE DEF r
  <2>3. Informed("select", req[h]) => Informed("find", r)
    BY <2>1 DEF Informed, Reads
  <2> QED
    BY <1>0, <1>2, <2>2, <2>3, <2>4, MoveServed DEF SelectSaved, Goto, Steps
<1>3. CASE /\ Goto(h, "update") /\ UNCHANGED blind
           /\ req' = [req EXCEPT ![h].cols = cols]
  <2> DEFINE r == [req[h] EXCEPT !.cols = cols]
  <2> HIDE DEF cols
  <2>1. req[h] = [op |-> req[h].op, set |-> req[h].set, own |-> req[h].own,
                  next |-> req[h].next, old |-> req[h].old,
                  user |-> req[h].user, cols |-> req[h].cols]
    BY <1>0 DEF RequestOK, IsRequest
  <2>2. r.op = req[h].op /\ r.own = req[h].own /\ r.user = req[h].user
    BY <2>1
  <2>3. req' = [req EXCEPT ![h] = r]
    BY <1>3
  <2> HIDE DEF r
  <2>4. Informed("select", req[h]) => Informed("update", r)
    BY <2>2 DEF Informed, Reads
  <2> QED
    BY <1>0, <1>3, <2>3, <2>4, MoveServed DEF SelectSaved, Goto, Steps
<1> QED
  BY <1>1, <1>2, <1>3 DEF SelectSaved

\* A write that suspends blinds all who had read the account; after another
\* one, what they know is still so.
LEMMA WriteServed ==
  ASSUME TInv, TInv', SInv, NEW h \in Handlers, NEW u, Write(h, u),
         UNCHANGED <<now, socket>>, Reads(pc[h], req[h]), NEW at, NEW r,
         pc' = [pc EXCEPT ![h] = at], req' = [req EXCEPT ![h] = r],
         at = "idle" \/ (at = "find" /\ r.own = req[h].own)
  PROVE  SInv'
<1> DEFINE suspends == /\ row'["status"] = "suspended"
                       /\ \/ row["status"] # "suspended"
                          \/ row["ends"] # row'["ends"]
<1>1. row' = u /\ pc'[h] = at
  BY DEF Write, TInv, ReqOK
<1>2. CASE suspends
  <2>1. \A g \in Handlers : HasRead(g) /\ g # h => g \in blind'
    BY <1>1, <1>2, AccountAssumption DEF Write
  <2>2. \A c \in Sockets : socket[c] # None => c \in blind'
    BY <1>1, <1>2, AccountAssumption DEF Write
  <2>3. at = "idle" \/ h \in blind'
    BY <1>1, <1>2 DEF Write, HasRead, Reads
  <2>4. ASSUME NEW g \in Handlers, g \notin blind'
        PROVE  ~ Reads(pc'[g], req'[g])
    <3>1. CASE g = h
      BY <1>1, <2>3, <2>4, <3>1 DEF Reads
    <3>2. CASE g # h
      <4>1. pc'[g] = pc[g] /\ req'[g] = req[g]
        BY <3>2 DEF TInv, ReqOK
      <4> QED
        BY <2>1, <2>4, <3>2, <4>1 DEF HasRead, Reads
    <3> QED
      BY <3>1, <3>2
  <2>5. ASSUME NEW g \in Handlers, g \notin blind'
        PROVE  Informed(pc[g], req[g])'
    BY <2>4, <2>5 DEF Informed, Reads
  <2> QED
    BY <2>2, <2>5 DEF SInv
<1>3. CASE ~ suspends
  <2>1. Suspended(row)' => /\ row["status"] = "suspended"
                           /\ row["ends"] = row'["ends"]
    BY <1>3 DEF Suspended
  <2>2. now <= now'
    BY AccountAssumption DEF TInv, DataOK, Times
  <2>3. /\ \A p, q : Informed(p, q) => Informed(p, q)'
        /\ \A v : Knows(v) => Knows(v)'
    BY <2>1, <2>2, NobodySuspended
  <2>4. \A x : x # h => (x \in blind' <=> x \in blind)
    BY <1>1, <1>3 DEF Write
  <2>5. h \notin blind' => at = "idle" \/ h \notin blind
    BY <1>1, <1>3 DEF Write
  <2>6. ASSUME NEW g \in Handlers, g \notin blind'
        PROVE  Informed(pc[g], req[g])'
    <3>1. CASE g # h
      <4>1. pc'[g] = pc[g] /\ req'[g] = req[g]
        BY <3>1 DEF TInv, ReqOK
      <4>2. Informed(pc[g], req[g])
        BY <2>4, <2>6, <3>1 DEF SInv
      <4>3. Suspended(row)' => Suspended(row)
        BY <2>1, <2>2, StillRuns
      <4>4. Knows(req[g].user) => Knows(req[g].user)'
        BY <2>3, <4>1
      <4> QED
        BY <4>1, <4>2, <4>3, <4>4 DEF Informed, Reads
    <3>2. CASE g = h /\ at = "idle"
      BY <1>1, <3>2 DEF Informed, Reads
    <3>3. CASE g = h /\ at # "idle"
      <4>1. Informed(pc[h], req[h]) /\ ~ (req[h].own /\ Suspended(row))
        BY <2>5, <2>6, <3>3 DEF SInv, Informed
      <4>2. Suspended(row)' => Suspended(row)
        BY <2>1, <2>2, StillRuns
      <4>3. pc'[h] = "find" /\ req'[h] = r /\ r.own = req[h].own
        BY <1>1, <3>3 DEF TInv, ReqOK
      <4> QED
        BY <3>3, <4>1, <4>2, <4>3 DEF Informed, Reads
    <3> QED
      BY <3>1, <3>2, <3>3
  <2>7. ASSUME NEW c \in Sockets, c \notin blind', socket[c] # None
        PROVE  Knows(socket[c])'
    <3>1. Knows(socket[c])
      BY <2>4, <2>7, AccountAssumption DEF SInv
    <3> QED
      BY <2>3, <3>1
  <2> QED
    BY <2>6, <2>7 DEF SInv
<1> QED
  BY <1>2, <1>3

LEMMA UpdateServed ==
  ASSUME TInv, TInv', SInv, NEW h \in Handlers, Update(h)
  PROVE  SInv'
<1>1. Reads(pc[h], req[h]) /\ UNCHANGED <<now, socket>>
  BY DEF Update, Reads
<1>2. PICK u : Write(h, u)
  BY DEF Update
<1>3. CASE req[h].next # "none"
  <2> DEFINE r == Asks(req[h].next, "none", req[h].own, req[h].set, req[h].old)
  <2>1. r.own = req[h].own
    BY AsksForm
  <2>2. req' = [req EXCEPT ![h] = r] /\ pc' = [pc EXCEPT ![h] = "find"]
    BY <1>3 DEF Update, Continue, Goto
  <2> HIDE DEF r
  <2> QED
    BY <1>1, <1>2, <2>1, <2>2, WriteServed
<1>4. CASE req[h].next = "none"
  BY <1>1, <1>2, <1>4, WriteServed DEF Update, Goto
<1> QED
  BY <1>3, <1>4

LEMMA CommitServed ==
  ASSUME TInv, TInv', SInv, NEW h \in Handlers, Commit(h)
  PROVE  SInv'
<1>1. Reads(pc[h], req[h]) /\ UNCHANGED <<now, socket>>
  BY DEF Commit, Reads
<1>2. Write(h, Assign(row, req[h].set))
  BY DEF Commit
<1> QED
  BY <1>1, <1>2, WriteServed DEF Commit, Goto

LEMMA ServedStep == TInv /\ TInv' /\ SInv /\ [Next]_vars => SInv'
<1> SUFFICES ASSUME TInv, TInv', SInv, [Next]_vars PROVE SInv'
  OBVIOUS
<1>1. CASE Tick
  <2>1. now <= now' /\ UNCHANGED <<row, pc, req, socket, blind>>
    BY <1>1, ClockForward DEF Tick
  <2>2. Suspended(row)' => /\ row["status"] = "suspended"
                           /\ row["ends"] = row'["ends"]
    BY <2>1 DEF Suspended
  <2>3. Suspended(row)' => Suspended(row)
    BY <2>1, <2>2, StillRuns
  <2>4. \A v : Knows(v) => Knows(v)'
    BY <2>1, <2>2, NobodySuspended
  <2> QED
    BY <2>1, <2>3, <2>4 DEF SInv, Informed, Reads
<1>2. ASSUME NEW c \in Sockets, Connect(c)
      PROVE  SInv'
  <2>1. UNCHANGED <<now, row, pc, req>>
    BY <1>2 DEF Connect
  <2>2. \A h \in Handlers : h \in blind' <=> h \in blind
    BY <1>2, AccountAssumption DEF Connect
  <2>3. ASSUME NEW d \in Sockets, d \notin blind', socket'[d] # None
        PROVE  Knows(socket[d])'
    <3>1. CASE d = c
      BY <1>2, <2>1, <3>1 DEF Connect, TInv, DataOK, Knows, Suspended
    <3>2. CASE d # c
      BY <1>2, <2>1, <2>3, <3>2
      DEF Connect, TInv, DataOK, SInv, Knows, Suspended
    <3> QED
      BY <3>1, <3>2
  <2> QED
    BY <2>1, <2>2, <2>3 DEF SInv, Informed, Reads, Knows, Suspended
<1>3. ASSUME NEW c \in Sockets, Disconnect(c)
      PROVE  SInv'
  <2>1. UNCHANGED <<now, row, pc, req>>
    BY <1>3 DEF Disconnect
  <2>2. \A h \in Handlers : h \in blind' <=> h \in blind
    BY <1>3, AccountAssumption DEF Disconnect
  <2>3. ASSUME NEW d \in Sockets, d \notin blind', socket'[d] # None
        PROVE  Knows(socket[d])'
    BY <1>3, <2>1, <2>3
    DEF Disconnect, TInv, DataOK, SInv, Knows, Suspended
  <2> QED
    BY <2>1, <2>2, <2>3 DEF SInv, Informed, Reads, Knows, Suspended
<1>4. CASE UNCHANGED vars
  BY <1>4 DEF SInv, Informed, Reads, Knows, Suspended
<1>5. ASSUME NEW h \in Handlers, Run(h)
      PROVE  SInv'
  <2>1. CASE Fail(h)
    BY <2>1, FinishServed DEF Fail
  <2> QED
    BY <1>5, <2>1, GuardServed, FindServed, SelectServed, UpdateServed,
       CommitServed DEF Run
<1> QED
  BY <1>1, <1>2, <1>3, <1>4, <1>5, RequestServed DEF Next

\* A step lifts a suspension as another user decides, or blindly.
ByAnother ==
  Lifted => \E h \in Handlers :
    /\ Writes(h)
    /\ h \in blind \/ (~ req[h].own /\ req[h].op \in Decisions)

LEMMA LiftedStep == TInv /\ SInv /\ [Next]_vars => [ByAnother]_vars
<1> SUFFICES ASSUME TInv, SInv, [Next]_vars, Lifted
             PROVE  \E h \in Handlers :
                      /\ Writes(h)
                      /\ h \in blind
                         \/ (~ req[h].own /\ req[h].op \in Decisions)
  BY DEF ByAnother
<1>1. PICK h \in Handlers : Update(h) \/ Commit(h)
  BY Writers DEF Lifted, Suspended
<1>2. Writes(h) /\ RequestOK(pc[h], req[h]) /\ Reads(pc[h], req[h])
  BY <1>1, WritesOnce DEF TInv, ReqOK, Update, Commit, Reads
<1>3. ASSUME h \notin blind
      PROVE  ~ req[h].own /\ req[h].op \in Decisions
  <2>1. Informed(pc[h], req[h]) /\ Suspended(row)
    BY <1>3 DEF SInv, Lifted
  <2>2. ~ req[h].own
    BY <1>2, <2>1 DEF Informed
  <2>3. pc[h] # "idle"
    BY <1>1 DEF Update, Commit
  <2>4. req[h].op \in Decisions \cup {"verify"}
    BY <1>2, <2>2, <2>3 DEF RequestOK, Fitting
  <2>5. ASSUME req[h].op = "verify"
        PROVE  FALSE
    <3>1. Update(h) /\ pc[h] = "update"
      BY <1>1, <1>2, <2>5 DEF RequestOK, Fitting, Commit, Update
    <3>2. req[h].user["status"] = "suspended" /\ row["status"] = "suspended"
      BY <2>1, <2>5, <3>1 DEF Informed, Knows, Suspended
    <3>3. row'["status"] = "suspended"
      BY <3>1, <3>2, Written DEF Columns
    <3> QED
      BY <3>3 DEF Lifted
  <2> QED
    BY <2>2, <2>4, <2>5
<1> QED
  BY <1>2, <1>3

\* A suspension that runs is lifted by another user's decision, or by who read
\* the account before it; by nothing that the account does of itself.
THEOREM NobodyFreesHimself == Spec => SuspensionServed
<1>1. Spec => [][ByAnother]_vars
  BY TypesInit, TypesStep, ServedInit, ServedStep, LiftedStep, PTL DEF Spec
<1>2. [][ByAnother]_vars => SuspensionServed
  BY DEF ByAnother, SuspensionServed
<1> QED
  BY <1>1, <1>2
===============================================================================

-------------------------------- MODULE Account -------------------------------
(***************************************************************************)
(* One row of the users table, the requests that change it (users.service, *)
(* and the savings of the entity in auth.service) and the guard that reads *)
(* it (authorization.service), over HTTP and over sockets.                 *)
(*                                                                         *)
(* repository.save(entity) is three statements: the find that made the     *)
(* entity, a SELECT that tells which of its loaded columns differ from the *)
(* row, and the UPDATE of those columns.  An entity that was overtaken     *)
(* writes its old columns back.  A transaction that only writes this row   *)
(* is one step: what it locks, others wait for.                            *)
(***************************************************************************)
EXTENDS Naturals, FiniteSets

CONSTANTS
  Handlers,     \* slots for requests in flight: bounds the concurrency
  Sockets,      \* WebSocket connections of the account
  MaxClock,     \* bound on the clock
  MaxRequests,  \* bound on the requests and messages, all in all
  Passwords,    \* two of them tell a change from none
  Updates,      \* the bodies of PATCH users/:id to consider
  None

VARIABLES
  now,     \* the clock, in the unit of suspensions
  row,     \* the row, by column
  pc,      \* per handler, the statement it issues next
  req,     \* per handler, the request
  socket,  \* per socket, the user as the handshake found it, or None
  blind,   \* (history) the handlers and sockets that read the account before
           \* it was last suspended
  made     \* requests and messages so far

vars == <<now, row, pc, req, socket, blind, made>>

Times    == 0 .. MaxClock
Statuses == {"active", "inactive", "suspended", "deactivated", "soft_deleted"}

\* deleted_at is null or not; "ends" is suspension_ends_at, which is set and
\* cleared together with suspended_at and suspension_reason.
Columns == {"status", "deleted", "ends", "is_verified", "password"}

\* (mutant of Loaded) The password column loads like the others.
LoadedAll == Columns

\* What find loads: password is "select: false".
Loaded == Columns \ {"password"}

Values(c) == CASE c = "status"   -> Statuses
               [] c = "ends"     -> Times \cup {None}
               [] c = "password" -> Passwords
               [] OTHER          -> BOOLEAN

IsRow(u) == /\ DOMAIN u = Columns
            /\ \A c \in Columns : u[c] \in Values(c)

\* What a request may assign.
IsSet(set) == /\ DOMAIN set \subseteq Columns
              /\ \A c \in DOMAIN set : set[c] \in Values(c)

ASSUME AccountAssumption ==
  /\ {MaxClock, MaxRequests} \subseteq Nat
  /\ None \notin Nat \cup Handlers \cup Sockets
  /\ Handlers \cap Sockets = {}
  /\ Passwords # {}
  /\ \A dto \in Updates : /\ IsSet(dto) /\ "password" \notin DOMAIN dto
                            /\ dto.status # "suspended"

Steps == {"idle", "guard", "find", "select", "update", "commit"}
Ops   == {"update", "profile", "suspend", "unsuspend", "password", "verify",
          "delete", "restore"}

\* The operations that give the account its status.
Decisions == {"update", "suspend", "unsuspend", "delete", "restore"}

NoSet == [c \in {} |-> None]

\* A request: what it does, the operation to go on with once its suspension is
\* lifted, whether the account itself makes it, the columns it sets, the old
\* password given; later the entity it found and the columns that its UPDATE
\* will write.
Asks(op, next, own, set, old) ==
  [op |-> op, set |-> set, own |-> own, next |-> next, old |-> old,
   user |-> None, cols |-> {}]

NoRequest == Asks("none", "none", FALSE, NoSet, None)

\* A row as it is created, by registration (not verified) or by an
\* administrator (verified, perhaps).
NewRow(verified) ==
  [c \in Columns |-> CASE c = "status"      -> "active"
                       [] c = "deleted"     -> FALSE
                       [] c = "ends"        -> None
                       [] c = "is_verified" -> verified
                       [] c = "password"    -> CHOOSE p \in Passwords : TRUE]

Init ==
  /\ now    = 0
  /\ row    \in {NewRow(v) : v \in BOOLEAN}
  /\ pc     = [h \in Handlers |-> "idle"]
  /\ req    = [h \in Handlers |-> NoRequest]
  /\ socket = [c \in Sockets |-> None]
  /\ blind  = {}
  /\ made   = 0

-------------------------------------------------------------------------------
Goto(h, to) == pc' = [pc EXCEPT ![h] = to]

\* (mutant of Finish) The request keeps what it holds.
FinishHolding(h) ==
  /\ Goto(h, "idle")
  /\ blind' = blind \ {h}
  /\ UNCHANGED req

Finish(h) ==
  /\ Goto(h, "idle")
  /\ req' = [req EXCEPT ![h] = NoRequest]
  /\ blind' = blind \ {h}

\* Handler h starts on request r at step first; b says that it goes by what
\* was read before the suspension.
Begin(h, r, first, b) ==
  /\ pc[h] = "idle"
  /\ made < MaxRequests
  /\ made' = made + 1
  /\ Goto(h, first)
  /\ req' = [req EXCEPT ![h] = r]
  /\ blind' = IF b THEN blind \cup {h} ELSE blind

\* The columns of u, with those of set in their place: Object.assign.
Assign(u, set) ==
  [c \in Columns |-> IF c \in DOMAIN set THEN set[c] ELSE u[c]]

\* The handlers that hold something they read of the account.
HasRead(h) == \/ pc[h] \in {"select", "update", "commit"}
              \/ pc[h] = "find" /\ req[h].own

\* h writes u.  If that suspends the account, all that read it before are
\* blind to it, h itself if it goes on.
Write(h, u) ==
  /\ row' = u
  /\ LET suspends == /\ u["status"] = "suspended"
                     /\ \/ row["status"] # "suspended"
                        \/ row["ends"] # u["ends"]
         reading  == {g \in Handlers : HasRead(g)}
         open     == {c \in Sockets : socket[c] # None}
         written  == IF suspends THEN reading \cup open ELSE blind
     IN  blind' = IF pc'[h] = "idle" THEN written \ {h} ELSE written

-------------------------------------------------------------------------------
(***************************************************************************)
(* The guard, on a user that was read now (HTTP) or at the handshake.      *)
(***************************************************************************)

\* (mutant of Lapsed) The comparison is the wrong way round.
NotLapsed(u) ==
  u["status"] = "suspended" /\ u["ends"] # None /\ now <= u["ends"]

Lapsed(u) == u["status"] = "suspended" /\ u["ends"] # None /\ now > u["ends"]

CheckSoftDelete(u) == ~ u["deleted"]

CheckAccountStatus(u) == u["status"] \in {"active", "inactive"} \/ Lapsed(u)

CheckEmailVerification(u) == u["is_verified"]

\* authorize, for a route without requirements of its own, up to the checks
\* of the second factor and of permissions.
Allowed(u) ==
  CheckSoftDelete(u) /\ CheckAccountStatus(u) /\ CheckEmailVerification(u)

\* checkAccountStatus lifts a suspension that ran out before the verification
\* is looked at.
Lifts(u) == CheckSoftDelete(u) /\ Lapsed(u)

Lift == [status |-> "active", ends |-> None]

\* The request of a signed-in user: JwtStrategy.validate reads the user, the
\* two guards go by what it read.
Guard(h) ==
  LET r == req[h] IN
  /\ pc[h] = "guard"
  /\ \/ /\ Lifts(row)
        /\ Goto(h, "find")
        /\ req' = [req EXCEPT ![h] =
                     Asks("lift", IF Allowed(row) THEN r.op ELSE "none",
                          r.own, r.set, r.old)]
        /\ UNCHANGED blind
     \/ /\ Allowed(row) /\ ~ Lifts(row)
        /\ Goto(h, "find")
        /\ UNCHANGED <<req, blind>>
     \/ ~ Allowed(row) /\ ~ Lifts(row) /\ Finish(h)
  /\ UNCHANGED <<now, row, socket, made>>

\* WsAuthMiddleware: the handshake asks for a valid token and an existing row.
Connect(c) ==
  /\ socket[c] = None
  /\ socket' = [socket EXCEPT ![c] = row]
  /\ blind'  = blind \ {c}
  /\ UNCHANGED <<now, row, pc, req, made>>

Disconnect(c) ==
  /\ socket[c] # None
  /\ socket' = [socket EXCEPT ![c] = None]
  /\ blind'  = blind \ {c}
  /\ UNCHANGED <<now, row, pc, req, made>>

\* A message whose guard lifts the suspension of the handshake's user.  (The
\* other messages leave the account alone.)
Message(h, c) ==
  /\ socket[c] # None
  /\ Lifts(socket[c])
  /\ Begin(h, Asks("lift", "none", TRUE, NoSet, None), "find", c \in blind)
  /\ UNCHANGED <<now, row, socket>>

-------------------------------------------------------------------------------
(***************************************************************************)
(* Requests.  own: of the account itself, past its own guard; otherwise of *)
(* another user, whose role holds the permission.                          *)
(***************************************************************************)
Start(h, op, own, set, old) ==
  /\ Begin(h, Asks(op, "none", own, set, old),
           IF own THEN "guard" ELSE "find", FALSE)
  /\ UNCHANGED <<now, row, socket>>

UpdateUser(h, own, dto) == Start(h, "update", own, dto, None)

SuspendUser(h, own, t) ==
  Start(h, "suspend", own, [status |-> "suspended", ends |-> t], None)

UnsuspendUser(h, own) == Start(h, "unsuspend", own, Lift, None)

\* updateMe; the savings of changeEmail are of this kind too, for the columns
\* kept here.
UpdateMe(h) == Start(h, "profile", TRUE, NoSet, None)

ChangePassword(h, old, new) ==
  Start(h, "password", TRUE, [password |-> new], old)

\* confirmEmailByLink, confirmEmailByOtp, for a code that is right: public.
ConfirmEmail(h) == Start(h, "verify", FALSE, [is_verified |-> TRUE], None)

SoftDelete(h, own) ==
  Start(h, "delete", own, [status |-> "soft_deleted", deleted |-> TRUE], None)

Restore(h, own) ==
  Start(h, "restore", own, [status |-> "active", deleted |-> FALSE], None)

\* By an administrator, of any account, and by the account itself.
SoftDeleteUser(h, own) == SoftDelete(h, own)

RestoreUser(h, own)    == Restore(h, own)

SoftDeleteMe(h)        == SoftDelete(h, TRUE)

RestoreMe(h)           == Restore(h, TRUE)

-------------------------------------------------------------------------------
\* Only the restoring requests ask for deleted rows too; confirming is for
\* users that are not verified, and a change of password compares the row's
\* with the old and the new one.
Accepts(r) ==
  /\ r.op = "restore" \/ ~ row["deleted"]
  /\ r.op = "verify" => ~ row["is_verified"]
  /\ r.op = "password" => /\ r.old = row["password"]
                          /\ r.set["password"] # row["password"]

\* What the operation sets; lifting is unsuspendUser again.
Set(r) == IF r.op = "lift" THEN Lift ELSE r.set

Find(h) ==
  LET r == req[h] IN
  /\ pc[h] = "find"
  /\ \/ /\ Accepts(r) /\ r.op \in {"delete", "restore"}
        /\ Goto(h, "commit")
        /\ UNCHANGED <<req, blind>>
     \/ /\ Accepts(r) /\ r.op \notin {"delete", "restore"}
        /\ Goto(h, "select")
        /\ req' = [req EXCEPT ![h].user = Assign(row, Set(r))]
        /\ UNCHANGED blind
     \/ ~ Accepts(r) /\ Finish(h)
  /\ UNCHANGED <<now, row, socket, made>>

\* The columns that save will write: those it loaded that differ, and a
\* password that was assigned.
Changed(r) ==
  {c \in Loaded : r.user[c] # row[c]} \cup (DOMAIN r.set \cap {"password"})

\* A request whose suspension was lifted goes on to its handler.
Continue(h) ==
  LET r == req[h] IN
  /\ Goto(h, "find")
  /\ req' = [req EXCEPT ![h] = Asks(r.next, "none", r.own, r.set, r.old)]

SelectSaved(h) ==
  LET r    == req[h]
      cols == IF r.op = "lift" THEN Changed(r) \ {"password"} ELSE Changed(r)
  IN
  /\ pc[h] = "select"
  /\ \/ /\ cols # {}
        /\ Goto(h, "update")
        /\ req' = [req EXCEPT ![h].cols = cols]
        /\ UNCHANGED blind
     \/ cols = {} /\ r.next # "none" /\ Continue(h) /\ UNCHANGED blind
     \/ cols = {} /\ r.next = "none" /\ Finish(h)
  /\ UNCHANGED <<now, row, socket, made>>

Update(h) ==
  LET r == req[h] IN
  /\ pc[h] = "update"
  /\ IF r.next # "none"
       THEN Continue(h)
       ELSE Goto(h, "idle") /\ req' = [req EXCEPT ![h] = NoRequest]
  /\ Write(h, [c \in Columns |-> IF c \in r.cols THEN r.user[c] ELSE row[c]])
  /\ UNCHANGED <<now, socket, made>>

\* The transaction of a deletion or a restoration: two UPDATEs.
Commit(h) ==
  /\ pc[h] = "commit"
  /\ Goto(h, "idle")
  /\ req' = [req EXCEPT ![h] = NoRequest]
  /\ Write(h, Assign(row, req[h].set))
  /\ UNCHANGED <<now, socket, made>>

\* A statement fails, or the process ends.
Fail(h) ==
  /\ pc[h] # "idle"
  /\ Finish(h)
  /\ UNCHANGED <<now, row, socket, made>>

Tick ==
  /\ now < MaxClock
  /\ now' = now + 1
  /\ UNCHANGED <<row, pc, req, socket, blind, made>>

-------------------------------------------------------------------------------
Request(h) ==
  \/ \E own \in BOOLEAN :
       \/ \E dto \in Updates : UpdateUser(h, own, dto)
       \/ \E t \in Times : SuspendUser(h, own, t)
       \/ UnsuspendUser(h, own)
       \/ SoftDeleteUser(h, own) \/ RestoreUser(h, own)
  \/ SoftDeleteMe(h) \/ RestoreMe(h)
  \/ UpdateMe(h) \/ ConfirmEmail(h)
  \/ \E old, new \in Passwords : ChangePassword(h, old, new)
  \/ \E c \in Sockets : Message(h, c)

Run(h) ==
  Guard(h) \/ Find(h) \/ SelectSaved(h) \/ Update(h) \/ Commit(h) \/ Fail(h)

Next ==
  \/ Tick
  \/ \E c \in Sockets : Connect(c) \/ Disconnect(c)
  \/ \E h \in Handlers : Request(h) \/ Run(h)

Spec == Init /\ [][Next]_vars

-------------------------------------------------------------------------------
\* Every variable has its type; what a handler holds fits its step.
TypeOK ==
  /\ now \in Times
  /\ IsRow(row)
  /\ pc \in [Handlers -> Steps]
  /\ \A h \in Handlers :
       /\ req[h].op \in Ops \cup {"lift", "none"}
       /\ req[h].own \in BOOLEAN
       /\ req[h].cols \subseteq DOMAIN req[h].set \cup Loaded
       /\ pc[h] \in {"select", "update"} => IsRow(req[h].user)
       /\ pc[h] = "idle" <=> req[h] = NoRequest
  /\ \A c \in Sockets : socket[c] = None \/ IsRow(socket[c])
  /\ blind \subseteq Handlers \cup Sockets
  /\ made \in 0 .. MaxRequests

Writes(h) == pc[h] \in {"update", "commit"} /\ pc'[h] # pc[h]

\* A suspension whose end has not come.
Suspended(u) ==
  u["status"] = "suspended" /\ (u["ends"] = None \/ now <= u["ends"])

Lifted == Suspended(row) /\ row'["status"] # "suspended"

\* Nobody gets out of a suspension by himself: before its end only another
\* user's decision lifts it, or a request (or a socket) that read the account
\* before the suspension.  Whatever saves, lazy liftings, deletions and
\* restorations the account itself asks for afterwards, it stays.
SuspensionServed ==
  [][Lifted => \E h \in Handlers :
       /\ Writes(h)
       /\ h \in blind \/ (~ req[h].own /\ req[h].op \in Decisions)]_vars

\* Saves that were overtaken may write back any column but one: the password
\* is what the last request to change it made it, since an entity does not
\* load it ("select: false").
PasswordKept ==
  [][row'["password"] # row["password"] =>
       \E h \in Handlers : /\ Writes(h)
                           /\ req[h].op = "password"
                           /\ row'["password"] = req[h].set["password"]]_vars
===============================================================================

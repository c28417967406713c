---------------------------- MODULE RecoveryProofs ----------------------------
(***************************************************************************)
(* Theorems about Recovery, for any number of codes, addresses, requests   *)
(* in flight and requests in all.                                          *)
(*                                                                         *)
(* The argument.  Every change of the address starts an era.  A code or    *)
(* link that is still of use (and not late) is of the present era          *)
(* (NothingOutlives), so the address it went to is the present one, if it  *)
(* does not ask for a change (SentHere).  A request that began in the      *)
(* present era holds what was so then, since nothing changed the address   *)
(* since (InStep).                                                         *)
(*                                                                         *)
(* OneOfAKind.  Unless they race, one request at most sends a key of the   *)
(* kind, and between its deletion and its insertion there is none (Alone). *)
(***************************************************************************)
EXTENDS Recovery, FiniteSetTheorems, TLAPS

Usage == {"reset", "confirm", "change"}

Requests == [op : {"none", "send"} \cup Usage, kind : Kinds \cup {None},
             to : Addresses \cup {None}, k : Keys \cup {None},
             right : BOOLEAN, fresh : BOOLEAN, user : Rows \cup {None},
             cols : SUBSET Columns, era : Nat]

\* What a handler at each step is about.
Fitting ==
  \A h \in Handlers :
    /\ pc[h] = "idle" <=> req[h].op = "none"
    /\ pc[h] \in {"check", "delete", "insert", "mail"} =>
         req[h].op = "send" /\ req[h].kind \in Kinds /\ req[h].to \in Addresses
    /\ pc[h] = "mail" => req[h].k \in Keys /\ issue[req[h].k] # None
    /\ pc[h] \in {"user", "drop", "compare", "select", "save", "clear"} =>
         req[h].op \in Usage /\ req[h].k \in Keys /\ issue[req[h].k] # None
    /\ pc[h] = "compare" => req[h].op = "reset"
    /\ pc[h] \in {"select", "save"} => req[h].op # "reset"

TInv == TypeOK /\ req \in [Handlers -> Requests] /\ Fitting

\* What is of use and asks for no change went to the present address.
SentHere ==
  \A k \in kept \ late : issue[k].kind # "change" => issue[k].to = row.email

\* What h holds, if it began in the present era: what it sends goes to the
\* present address; the key it uses went there; the row that it saves has
\* that address, or the one that the key was sent to.
InStep(h) ==
  LET r == req[h] IN
  /\ r.op = "send" /\ r.kind # "change" => r.to = row.email
  /\ r.op = "confirm" /\ pc[h] \in {"user", "select", "save"} /\ r.k \notin late
       => issue[r.k].to = row.email
  /\ r.op = "confirm" /\ pc[h] \in {"select", "save"}
       => r.user.email = row.email
  /\ r.op = "change" /\ pc[h] = "save" /\ "email" \notin r.cols
       => r.user.email = row.email

EraInv ==
  \A h \in Handlers : /\ req[h].era <= era
                      /\ req[h].era = era => InStep(h)

\* A request that changes the address saves the one its link was sent to.
Target ==
  \A h \in Handlers :
    req[h].op = "change" /\ pc[h] \in {"select", "save"}
      => req[h].user.email = issue[req[h].k].to

IInv == NothingOutlives /\ SentHere /\ EraInv /\ Target

USE DEF vars, mail, history

-------------------------------------------------------------------------------
(***************************************************************************)
(* Requests, as records.                                                   *)
(***************************************************************************)
LEMMA NoRequestType ==
  NoRequest \in Requests /\ NoRequest.op = "none" /\ NoRequest.era = 0
  BY DEF NoRequest, Requests, Columns

LEMMA FieldTypes ==
  ASSUME NEW r \in Requests
  PROVE  /\ r.op \in {"none", "send"} \cup Usage
         /\ r.kind \in Kinds \cup {None} /\ r.to \in Addresses \cup {None}
         /\ r.k \in Keys \cup {None}
         /\ r.user \in Rows \cup {None} /\ r.cols \in SUBSET Columns
         /\ r.era \in Nat
  BY DEF Requests

LEMMA SendType ==
  ASSUME NEW kind \in Kinds, NEW to \in Addresses, era \in Nat
  PROVE  LET r == Sends(kind, to) IN
         /\ r \in Requests
         /\ r.op = "send" /\ r.kind = kind /\ r.to = to /\ r.era = era
  BY DEF Sends, NoRequest, Requests, Columns

LEMMA UseType ==
  ASSUME NEW kind \in Kinds, NEW k \in Keys,
         NEW right \in BOOLEAN, NEW fresh \in BOOLEAN, era \in Nat
  PROVE  LET r == Uses(kind, k, right, fresh) IN
         /\ r \in Requests /\ r.op \in Usage
         /\ r.op = "confirm" => kind # "change"
         /\ r.kind = kind /\ r.k = k /\ r.era = era
<1>1. Purpose(kind) \in Usage /\ (Purpose(kind) = "confirm" => kind # "change")
  BY DEF Purpose, Usage, Confirms
<1> QED
  BY <1>1 DEF Uses, NoRequest, Requests, Columns, Usage

\* The handlers are sendings and uses.
LEMMA RequestForms ==
  ASSUME NEW h, Request(h), row \in Rows
  PROVE  \/ \E kind \in Kinds, to \in Addresses :
              (kind # "change" => to = row.email) /\ StartSend(h, kind, to)
         \/ \E kind \in Kinds, k \in Keys, right, fresh \in BOOLEAN :
              StartUse(h, kind, k, right, fresh)
<1>1. /\ row.email \in Addresses /\ TRUE \in BOOLEAN /\ FALSE \in BOOLEAN
      /\ {"reset_otp", "reset_link", "verify_otp", "verify_link", "change"}
           \subseteq Kinds
  BY DEF Rows, Kinds, Codes, Links
<1> QED
  BY <1>1
  DEF Request, ForgetPasswordByOtp, ForgetPasswordByLink,
      SendVerificationEmailByOtp, SendVerificationEmailByLink,
      SendChnageEmailRequest, ResetPasswordByOtp, ResetPasswordByLink,
      ConfirmEmailByOtp, ConfirmEmailByLink, ChangeEmail

LEMMA KeyType ==
  ASSUME NEW r \in Requests, NEW k \in Keys,
         NEW q, q = [r EXCEPT !.k = k]
  PROVE  /\ q \in Requests /\ q.k = k
         /\ q.op = r.op /\ q.kind = r.kind /\ q.to = r.to /\ q.era = r.era
  BY DEF Requests

LEMMA UserType ==
  ASSUME NEW r \in Requests, NEW u \in Rows,
         NEW q, q = [r EXCEPT !.user = u]
  PROVE  /\ q \in Requests /\ q.user = u
         /\ q.op = r.op /\ q.kind = r.kind /\ q.k = r.k /\ q.era = r.era
         /\ q.to = r.to
  BY DEF Requests

LEMMA ColsType ==
  ASSUME NEW r \in Requests, NEW cols \in SUBSET Columns
  PROVE  LET q == [r EXCEPT !.cols = cols] IN
         /\ q \in Requests /\ q.cols = cols
         /\ q.op = r.op /\ q.kind = r.kind /\ q.k = r.k /\ q.era = r.era
         /\ q.to = r.to /\ q.user = r.user
  BY DEF Requests

\* What a save leaves of the row and of the entity.
LEMMA SavedType ==
  ASSUME NEW r \in Requests, r.user \in Rows, row \in Rows
  PROVE  /\ Saved(r) \in Rows
         /\ Saved(r).email = IF "email" \in r.cols THEN r.user.email
                             ELSE row.email
  BY DEF Saved, Rows, Columns

-------------------------------------------------------------------------------
(***************************************************************************)
(* Types.                                                                  *)
(***************************************************************************)
LEMMA TypesInit == Init => TInv
  BY RecoveryAssumption, NoRequestType
  DEF Init, TInv, TypeOK, Fitting, Steps, Ages, Kinds

LEMMA TypesStep == TInv /\ [Next]_vars => TInv'
<1> SUFFICES ASSUME TInv, [Next]_vars
             PROVE  TInv'
  OBVIOUS
<1> USE RecoveryAssumption, NoRequestType
    DEF TInv, TypeOK, Fitting, Steps, Goto, Begin, Finish
<1>1. CASE Withdraw
  BY <1>1 DEF Withdraw, Rows
<1>2. ASSUME NEW a \in Addresses, Take(a)
      PROVE  TInv'
  BY <1>2 DEF Take
<1>3. ASSUME NEW k \in Keys, Age(k)
      PROVE  TInv'
  BY <1>3 DEF Age, Ages, Expired
<1>4. ASSUME NEW h \in Handlers, NEW kind \in Kinds, NEW to \in Addresses,
             StartSend(h, kind, to)
      PROVE  TInv'
  BY <1>4, SendType DEF StartSend
<1>5. ASSUME NEW h \in Handlers, NEW kind \in Kinds, NEW k \in Keys,
             NEW right \in BOOLEAN, NEW fresh \in BOOLEAN,
             StartUse(h, kind, k, right, fresh)
      PROVE  TInv'
  <2>1. issue[k] \in Issues /\ issue[k] # None /\ issue[k].kind \in Kinds
    BY <1>5 DEF StartUse, Issues
  <2> QED
    BY <1>5, <2>1, UseType DEF StartUse, Usage
<1>6. ASSUME NEW h \in Handlers, CheckFree(h)
      PROVE  TInv'
  BY <1>6 DEF CheckFree
<1>7. ASSUME NEW h \in Handlers, DeleteOld(h)
      PROVE  TInv'
  BY <1>7, FieldTypes DEF DeleteOld, Of
<1>8. ASSUME NEW h \in Handlers, NEW k \in Keys, Insert(h, k)
      PROVE  TInv'
  <2> DEFINE r == [req[h] EXCEPT !.k = k]
  <2>1. req' = [req EXCEPT ![h] = r]
    BY <1>8 DEF Insert
  <2>3. /\ r \in Requests /\ r.k = k /\ r.op = req[h].op
        /\ r.kind = req[h].kind /\ r.to = req[h].to
    BY KeyType
  <2> HIDE DEF r
  <2>2. [kind |-> req[h].kind, to |-> req[h].to, era |-> req[h].era] \in Issues
    BY <1>8, FieldTypes DEF Insert, Issues
  <2> DEFINE i == [kind |-> req[h].kind, to |-> req[h].to, era |-> req[h].era]
  <2>4. /\ pc[h] = "insert" /\ pc' = [pc EXCEPT ![h] = "mail"]
        /\ issue[k] = None /\ issue' = [issue EXCEPT ![k] = i]
        /\ kept' = kept \cup {k} /\ late' \in {late, late \cup {k}}
        /\ UNCHANGED <<row, taken, mailed, age, era, raced, made>>
    BY <1>8 DEF Insert
  <2>5. i \in Issues /\ i # None
    BY <2>2, <2>4 DEF Issues
  <2> HIDE DEF i
  <2>6. TypeOK'
    BY <2>1, <2>3, <2>4, <2>5
  <2>7. Fitting'
    BY <2>1, <2>3, <2>4, <2>5
  <2> QED
    BY <2>1, <2>3, <2>6, <2>7
<1>9. ASSUME NEW h \in Handlers, Mail(h)
      PROVE  TInv'
  BY <1>9 DEF Mail
<1>10. ASSUME NEW h \in Handlers, FindUser(h)
       PROVE  TInv'
  <2>1. CASE req' = [req EXCEPT ![h].user = Edit(req[h])] /\ Goto(h, "select")
             /\ req[h].op # "reset"
    <3>1. Edit(req[h]) \in Rows
      BY <1>10, <2>1 DEF Edit, Rows, Usage, Issues, FindUser
    <3> DEFINE r == [req[h] EXCEPT !.user = Edit(req[h])]
    <3>2. req' = [req EXCEPT ![h] = r]
      BY <2>1
    <3>3. /\ r \in Requests /\ r.user = Edit(req[h])
          /\ r.op = req[h].op /\ r.k = req[h].k
      BY <3>1, UserType
    <3> HIDE DEF r
    <3> QED
      BY <1>10, <2>1, <3>1, <3>2, <3>3 DEF FindUser
  <2>2. CASE Finish(h)
    BY <1>10, <2>2 DEF FindUser
  <2>3. CASE Goto(h, "drop") /\ UNCHANGED req
    BY <1>10, <2>3 DEF FindUser
  <2>4. CASE Goto(h, "compare") /\ UNCHANGED req /\ req[h].op = "reset"
    BY <1>10, <2>4 DEF FindUser
  <2> QED
    BY <1>10, <2>1, <2>2, <2>3, <2>4 DEF FindUser
<1>11. ASSUME NEW h \in Handlers, DropKey(h)
       PROVE  TInv'
  BY <1>11 DEF DropKey
<1>12. ASSUME NEW h \in Handlers, CompareReset(h)
       PROVE  TInv'
  BY <1>12 DEF CompareReset
<1>13. ASSUME NEW h \in Handlers, SelectSaved(h)
       PROVE  TInv'
  <2>0. PICK cols \in SUBSET Columns : req' = [req EXCEPT ![h].cols = cols]
    BY <1>13 DEF SelectSaved
  <2> DEFINE r == [req[h] EXCEPT !.cols = cols]
  <2>1. req' = [req EXCEPT ![h] = r]
    BY <2>0
  <2>3. /\ r \in Requests /\ r.op = req[h].op
        /\ r.k = req[h].k /\ r.user = req[h].user
    <3>1. req[h] \in Requests
      OBVIOUS
    <3> QED
      BY ONLY <3>1, cols \in SUBSET Columns, ColsType
  <2> HIDE DEF r
  <2>4. /\ pc[h] = "select"
        /\ \/ pc' = [pc EXCEPT ![h] = "clear"]
           \/ pc' = [pc EXCEPT ![h] = "save"]
        /\ UNCHANGED <<row, taken, mail, history, made>>
    BY <1>13 DEF SelectSaved
  <2> QED
    BY <2>1, <2>3, <2>4
<1>14. ASSUME NEW h \in Handlers, SaveChange(h)
       PROVE  TInv'
  BY <1>14, SavedType DEF SaveChange
<1>15. ASSUME NEW h \in Handlers, SaveConfirmed(h)
       PROVE  TInv'
  BY <1>15, SavedType DEF SaveConfirmed
<1>16. ASSUME NEW h \in Handlers, ClearKeys(h)
       PROVE  TInv'
  BY <1>16 DEF ClearKeys
<1>17. ASSUME NEW h \in Handlers, Fail(h)
       PROVE  TInv'
  BY <1>17 DEF Fail
<1>18. CASE UNCHANGED vars
  BY <1>18
<1>19. ASSUME NEW h \in Handlers, Request(h)
       PROVE  TInv'
  <2>1. \A kind \in Kinds, to \in Addresses : StartSend(h, kind, to) => TInv'
    BY <1>4
  <2>2. \A kind \in Kinds, k \in Keys, right, fresh \in BOOLEAN :
          StartUse(h, kind, k, right, fresh) => TInv'
    BY <1>5
  <2>3. row \in Rows
    OBVIOUS
  <2> HIDE DEF TInv
  <2> QED
    BY <1>19, <2>1, <2>2, <2>3, RequestForms
<1>20. ASSUME NEW h \in Handlers, Run(h)
       PROVE  TInv'
  BY <1>6, <1>7, <1>8, <1>9, <1>10, <1>11, <1>12, <1>13, <1>14, <1>15, <1>16,
     <1>17, <1>20 DEF Run
<1> QED
  BY <1>1, <1>2, <1>3, <1>18, <1>19, <1>20 DEF Next

\* Every variable has its type.
THEOREM TypeCorrect == Spec => []TypeOK
<1>1. TInv => TypeOK
  BY DEF TInv
<1> QED
  BY <1>1, TypesInit, TypesStep, PTL DEF Spec

-------------------------------------------------------------------------------
(***************************************************************************)
(* The invariant.                                                          *)
(***************************************************************************)
LEMMA InvInit == Init => IInv
  BY NoRequestType
  DEF Init, IInv, NothingOutlives, SentHere, EraInv, InStep, Target

\* A step of h that leaves the account alone, adds no key and leaves h in
\* step keeps the invariant.
LEMMA StepOfOne ==
  ASSUME TInv, IInv, NEW h \in Handlers, NEW r \in Requests, NEW at \in Steps,
         req' = [req EXCEPT ![h] = r], pc' = [pc EXCEPT ![h] = at],
         kept' \subseteq kept, UNCHANGED <<row, issue, era, late>>,
         r.era <= era, r.era = era => InStep(h)',
         r.op = "change" /\ at \in {"select", "save"}
           => r.user.email = issue[r.k].to
  PROVE  IInv'
<1> USE DEF TInv, IInv, TypeOK
<1>1. NothingOutlives' /\ SentHere'
  BY DEF NothingOutlives, SentHere
<1>2. ASSUME NEW g \in Handlers, g # h
      PROVE  /\ req'[g] = req[g] /\ pc'[g] = pc[g]
             /\ InStep(g) => InStep(g)'
  BY <1>2 DEF InStep
<1>3. req'[h] = r /\ pc'[h] = at
  OBVIOUS
<1>4. EraInv'
  BY <1>2, <1>3 DEF EraInv
<1>5. Target'
  BY <1>2, <1>3 DEF Target
<1> QED
  BY <1>1, <1>4, <1>5

\* So does one after which h is at rest.
LEMMA StepToRest ==
  ASSUME TInv, IInv, NEW h \in Handlers, Finish(h),
         kept' \subseteq kept, UNCHANGED <<row, issue, era, late>>
  PROVE  IInv'
<1>1. InStep(h)'
  BY NoRequestType DEF Finish, InStep, TInv
<1>2. NoRequest.era <= era /\ "idle" \in Steps
  BY NoRequestType DEF TInv, TypeOK, Steps
<1> QED
  BY <1>1, <1>2, NoRequestType, StepOfOne DEF Finish, Goto
LEMMA InvStep == TInv /\ IInv /\ [Next]_vars => IInv'
<1> SUFFICES ASSUME TInv, IInv, [Next]_vars
             PROVE  IInv'
  OBVIOUS
<1> USE DEF TInv, IInv, TypeOK, Fitting
<1>1. CASE Withdraw
  BY <1>1 DEF Withdraw, NothingOutlives, SentHere, EraInv, InStep, Target, Rows
<1>2. ASSUME NEW a \in Addresses, Take(a)
      PROVE  IInv'
  BY <1>2 DEF Take, NothingOutlives, SentHere, EraInv, InStep, Target
<1>3. ASSUME NEW k \in Keys, Age(k)
      PROVE  IInv'
  BY <1>3 DEF Age, NothingOutlives, SentHere, EraInv, InStep, Target
<1>4. ASSUME NEW h \in Handlers, NEW kind \in Kinds, NEW to \in Addresses,
             kind # "change" => to = row.email, StartSend(h, kind, to)
      PROVE  IInv'
  <2> DEFINE r == Sends(kind, to)
  <2>1. /\ r \in Requests
        /\ r.op = "send" /\ r.kind = kind /\ r.to = to /\ r.era = era
    BY SendType
  <2>2. PICK at \in {"check", "delete"} : pc' = [pc EXCEPT ![h] = at]
    BY <1>4 DEF StartSend, Begin, Goto
  <2>3. /\ req' = [req EXCEPT ![h] = r]
        /\ UNCHANGED <<row, issue, kept, era, late>>
        /\ kind # "change" => to = row.email
    BY <1>4 DEF StartSend, Begin
  <2> HIDE DEF r
  <2>4. InStep(h)'
    BY <2>1, <2>2, <2>3 DEF InStep
  <2>5. /\ at \in Steps /\ at \notin {"select", "save"} /\ kept' \subseteq kept
        /\ r.era <= era
    BY <2>1, <2>3 DEF Steps
  <2> HIDE DEF TInv, IInv
  <2> QED
    BY <2>1, <2>2, <2>3, <2>4, <2>5, StepOfOne
<1>5. ASSUME NEW h \in Handlers, NEW kind \in Kinds, NEW k \in Keys,
             NEW right \in BOOLEAN, NEW fresh \in BOOLEAN,
             StartUse(h, kind, k, right, fresh)
      PROVE  IInv'
  <2> DEFINE r == Uses(kind, k, right, fresh)
  <2>1. issue[k].kind = kind
    BY <1>5 DEF StartUse, Fits
  <2>2. /\ r \in Requests /\ r.op \in Usage
        /\ r.op = "confirm" => kind # "change"
        /\ r.k = k /\ r.era = era
    BY UseType
  <2>3. PICK at \in {"drop", "user"} : pc' = [pc EXCEPT ![h] = at]
    BY <1>5 DEF StartUse, Begin, Goto
  <2>4. /\ req' = [req EXCEPT ![h] = r] /\ k \in kept
        /\ UNCHANGED <<row, issue, kept, era, late>>
    BY <1>5 DEF StartUse, Begin
  <2> HIDE DEF r
  <2>5. InStep(h)'
    BY <2>1, <2>2, <2>3, <2>4 DEF InStep, SentHere, Usage
  <2>6. /\ at \in Steps /\ at \notin {"select", "save"} /\ kept' \subseteq kept
        /\ r.era <= era
    BY <2>2, <2>4 DEF Steps
  <2> HIDE DEF TInv, IInv
  <2> QED
    BY <2>2, <2>3, <2>4, <2>5, <2>6, StepOfOne
<1>6. ASSUME NEW h \in Handlers, CheckFree(h)
      PROVE  IInv'
  <2>1. CASE Finish(h)
    BY <1>6, <2>1, StepToRest DEF CheckFree
  <2>2. CASE Goto(h, "insert") /\ UNCHANGED req
    BY <1>6, <2>2
    DEF CheckFree, Goto, NothingOutlives, SentHere, EraInv, InStep, Target
  <2> QED
    BY <1>6, <2>1, <2>2 DEF CheckFree
<1>7. ASSUME NEW h \in Handlers, DeleteOld(h)
      PROVE  IInv'
  <2>1. /\ kept' \subseteq kept /\ UNCHANGED <<row, issue, req, era, late>>
        /\ pc[h] = "delete" /\ pc' = [pc EXCEPT ![h] = "insert"]
    BY <1>7 DEF DeleteOld, Goto
  <2> QED
    BY <2>1 DEF NothingOutlives, SentHere, EraInv, InStep, Target
<1>8. ASSUME NEW h \in Handlers, NEW k \in Keys, Insert(h, k)
      PROVE  IInv'
  <2> DEFINE r == [req[h] EXCEPT !.k = k]
             i == [kind |-> req[h].kind, to |-> req[h].to, era |-> req[h].era]
  <2>1. req' = [req EXCEPT ![h] = r]
    BY <1>8 DEF Insert
  <2>2. /\ r \in Requests /\ r.k = k /\ r.op = req[h].op
        /\ r.kind = req[h].kind /\ r.to = req[h].to /\ r.era = req[h].era
    BY KeyType
  <2>3. /\ i.kind = req[h].kind /\ i.to = req[h].to /\ i.era = req[h].era
    OBVIOUS
  <2>4. /\ pc[h] = "insert" /\ pc' = [pc EXCEPT ![h] = "mail"]
        /\ issue[k] = None /\ issue' = [issue EXCEPT ![k] = i]
        /\ kept' = kept \cup {k}
        /\ late' = IF req[h].era # era THEN late \cup {k} ELSE late
        /\ row' = row /\ era' = era
    BY <1>8 DEF Insert, Goto
  <2> HIDE DEF r, i
  <2>5. k \notin kept /\ req[h].op = "send"
    BY <2>4
  <2>6. NothingOutlives'
    BY <2>3, <2>4, <2>5 DEF NothingOutlives
  <2>7. SentHere'
    BY <2>3, <2>4, <2>5 DEF SentHere, EraInv, InStep
  <2>8. ASSUME NEW g \in Handlers
        PROVE  req'[g].era <= era' /\ (req'[g].era = era' => InStep(g)')
    <3>1. CASE g = h
      BY <2>1, <2>2, <2>4, <2>5, <3>1 DEF EraInv, InStep
    <3>2. CASE g # h
      BY <2>1, <2>4, <3>2 DEF EraInv, InStep
    <3> QED
      BY <3>1, <3>2
  <2>9. Target'
    BY <2>1, <2>2, <2>4, <2>5 DEF Target
  <2> QED
    BY <2>6, <2>7, <2>8, <2>9 DEF EraInv
<1>9. ASSUME NEW h \in Handlers, Mail(h)
      PROVE  IInv'
  BY <1>9, StepToRest DEF Mail
<1>10. ASSUME NEW h \in Handlers, FindUser(h)
       PROVE  IInv'
  <2>1. CASE /\ req' = [req EXCEPT ![h].user = Edit(req[h])]
             /\ Goto(h, "select") /\ req[h].op # "reset"
    <3> DEFINE r == [req[h] EXCEPT !.user = Edit(req[h])]
    <3>1. /\ Edit(req[h]) \in Rows
          /\ req[h].op = "confirm" => Edit(req[h]).email = row.email
          /\ req[h].op = "change" => Edit(req[h]).email = issue[req[h].k].to
      BY <1>10, <2>1 DEF Edit, Rows, Usage, Issues, FindUser
    <3>2. req' = [req EXCEPT ![h] = r]
      BY <2>1
    <3>3. /\ r \in Requests /\ r.user = Edit(req[h]) /\ r.op = req[h].op
          /\ r.k = req[h].k /\ r.era = req[h].era
      BY <3>1, UserType
    <3>4. /\ pc[h] = "user" /\ pc' = [pc EXCEPT ![h] = "select"]
          /\ UNCHANGED <<row, issue, kept, era, late>>
          /\ "select" \in Steps
      BY <1>10, <2>1 DEF FindUser, Goto, Steps
    <3> HIDE DEF r
    <3>5. r.era <= era /\ (r.era = era => InStep(h)')
      BY <2>1, <3>1, <3>2, <3>3, <3>4 DEF EraInv, InStep, Usage
    <3> QED
      BY <3>1, <3>2, <3>3, <3>4, <3>5, StepOfOne
  <2>2. CASE Finish(h)
    BY <1>10, <2>2, StepToRest DEF FindUser
  <2>3. CASE (Goto(h, "drop") \/ Goto(h, "compare")) /\ UNCHANGED req
    BY <1>10, <2>3
    DEF FindUser, Goto, NothingOutlives, SentHere, EraInv, InStep, Target
  <2> QED
    BY <1>10, <2>1, <2>2, <2>3 DEF FindUser
<1>11. ASSUME NEW h \in Handlers, DropKey(h)
       PROVE  IInv'
  BY <1>11, StepToRest DEF DropKey
<1>12. ASSUME NEW h \in Handlers, CompareReset(h)
       PROVE  IInv'
  BY <1>12, StepToRest DEF CompareReset
<1>13. ASSUME NEW h \in Handlers, SelectSaved(h)
       PROVE  IInv'
  <2>0. PICK cols \in SUBSET Columns :
          /\ cols = {c \in Columns : req[h].user[c] # row[c]}
          /\ req' = [req EXCEPT ![h].cols = cols]
    BY <1>13 DEF SelectSaved
  <2> DEFINE r == [req[h] EXCEPT !.cols = cols]
  <2>1. req' = [req EXCEPT ![h] = r]
    BY <2>0
  <2>2. /\ r \in Requests /\ r.cols = cols /\ r.op = req[h].op
        /\ r.k = req[h].k /\ r.user = req[h].user /\ r.era = req[h].era
    <3>1. req[h] \in Requests
      OBVIOUS
    <3> QED
      BY ONLY <3>1, cols \in SUBSET Columns, ColsType
  <2> HIDE DEF r
  <2>3. PICK at \in {"clear", "save"} : pc' = [pc EXCEPT ![h] = at]
    BY <1>13 DEF SelectSaved, Goto
  <2>4. /\ pc[h] = "select" /\ UNCHANGED <<row, issue, kept, era, late>>
        /\ at \in Steps /\ kept' \subseteq kept
    BY <1>13 DEF SelectSaved, Steps
  <2>5. "email" \notin cols => req[h].user.email = row.email
    BY <2>0, <2>4 DEF Columns, Rows
  <2>6. r.era <= era /\ (r.era = era => InStep(h)')
    BY <2>1, <2>2, <2>3, <2>4, <2>5 DEF EraInv, InStep, Usage
  <2>7. r.op = "change" => r.user.email = issue[r.k].to
    BY <2>2, <2>4 DEF Target
  <2> HIDE DEF TInv, IInv
  <2> QED
    BY <2>1, <2>2, <2>3, <2>4, <2>6, <2>7, StepOfOne
<1>14. ASSUME NEW h \in Handlers, SaveChange(h)
       PROVE  IInv'
  <2>1. CASE Conflict(req[h])
    BY <1>14, <2>1, StepToRest DEF SaveChange
  <2>2. CASE ~ Conflict(req[h])
    <3>1. /\ kept' = {} /\ era' = era + 1 /\ UNCHANGED <<issue, late>>
          /\ req' = [req EXCEPT ![h] = NoRequest]
          /\ pc' = [pc EXCEPT ![h] = "idle"]
      BY <1>14, <2>2 DEF SaveChange, Finish, Goto
    <3>2. NothingOutlives' /\ SentHere'
      BY <3>1 DEF NothingOutlives, SentHere
    <3>3. EraInv'
      BY <3>1, NoRequestType, FieldTypes DEF EraInv
    <3>4. Target'
      BY <3>1, NoRequestType DEF Target
    <3> QED
      BY <3>2, <3>3, <3>4
  <2> QED
    BY <2>1, <2>2
<1>15. ASSUME NEW h \in Handlers, SaveConfirmed(h)
       PROVE  IInv'
  <2>1. CASE Conflict(req[h]) /\ Finish(h)
    BY <1>15, <2>1, StepToRest DEF SaveConfirmed
  <2>2. CASE ~ Conflict(req[h])
    <3>1. /\ row' = Saved(req[h]) /\ UNCHANGED <<issue, kept, req>>
          /\ pc[h] = "save" /\ pc' = [pc EXCEPT ![h] = "clear"]
      BY <1>15, <2>2 DEF SaveConfirmed, Goto
    <3>2. CASE row'.email # row.email
      <4>1. era' = era + 1 /\ late' = late \cup kept
        BY <1>15, <2>2, <3>1, <3>2 DEF SaveConfirmed
      <4>2. NothingOutlives' /\ SentHere'
        BY <3>1, <4>1 DEF NothingOutlives, SentHere
      <4>3. EraInv'
        BY <3>1, <4>1, FieldTypes DEF EraInv
      <4>4. Target'
        BY <3>1 DEF Target
      <4> QED
        BY <4>2, <4>3, <4>4
    <3>3. CASE row'.email = row.email
      <4>1. era' = era /\ late' = late
        BY <1>15, <2>2, <3>1, <3>3 DEF SaveConfirmed
      <4> QED
        BY <3>1, <3>3, <4>1
        DEF NothingOutlives, SentHere, EraInv, InStep, Target
    <3> QED
      BY <3>2, <3>3
  <2> QED
    BY <1>15, <2>1, <2>2 DEF SaveConfirmed
<1>16. ASSUME NEW h \in Handlers, ClearKeys(h)
       PROVE  IInv'
  BY <1>16, StepToRest DEF ClearKeys
<1>17. ASSUME NEW h \in Handlers, Fail(h)
       PROVE  IInv'
  BY <1>17, StepToRest DEF Fail
<1>18. CASE UNCHANGED vars
  BY <1>18 DEF NothingOutlives, SentHere, EraInv, InStep, Target
<1>19. ASSUME NEW h \in Handlers, Request(h)
       PROVE  IInv'
  <2>1. \A kind \in Kinds, to \in Addresses :
          (kind # "change" => to = row.email) /\ StartSend(h, kind, to) => IInv'
    BY <1>4
  <2>2. \A kind \in Kinds, k \in Keys, right, fresh \in BOOLEAN :
          StartUse(h, kind, k, right, fresh) => IInv'
    BY <1>5
  <2>3. row \in Rows
    OBVIOUS
  <2> HIDE DEF TInv, IInv
  <2> QED
    BY <1>19, <2>1, <2>2, <2>3, RequestForms
<1>20. ASSUME NEW h \in Handlers, Run(h)
       PROVE  IInv'
  BY <1>6, <1>7, <1>8, <1>9, <1>10, <1>11, <1>12, <1>13, <1>14, <1>15, <1>16,
     <1>17, <1>20 DEF Run
<1> QED
  BY <1>1, <1>2, <1>3, <1>18, <1>19, <1>20 DEF Next

LEMMA InvHolds == Spec => [](TInv /\ IInv)
  BY TypesInit, TypesStep, InvInit, InvStep, PTL DEF Spec

\* Nothing that was sent before a change of the address is of use after it,
\* unless a request that the change overtook inserted it since, or the change
\* is a stale save.
THEOREM NoneOutlives == Spec => []NothingOutlives
<1>1. IInv => NothingOutlives
  BY DEF IInv
<1> QED
  BY <1>1, InvHolds, PTL

-------------------------------------------------------------------------------
(***************************************************************************)
(* What verifies an address.                                               *)
(***************************************************************************)
\* VerifiedByOwner is [][ByOwner]_vars.
ByOwner ==
  ~ row.verified /\ row'.verified =>
    \E h \in Handlers :
      /\ pc[h] = "save" /\ pc'[h] # "save"
      /\ \/ issue[req[h].k].to = row'.email
         \/ req[h].era # era \/ req[h].k \in late

LEMMA OwnerStep == TInv /\ IInv /\ [Next]_vars => [ByOwner]_vars
<1> SUFFICES ASSUME TInv, IInv, Next, ~ row.verified, row'.verified
             PROVE  ByOwner
  BY DEF ByOwner
<1> USE DEF TInv, IInv, TypeOK, Fitting
<1>1. ASSUME NEW h \in Handlers, row' = Saved(req[h]), pc[h] = "save",
             pc'[h] # "save"
      PROVE  ByOwner
  <2>1. req[h].op \in {"confirm", "change"} /\ req[h] \in Requests
    BY <1>1 DEF Usage
  <2>2. row'.email = IF "email" \in req[h].cols THEN req[h].user.email
                     ELSE row.email
    BY <1>1, <2>1, SavedType
  <2>3. \/ issue[req[h].k].to = row'.email
        \/ req[h].era # era \/ req[h].k \in late
    BY <1>1, <2>1, <2>2 DEF EraInv, InStep, Target
  <2> QED
    BY <1>1, <2>3 DEF ByOwner
<1>2. ASSUME NEW h \in Handlers, SaveChange(h) \/ SaveConfirmed(h)
      PROVE  ByOwner
  BY <1>1, <1>2 DEF SaveChange, SaveConfirmed, Finish, Goto, Steps
<1>3. ASSUME row' = row
      PROVE  FALSE
  BY <1>3
<1>4. ~ Withdraw
  BY DEF Withdraw, Rows
<1> QED
  BY <1>2, <1>3, <1>4, RequestForms
  DEF Next, Run, Take, Age, StartSend, StartUse, CheckFree, DeleteOld,
      Insert, Mail, FindUser, DropKey, CompareReset, SelectSaved, ClearKeys,
      Fail

\* What verifies the account's address went to that address: for every number
\* of requests, whatever a change of the address did not overtake.
THEOREM OwnerVerifies == Spec => VerifiedByOwner
<1>1. Spec => [][ByOwner]_vars
  BY InvHolds, OwnerStep, PTL DEF Spec
<1>2. [][ByOwner]_vars => VerifiedByOwner
  BY DEF ByOwner, VerifiedByOwner
<1> QED
  BY <1>1, <1>2

-------------------------------------------------------------------------------
(***************************************************************************)
(* One code of a kind.                                                     *)
(***************************************************************************)

\* The kinds that a new key of the kind replaces.
Replaced == Resets \cup {"verify_otp"}

\* One handler at most sends a key of the kind; there is one at most, and none
\* between the deletion and the insertion.
Alone(kind) ==
  /\ \A g, h \in Handlers : Sending(g, kind) /\ Sending(h, kind) => g = h
  /\ \A k, l \in Of({kind}) : k = l
  /\ \A h \in Handlers :
       Sending(h, kind) /\ pc[h] = "insert" => Of({kind}) = {}

OInv == /\ \A kind \in Replaced \ raced : Alone(kind)
        /\ \A h \in Handlers : pc[h] = "check" => req[h].kind = "change"

LEMMA AloneInit == Init => OInv
  BY NoRequestType DEF Init, OInv, Alone, Sending, Of

\* One handler moves, keys go: it sends nothing that it did not send before.
LEMMA AloneMove ==
  ASSUME TInv, OInv, NEW h \in Handlers, NEW r \in Requests, NEW at \in Steps,
         req' = [req EXCEPT ![h] = r], pc' = [pc EXCEPT ![h] = at],
         kept' \subseteq kept, UNCHANGED <<issue, raced>>, at # "check",
         r.op = "send" =>
           /\ req[h].op = "send" /\ r.kind = req[h].kind
           /\ at = "insert" => pc[h] = "insert" \/ r.kind = "change"
  PROVE  OInv'
<1> USE DEF TInv, TypeOK
<1>1. ASSUME NEW g \in Handlers
      PROVE  /\ g # h => req'[g] = req[g] /\ pc'[g] = pc[g]
             /\ g = h => req'[g] = r /\ pc'[g] = at
  OBVIOUS
<1>2. ASSUME NEW kind \in Replaced \ raced
      PROVE  Alone(kind)'
  <2>1. Alone(kind) /\ kind # "change"
    BY <1>2 DEF OInv, Replaced, Resets
  <2>2. \A g \in Handlers : Sending(g, kind)' => Sending(g, kind)
    BY <1>1 DEF Sending
  <2>3. Of({kind})' \subseteq Of({kind})
    BY DEF Of
  <2>4. ASSUME NEW g \in Handlers, Sending(g, kind)', pc'[g] = "insert"
        PROVE  pc[g] = "insert"
    BY <1>1, <2>1, <2>4 DEF Sending
  <2> QED
    BY <2>1, <2>2, <2>3, <2>4 DEF Alone
<1> QED
  BY <1>1, <1>2 DEF OInv

LEMMA AloneRest ==
  ASSUME TInv, OInv, NEW h \in Handlers, Finish(h),
         kept' \subseteq kept, UNCHANGED <<issue, raced>>
  PROVE  OInv'
<1>1. "idle" \in Steps
  BY DEF Steps
<1> QED
  BY <1>1, NoRequestType, AloneMove DEF Finish, Goto

\* A request to send begins.
LEMMA AloneSend ==
  ASSUME TInv, OInv, NEW h \in Handlers, NEW kind \in Kinds,
         NEW to \in Addresses, StartSend(h, kind, to)
  PROVE  OInv'
<1> USE DEF TInv, TypeOK
<1> DEFINE r  == Sends(kind, to)
           at == IF kind = "change" THEN "check" ELSE "delete"
<1>1. r.op = "send" /\ r.kind = kind
  BY SendType
<1>2. req' = [req EXCEPT ![h] = r] /\ pc' = [pc EXCEPT ![h] = at]
  BY DEF StartSend, Begin, Goto
<1>3. UNCHANGED <<issue, kept>>
  BY DEF StartSend
<1>4. raced' = IF \E g \in Handlers : Sending(g, kind)
                 THEN raced \cup {kind} ELSE raced
  BY DEF StartSend
<1> HIDE DEF r
<1>5. ASSUME NEW g \in Handlers
      PROVE  /\ g # h => req'[g] = req[g] /\ pc'[g] = pc[g]
             /\ g = h => req'[g] = r /\ pc'[g] = at
  BY <1>2
<1>6. ASSUME NEW other \in Replaced, other \notin raced'
      PROVE  Alone(other)'
  <2>1. Alone(other) /\ other # "change"
    BY <1>4, <1>6 DEF OInv, Replaced, Resets
  <2>2. other = kind => \A g \in Handlers : ~ Sending(g, kind)
    BY <1>4, <1>6
  <2>3. \A g \in Handlers : g # h => (Sending(g, other)' <=> Sending(g, other))
    BY <1>5 DEF Sending
  <2>4. Sending(h, other)' => other = kind
    BY <1>1, <1>5 DEF Sending
  <2>5. \A f, g \in Handlers :
          Sending(f, other)' /\ Sending(g, other)' => f = g
    BY <2>1, <2>2, <2>3, <2>4 DEF Alone
  <2>6. Of({other})' = Of({other})
    BY <1>3 DEF Of
  <2>7. ASSUME NEW g \in Handlers, Sending(g, other)', pc'[g] = "insert"
        PROVE  Sending(g, other) /\ pc[g] = "insert"
    BY <1>5, <2>3, <2>7
  <2> QED
    BY <2>1, <2>5, <2>6, <2>7 DEF Alone
<1>7. \A g \in Handlers : pc'[g] = "check" => req'[g].kind = "change"
  BY <1>1, <1>5 DEF OInv
<1> QED
  BY <1>6, <1>7 DEF OInv

\* A request to use a key begins.
LEMMA AloneUse ==
  ASSUME TInv, OInv, NEW h \in Handlers, NEW kind \in Kinds, NEW k \in Keys,
         NEW right \in BOOLEAN, NEW fresh \in BOOLEAN,
         StartUse(h, kind, k, right, fresh)
  PROVE  OInv'
<1> DEFINE r  == Uses(kind, k, right, fresh)
           at == IF kind \in Resets /\ age[k] = Expired THEN "drop" ELSE "user"
<1>1. r \in Requests /\ r.op # "send"
  BY UseType DEF Usage, TInv, TypeOK
<1>2. req' = [req EXCEPT ![h] = r] /\ pc' = [pc EXCEPT ![h] = at]
  BY DEF StartUse, Begin, Goto
<1>3. kept' \subseteq kept /\ UNCHANGED <<issue, raced>>
  BY DEF StartUse
<1>4. at \in Steps /\ at # "check"
  BY DEF Steps
<1> HIDE DEF r, at
<1> QED
  BY <1>1, <1>2, <1>3, <1>4, AloneMove

\* The deletion of the earlier keys.
LEMMA AloneDelete ==
  ASSUME TInv, OInv, NEW h \in Handlers, DeleteOld(h)
  PROVE  OInv'
<1> USE DEF TInv, TypeOK
<1> DEFINE own == req[h].kind
<1>1. Sending(h, own) /\ pc[h] = "delete"
  BY DEF DeleteOld, Fitting, Sending
<1>2. /\ kept' = kept \ Of(Replaces(own)) /\ UNCHANGED <<issue, req>>
      /\ raced' = IF \E g \in Handlers \ {h} : Sending(g, own)
                    THEN raced ELSE raced \ {own}
      /\ pc' = [pc EXCEPT ![h] = "insert"]
  BY DEF DeleteOld, Goto
<1>3. ASSUME NEW kind \in Replaced, kind \notin raced'
      PROVE  Alone(kind)'
  <2>1. CASE kind = own
    <3>1. \A g \in Handlers : Sending(g, own) => g = h
      BY <1>1, <1>2, <1>3, <2>1 DEF OInv, Alone
    <3>2. own \in Replaces(own)
      BY <2>1 DEF Replaced, Replaces, Resets, Confirms
    <3>3. Of({kind})' = {}
      BY <1>2, <2>1, <3>2 DEF Of
    <3>4. \A g \in Handlers : Sending(g, kind)' => g = h
      BY <1>2, <2>1, <3>1 DEF Sending
    <3> QED
      BY <3>3, <3>4 DEF Alone
  <2>2. CASE kind # own
    <3>1. Alone(kind)
      BY <1>2, <1>3, <2>2 DEF OInv
    <3>2. Of({kind})' \subseteq Of({kind})
      BY <1>2 DEF Of
    <3>3. \A g \in Handlers : /\ Sending(g, kind)' <=> Sending(g, kind)
                              /\ Sending(g, kind) => pc'[g] = pc[g]
      BY <1>2, <2>2 DEF Sending
    <3> QED
      BY <3>1, <3>2, <3>3 DEF Alone
  <2> QED
    BY <2>1, <2>2
<1>4. \A g \in Handlers : pc'[g] = "check" => req'[g].kind = "change"
  BY <1>2 DEF OInv
<1> QED
  BY <1>3, <1>4 DEF OInv

\* A new key finds none of its kind.
LEMMA AloneInsert ==
  ASSUME TInv, OInv, NEW h \in Handlers, NEW k \in Keys, Insert(h, k)
  PROVE  OInv'
<1> USE DEF TInv, TypeOK
<1> DEFINE own == req[h].kind
           i   == [kind |-> own, to |-> req[h].to, era |-> req[h].era]
           r   == [req[h] EXCEPT !.k = k]
<1>1. Sending(h, own) /\ pc[h] = "insert" /\ k \notin kept
  BY DEF Insert, Fitting, Sending
<1>2. i.kind = own
  OBVIOUS
<1>3. /\ r.op = req[h].op /\ r.kind = own /\ r \in Requests
  BY KeyType
<1> HIDE DEF i, r
<1>4. /\ issue' = [issue EXCEPT ![k] = i] /\ kept' = kept \cup {k}
      /\ req' = [req EXCEPT ![h] = r] /\ pc' = [pc EXCEPT ![h] = "mail"]
      /\ UNCHANGED raced
  BY DEF Insert, Goto, i, r
<1>5. ASSUME NEW g \in Handlers, NEW kind
      PROVE  /\ Sending(g, kind)' <=> Sending(g, kind)
             /\ pc'[g] = "insert" => pc[g] = "insert" /\ g # h
  BY <1>3, <1>4 DEF Sending
<1>6. ASSUME NEW kind \in Replaced \ raced
      PROVE  Alone(kind)'
  <2>1. Alone(kind)
    BY <1>6 DEF OInv
  <2>2. CASE kind = own
    <3>1. Of({kind}) = {}
      BY <1>1, <2>1, <2>2 DEF Alone
    <3>2. Of({kind})' \subseteq {k}
      BY <1>4, <3>1 DEF Of
    <3>3. \A g \in Handlers : Sending(g, kind) => g = h
      BY <1>1, <2>1, <2>2 DEF Alone
    <3> QED
      BY <1>5, <3>2, <3>3 DEF Alone
  <2>3. CASE kind # own
    <3>1. Of({kind})' = Of({kind})
      BY <1>1, <1>2, <1>4, <2>3 DEF Of
    <3> QED
      BY <1>5, <2>1, <3>1 DEF Alone
  <2> QED
    BY <2>2, <2>3
<1>7. \A g \in Handlers : pc'[g] = "check" => req'[g].kind = "change"
  BY <1>4 DEF OInv
<1> QED
  BY <1>4, <1>6, <1>7 DEF OInv

LEMMA AloneRun ==
  ASSUME TInv, OInv, NEW h \in Handlers, Run(h)
  PROVE  OInv'
<1> USE DEF TInv, TypeOK
<1>1. CASE CheckFree(h)
  <2>1. req[h].kind = "change"
    BY <1>1 DEF CheckFree, OInv
  <2>2. CASE Finish(h)
    BY <1>1, <2>2, AloneRest DEF CheckFree, mail
  <2>3. CASE Goto(h, "insert") /\ UNCHANGED req
    <3>1. req' = [req EXCEPT ![h] = req[h]] /\ req[h] \in Requests
      BY <2>3
    <3> QED
      BY <1>1, <2>1, <2>3, <3>1, AloneMove DEF CheckFree, Goto, Steps
  <2> QED
    BY <1>1, <2>2, <2>3 DEF CheckFree
<1>2. CASE Mail(h) \/ DropKey(h) \/ CompareReset(h) \/ ClearKeys(h) \/ Fail(h)
  BY <1>2, AloneRest DEF Mail, DropKey, CompareReset, ClearKeys, Fail
<1>3. CASE FindUser(h)
  <2>1. req[h] \in Requests /\ req[h].op \in Usage /\ pc[h] = "user"
    BY <1>3 DEF FindUser, Fitting
  <2>2. CASE Finish(h)
    BY <1>3, <2>2, AloneRest DEF FindUser
  <2>3. ASSUME NEW at \in {"drop", "compare"}, Goto(h, at), UNCHANGED req
        PROVE  OInv'
    <3>1. req' = [req EXCEPT ![h] = req[h]]
      BY <2>3
    <3> QED
      BY <1>3, <2>1, <2>3, <3>1, AloneMove DEF FindUser, Goto, Steps, Usage
  <2>4. CASE /\ req[h].op # "reset" /\ Goto(h, "select")
             /\ req' = [req EXCEPT ![h].user = Edit(req[h])]
    <3> DEFINE r == [req[h] EXCEPT !.user = Edit(req[h])]
    <3>1. Edit(req[h]) \in Rows
      BY <2>1, <2>4 DEF Edit, Usage, Rows, Fitting, Issues
    <3>2. r \in Requests /\ r.op = req[h].op
      BY <2>1, <3>1, UserType
    <3>3. req' = [req EXCEPT ![h] = r]
      BY <2>4
    <3> HIDE DEF r
    <3> QED
      BY <1>3, <2>1, <2>4, <3>2, <3>3, AloneMove
      DEF FindUser, Goto, Steps, Usage
  <2> QED
    BY <1>3, <2>2, <2>3, <2>4 DEF FindUser
<1>4. CASE SelectSaved(h)
  <2>1. req[h] \in Requests /\ req[h].op \in Usage
    BY <1>4 DEF SelectSaved, Fitting
  <2> DEFINE cols == {c \in Columns : req[h].user[c] # row[c]}
             at   == IF cols = {} /\ req[h].op = "confirm"
                       THEN "clear" ELSE "save"
             r    == [req[h] EXCEPT !.cols = cols]
  <2>2. r \in Requests /\ r.op = req[h].op
    BY <2>1, ColsType
  <2>3. req' = [req EXCEPT ![h] = r] /\ pc' = [pc EXCEPT ![h] = at]
    BY <1>4 DEF SelectSaved, Goto
  <2>4. at \in Steps /\ at # "check"
    BY DEF Steps
  <2> HIDE DEF r, at
  <2> QED
    BY <1>4, <2>1, <2>2, <2>3, <2>4, AloneMove DEF SelectSaved, Usage
<1>5. CASE SaveChange(h)
  <2>1. kept' \subseteq kept /\ UNCHANGED <<issue, raced>> /\ Finish(h)
    BY <1>5 DEF SaveChange
  <2> QED
    BY <2>1, AloneRest
<1>6. CASE SaveConfirmed(h)
  <2>1. CASE Finish(h)
    BY <1>6, <2>1, AloneRest DEF SaveConfirmed
  <2>2. CASE Goto(h, "clear") /\ UNCHANGED req
    <3>1. req' = [req EXCEPT ![h] = req[h]] /\ req[h] \in Requests
      BY <2>2
    <3> QED
      BY <1>6, <2>2, <3>1, AloneMove DEF SaveConfirmed, Goto, Steps
  <2> QED
    BY <1>6, <2>1, <2>2 DEF SaveConfirmed
<1> QED
  BY <1>1, <1>2, <1>3, <1>4, <1>5, <1>6, AloneDelete, AloneInsert DEF Run

LEMMA AloneStep == TInv /\ OInv /\ [Next]_vars => OInv'
<1> SUFFICES ASSUME TInv, OInv, [Next]_vars PROVE OInv'
  OBVIOUS
<1>1. CASE \/ Withdraw \/ \E a \in Addresses : Take(a)
           \/ \E k \in Keys : Age(k)
  BY <1>1 DEF Withdraw, Take, Age, OInv, Alone, Sending, Of
<1>2. CASE UNCHANGED vars
  BY <1>2 DEF OInv, Alone, Sending, Of
<1>3. ASSUME NEW h \in Handlers, Request(h)
      PROVE  OInv'
  <2>1. row \in Rows
    BY DEF TInv, TypeOK
  <2> QED
    BY <1>3, <2>1, RequestForms, AloneSend, AloneUse
<1> QED
  BY <1>1, <1>2, <1>3, AloneRun DEF Next

\* There is one code and one reset link at most, unless two requests for it ran
\* at a time and none alone since.
THEOREM OneAtMost == Spec => []OneOfAKind
<1>1. OInv => OneOfAKind
  <2> SUFFICES ASSUME OInv, NEW kind \in Replaced \ raced
               PROVE  Cardinality(Of({kind})) <= 1
    BY DEF OneOfAKind, Replaced
  <2>1. \A k, l \in Of({kind}) : k = l
    BY DEF OInv, Alone
  <2>2. CASE Of({kind}) = {}
    BY <2>2, FS_EmptySet
  <2>3. ASSUME NEW k \in Of({kind})
        PROVE  Cardinality(Of({kind})) = 1
    <3>1. Of({kind}) = {k}
      BY <2>1, <2>3
    <3> QED
      BY <3>1, FS_Singleton
  <2> QED
    BY <2>2, <2>3
<1> QED
  BY <1>1, TypesInit, TypesStep, AloneInit, AloneStep, PTL DEF Spec
===============================================================================

-------------------------------- MODULE Recovery -------------------------------
(***************************************************************************)
(* The codes and links that one account is sent by e-mail (auth.service,   *)
(* 883-1684): to reset a password, to verify the address, to change it.    *)
(* They are rows of tokens and otp_tokens, here one set: the kinds tell    *)
(* them apart.                                                             *)
(*                                                                         *)
(* One action is one SQL statement with the code around it; save is the    *)
(* SELECT that tells which columns changed, and the UPDATE.  The           *)
(* transaction of changeEmail is one step from its UPDATE on: that locks   *)
(* the unique e-mail, and with it the key that inserted rows refer to.     *)
(***************************************************************************)
EXTENDS Naturals, FiniteSets

CONSTANTS
  Keys,         \* codes and links, never drawn twice
  Addresses,    \* e-mail addresses
  Handlers,     \* slots for requests in flight: bounds the concurrency
  MaxRequests,  \* bound on the requests, all in all
  None

VARIABLES
  row,     \* the columns email and verified (is_verified) of the account
  taken,   \* addresses that other accounts have
  issue,   \* per key, its kind, the address it goes to and the era of the
           \* account it was asked for in; or None (not drawn)
  kept,    \* keys that have their row
  mailed,  \* keys whose e-mail was queued
  age,     \* per key, the TOTP period it is in, up to its expiry
  pc,      \* per handler, the statement it issues next
  req,     \* per handler, the request
  made,    \* requests so far
  era,     \* (history) changes of the address so far
  late,    \* (history) keys that outlived a change: inserted by a request that
           \* it overtook, or the change was a stale save of a confirmation
  raced    \* (history) kinds of which two were asked for at a time, since a
           \* request last had them to itself

mail    == <<issue, kept, mailed, age>>
history == <<era, late, raced>>
vars    == <<row, taken, mail, pc, req, made, history>>

Codes == {"reset_otp", "verify_otp"}
Links == {"reset_link", "verify_link", "change"}
Kinds == Codes \cup Links

Resets   == {"reset_otp", "reset_link"}
Confirms == {"verify_otp", "verify_link"}

\* What is known of a key.
Issues == [kind : Kinds, to : Addresses, era : Nat]

ASSUME RecoveryAssumption ==
  MaxRequests \in Nat /\ None \notin Keys \cup Addresses \cup Issues

\* What a new key replaces: a link for verification, the codes for it only;
\* a link for a change, nothing.
Replaces(kind) == CASE kind \in Resets   -> {kind}
                    [] kind \in Confirms -> {"verify_otp"}
                    [] OTHER             -> {}

\* The period a code was made in, the next one, later ones, past expires_at.
Ages    == 0 .. 3
Expired == 3

Steps == {"idle", "check", "delete", "insert", "mail", "user", "drop",
          "compare", "select", "save", "clear"}

Rows    == [email : Addresses, verified : BOOLEAN]
Columns == {"email", "verified"}

\* right: the digits given are those of the code; fresh: the new password is
\* not the present one.
NoRequest == [op |-> "none", kind |-> None, to |-> None, k |-> None,
              right |-> FALSE, fresh |-> FALSE, user |-> None, cols |-> {},
              era |-> 0]

Init ==
  /\ row    \in Rows
  /\ taken  = {}
  /\ issue  = [k \in Keys |-> None]
  /\ kept   = {}
  /\ mailed = {}
  /\ age    = [k \in Keys |-> 0]
  /\ pc     = [h \in Handlers |-> "idle"]
  /\ req    = [h \in Handlers |-> NoRequest]
  /\ made   = 0
  /\ era    = 0
  /\ late   = {}
  /\ raced  = {}

-------------------------------------------------------------------------------
Goto(h, to) == pc' = [pc EXCEPT ![h] = to]

Begin(h, r, first) ==
  /\ pc[h] = "idle"
  /\ made < MaxRequests
  /\ made' = made + 1
  /\ Goto(h, first)
  /\ req' = [req EXCEPT ![h] = r]

\* (mutant of Finish) The request keeps what it holds.
FinishHolding(h) == Goto(h, "idle") /\ UNCHANGED req

Finish(h) ==
  /\ Goto(h, "idle")
  /\ req' = [req EXCEPT ![h] = NoRequest]

Of(kinds) == {k \in kept : issue[k].kind \in kinds}

-------------------------------------------------------------------------------
(***************************************************************************)
(* Sending.                                                                *)
(***************************************************************************)
Sending(h, kind) == req[h].op = "send" /\ req[h].kind = kind

Sends(kind, to) ==
  [NoRequest EXCEPT !.op = "send", !.kind = kind, !.to = to, !.era = era]

\* The account is found.
StartSend(h, kind, to) ==
  /\ Begin(h, Sends(kind, to), IF kind = "change" THEN "check" ELSE "delete")
  /\ raced' = IF \E g \in Handlers : Sending(g, kind)
                THEN raced \cup {kind} ELSE raced
  /\ UNCHANGED <<row, taken, mail, era, late>>

\* The handlers that send; the actions below are their statements.
ForgetPasswordByOtp(h)  == StartSend(h, "reset_otp", row.email)

ForgetPasswordByLink(h) == StartSend(h, "reset_link", row.email)

SendVerificationEmailByOtp(h) ==
  ~ row.verified /\ StartSend(h, "verify_otp", row.email)

SendVerificationEmailByLink(h) ==
  ~ row.verified /\ StartSend(h, "verify_link", row.email)

\* The guard asks for a verified address.
SendChnageEmailRequest(h, to) ==
  row.verified /\ to # row.email /\ StartSend(h, "change", to)

\* sendChnageEmailRequest looks for the new address.
CheckFree(h) ==
  /\ pc[h] = "check"
  /\ \/ req[h].to \notin taken \cup {row.email} /\ Goto(h, "insert")
        /\ UNCHANGED req
     \/ req[h].to \in taken \cup {row.email} /\ Finish(h)
  /\ UNCHANGED <<row, taken, mail, history, made>>

\* (mutant of DeleteOld) Only codes are replaced.
DeleteCodes(h) ==
  LET kind == req[h].kind IN
  /\ pc[h] = "delete"
  /\ kept' = kept \ Of(Replaces(kind) \cap Codes)
  /\ raced' = IF \E g \in Handlers \ {h} : Sending(g, kind)
                THEN raced ELSE raced \ {kind}
  /\ Goto(h, "insert")
  /\ UNCHANGED <<row, taken, issue, mailed, age, req, era, late, made>>

DeleteOld(h) ==
  LET kind == req[h].kind IN
  /\ pc[h] = "delete"
  /\ kept' = kept \ Of(Replaces(kind))
  /\ raced' = IF \E g \in Handlers \ {h} : Sending(g, kind)
                THEN raced ELSE raced \ {kind}
  /\ Goto(h, "insert")
  /\ UNCHANGED <<row, taken, issue, mailed, age, req, era, late, made>>

Insert(h, k) ==
  LET r == req[h] IN
  /\ pc[h] = "insert"
  /\ issue[k] = None
  /\ issue' = [issue EXCEPT
                  ![k] = [kind |-> r.kind, to |-> r.to, era |-> r.era]]
  /\ kept'  = kept \cup {k}
  /\ late'  = IF r.era # era THEN late \cup {k} ELSE late
  /\ req'   = [req EXCEPT ![h].k = k]
  /\ Goto(h, "mail")
  /\ UNCHANGED <<row, taken, mailed, age, era, raced, made>>

\* The e-mail is queued, and for a code its token answered.
Mail(h) ==
  /\ pc[h] = "mail"
  /\ mailed' = mailed \cup {req[h].k}
  /\ Finish(h)
  /\ UNCHANGED <<row, taken, issue, kept, age, history, made>>

-------------------------------------------------------------------------------
(***************************************************************************)
(* Using what was sent.                                                    *)
(***************************************************************************)

\* (mutant of Fits) A link is looked for by its token only.
FitsAnyLink(k, kind) ==
  issue[k].kind = kind \/ {issue[k].kind, kind} \subseteq Links

\* The row is looked for by its token and its type.
Fits(k, kind) == issue[k].kind = kind

Purpose(kind) == CASE kind \in Resets   -> "reset"
                   [] kind \in Confirms -> "confirm"
                   [] OTHER             -> "change"

Uses(kind, k, right, fresh) ==
  [NoRequest EXCEPT !.op = Purpose(kind), !.kind = kind, !.k = k,
     !.right = right, !.fresh = fresh, !.era = era]

\* The row is found.  Only a reset asks at once whether it has expired.
StartUse(h, kind, k, right, fresh) ==
  /\ k \in kept \cap mailed
  /\ Fits(k, kind)
  /\ Begin(h, Uses(kind, k, right, fresh),
           IF kind \in Resets /\ age[k] = Expired THEN "drop" ELSE "user")
  /\ UNCHANGED <<row, taken, mail, history>>

\* The handlers that use a key; the actions below are their statements.
ResetPasswordByOtp(h, k, right, fresh) ==
  StartUse(h, "reset_otp", k, right, fresh)

ResetPasswordByLink(h, k) == StartUse(h, "reset_link", k, TRUE, FALSE)

ConfirmEmailByOtp(h, k, right) == StartUse(h, "verify_otp", k, right, FALSE)

ConfirmEmailByLink(h, k) == StartUse(h, "verify_link", k, TRUE, FALSE)

ChangeEmail(h, k) == StartUse(h, "change", k, TRUE, FALSE)

\* totp.validate answers by how many periods the code is off, at most one, and
\* the code takes 0 for a refusal.
Accepts(r) == r.kind \in Codes => r.right /\ age[r.k] = 1

\* What the request is about to save.
Edit(r) == CASE r.op = "confirm" -> [row EXCEPT !.verified = TRUE]
             [] r.op = "change"  -> [row EXCEPT !.email = issue[r.k].to]

\* The user is read and the code checked.
FindUser(h) ==
  LET r       == req[h]
      refused == r.op = "confirm" /\ row.verified
      over    == r.kind = "verify_otp" /\ age[r.k] = Expired
  IN
  /\ pc[h] = "user"
  /\ \/ refused /\ Finish(h)
     \/ ~ refused /\ over /\ Goto(h, "drop") /\ UNCHANGED req
     \/ ~ refused /\ ~ over /\ ~ Accepts(r) /\ Finish(h)
     \/ /\ ~ refused /\ ~ over /\ Accepts(r) /\ r.op = "reset"
        /\ Goto(h, "compare")
        /\ UNCHANGED req
     \/ /\ ~ refused /\ ~ over /\ Accepts(r) /\ r.op # "reset"
        /\ req' = [req EXCEPT ![h].user = Edit(r)]
        /\ Goto(h, "select")
  /\ UNCHANGED <<row, taken, mail, history, made>>

DropKey(h) ==
  /\ pc[h] = "drop"
  /\ kept' = kept \ {req[h].k}
  /\ Finish(h)
  /\ UNCHANGED <<row, taken, issue, mailed, age, history, made>>

\* resetPasswordByOtp hashes the new password into the user and compares the
\* new password with that; resetPasswordByLink compares it with a password
\* that find does not load, which throws.  Both roll back whatever is given.
CompareReset(h) ==
  /\ pc[h] = "compare"
  /\ Finish(h)
  /\ UNCHANGED <<row, taken, mail, history, made>>

SelectSaved(h) ==
  LET cols == {c \in Columns : req[h].user[c] # row[c]} IN
  /\ pc[h] = "select"
  /\ req' = [req EXCEPT ![h].cols = cols]
  /\ Goto(h, IF cols = {} /\ req[h].op = "confirm" THEN "clear" ELSE "save")
  /\ UNCHANGED <<row, taken, mail, history, made>>

Saved(r) == [c \in Columns |-> IF c \in r.cols THEN r.user[c] ELSE row[c]]

\* email is UNIQUE.
Conflict(r) == Saved(r).email \in taken

\* (mutant of SaveChange) The codes of the account stay.
SaveChangeOnly(h) ==
  LET r == req[h] IN
  /\ pc[h] = "save" /\ r.op = "change"
  /\ IF Conflict(r)
       THEN UNCHANGED <<row, kept, era>>
       ELSE /\ row'  = Saved(r)
            /\ kept' = kept \ Of(Links)
            /\ era'  = era + 1
  /\ Finish(h)
  /\ UNCHANGED <<taken, issue, mailed, age, late, raced, made>>

\* The rest of changeEmail: the user, its tokens and codes.  (Its sessions are
\* in Sessions.)
SaveChange(h) ==
  LET r == req[h] IN
  /\ pc[h] = "save" /\ r.op = "change"
  /\ IF Conflict(r)
       THEN UNCHANGED <<row, kept, era>>
       ELSE /\ row'  = Saved(r)
            /\ kept' = {}
            /\ era'  = era + 1
  /\ Finish(h)
  /\ UNCHANGED <<taken, issue, mailed, age, late, raced, made>>

\* A confirmation that a change overtook writes the old address back.
SaveConfirmed(h) ==
  LET r    == req[h]
      back == Saved(r).email # row.email
  IN
  /\ pc[h] = "save" /\ r.op = "confirm"
  /\ \/ Conflict(r) /\ Finish(h) /\ UNCHANGED <<row, era, late>>
     \/ /\ ~ Conflict(r)
        /\ row'  = Saved(r)
        /\ era'  = IF back THEN era + 1 ELSE era
        /\ late' = IF back THEN late \cup kept ELSE late
        /\ Goto(h, "clear")
        /\ UNCHANGED req
  /\ UNCHANGED <<taken, mail, made, raced>>

\* A code that confirmed deletes the codes, a link the links.
ClearKeys(h) ==
  /\ pc[h] = "clear"
  /\ kept' = kept \ Of({req[h].kind})
  /\ Finish(h)
  /\ UNCHANGED <<row, taken, issue, mailed, age, history, made>>

-------------------------------------------------------------------------------
\* A statement or the queue fails, or the process ends.
Fail(h) ==
  /\ pc[h] # "idle"
  /\ Finish(h)
  /\ UNCHANGED <<row, taken, mail, history, made>>

Age(k) ==
  /\ k \in kept /\ age[k] < Expired
  /\ age' = [age EXCEPT ![k] = @ + 1]
  /\ UNCHANGED <<row, taken, issue, kept, mailed, pc, req, history, made>>

\* Another account is registered with, or changes to, address a.
Take(a) ==
  /\ a \notin taken \cup {row.email}
  /\ taken' = taken \cup {a}
  /\ UNCHANGED <<row, mail, pc, req, history, made>>

\* An administrator takes the verification back (updateUser).
Withdraw ==
  /\ row.verified
  /\ row' = [row EXCEPT !.verified = FALSE]
  /\ UNCHANGED <<taken, mail, pc, req, history, made>>

Request(h) ==
  \/ ForgetPasswordByOtp(h) \/ ForgetPasswordByLink(h)
  \/ SendVerificationEmailByOtp(h) \/ SendVerificationEmailByLink(h)
  \/ \E to \in Addresses : SendChnageEmailRequest(h, to)
  \/ \E k \in Keys :
       \/ \E right, fresh \in BOOLEAN : ResetPasswordByOtp(h, k, right, fresh)
       \/ \E right \in BOOLEAN : ConfirmEmailByOtp(h, k, right)
       \/ ResetPasswordByLink(h, k) \/ ConfirmEmailByLink(h, k)
       \/ ChangeEmail(h, k)

Run(h) ==
  \/ CheckFree(h) \/ DeleteOld(h) \/ (\E k \in Keys : Insert(h, k)) \/ Mail(h)
  \/ FindUser(h) \/ DropKey(h) \/ CompareReset(h)
  \/ SelectSaved(h) \/ SaveChange(h) \/ SaveConfirmed(h) \/ ClearKeys(h)
  \/ Fail(h)

Next ==
  \/ Withdraw
  \/ \E a \in Addresses : Take(a)
  \/ \E k \in Keys : Age(k)
  \/ \E h \in Handlers : Request(h) \/ Run(h)

Spec == Init /\ [][Next]_vars

-------------------------------------------------------------------------------
\* Every variable has its type; only drawn keys are kept or mailed, and what a
\* handler holds fits its step.
TypeOK ==
  /\ row \in Rows /\ taken \subseteq Addresses
  /\ issue \in [Keys -> Issues \cup {None}]
  /\ \A k \in kept \cup mailed : k \in Keys /\ issue[k] # None
  /\ age \in [Keys -> Ages]
  /\ pc \in [Handlers -> Steps]
  /\ made \in 0 .. MaxRequests
  /\ era \in Nat /\ late \subseteq Keys /\ raced \subseteq Kinds
  /\ \A h \in Handlers :
       /\ pc[h] = "idle" <=> req[h] = NoRequest
       /\ pc[h] \in {"select", "save"} => req[h].user \in Rows
       /\ pc[h] \in {"user", "drop", "compare", "select", "save", "clear"}
            => issue[req[h].k] # None

\* Asking anew makes the earlier codes and reset links worthless: there is one
\* of each kind at most, unless two requests for it ran at a time and none
\* alone since, whatever fails between the deletion and the insertion.
OneOfAKind ==
  \A kind \in (Resets \cup {"verify_otp"}) \ raced :
    Cardinality(Of({kind})) <= 1

\* Nothing that was sent to the account before its address changed is of use
\* afterwards, but for what a request inserts that the change overtook, and
\* for what is there when a stale save changes the address.
NothingOutlives == \A k \in kept \ late : issue[k].era = era

\* Whatever the account comes to be verified by went to the address that it
\* has then, though links to other addresses are about, unless a change
\* overtook the request that sent it or the one that uses it.
VerifiedByOwner ==
  [][~ row.verified /\ row'.verified =>
       \E h \in Handlers :
         /\ pc[h] = "save" /\ pc'[h] # "save"
         /\ \/ issue[req[h].k].to = row'.email
            \/ req[h].era # era \/ req[h].k \in late]_vars

\* "New password must be different from the old password": a reset by code is
\* refused so only for a password that is not.
RefusedIfSame ==
  [][\A h \in Handlers :
       CompareReset(h) /\ req[h].kind = "reset_otp" => ~ req[h].fresh]_vars
===============================================================================

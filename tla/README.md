# taleb.tn: TLA+ models, checks and proofs

The backend (`backend/src`, NestJS) matches users who want a video call, relays
their WebRTC signalling, and keeps accounts: sessions, refresh tokens, recovery,
a second factor, OAuth. Its state lives in Redis (matching, one-time codes) and
PostgreSQL (everything else); several server processes share both and are joined
by the Socket.IO Redis adapter. What is hard here is what happens *between* the
awaits of its handlers, and that is what these modules model.

Paths below are relative to `backend/src/modules` unless they start with `backend`
or `frontend`.

## 1. Inventory

| Component | State | Operations | Talks to | What makes it correct |
|---|---|---|---|---|
| matching (`matching/`) | Redis: the sorted set `matching_queue:users`, `match:<id>`, `user_match:<id>` (1 h to live) | `start_matching`, `cancel_matching`, `end_match`, disconnect | Redis, Socket.IO | at most one match per user; both users are told; only a member or the clock ends a match; two who wait are matched |
| video chat (`video-chat/`) | rooms of the adapter | join, leave, four relays, disconnect | adapter, guard | members know of each other; nobody stays in a call with someone who is gone |
| sessions and refresh tokens (`sessions/`, `auth/auth.service.ts`) | tables `sessions`, `refresh_tokens` | login, refresh, logout (one, all), revoke, unrevoke, delete; side effects of password and e-mail changes | PostgreSQL | tokens rotate; an active session can go on; an ended one cannot |
| authorization (`auth/services`, `auth/guards`, `auth/middleware`) | the user row as loaded, `users.status` | `authorize`: soft delete, status, verification, M2FA, permissions | users service | decisions follow the account's present state |
| recovery (`auth/auth.service.ts` 883-1680) | `tokens`, `otp_tokens` | forgot/reset password, verify e-mail, change e-mail | PostgreSQL, e-mail queue | a code works once, in time, for its purpose |
| second factor (`auth/auth.service.ts` 1686-2068) | `m2fa`, Redis `2fa-otp:<token>` | set method, enable, disable, send and verify codes | Redis, PostgreSQL | at most 4 guesses per code; a code works once; HTTP routes and refresh ask for it |
| users (`users/`) | `users`, `roles`, `user_settings` | create, update, suspend, unsuspend, soft delete, restore, settings | PostgreSQL | status changes are not lost |
| oauth (`oauth/`) | `oauth_accounts`, Redis `oauth:link:<user>:<provider>` | link, login, unlink | PostgreSQL, Redis, providers | a provider account belongs to one user; a link token works once |
| e-mail (`email/`) | BullMQ queue | add, process | Redis, SMTP | a mail is sent for a committed change |
| bootstrap, filters, interceptors, i18n, seed, frontend | none that changes | - | - | - |

Behaviours that are hard to test: handlers of one user that overlap (NestJS does not
wait for one WebSocket message before it starts on the next), the same between
processes, PostgreSQL's READ COMMITTED with row locks, events that cross on their way
between processes, a crash or a failed command between two commands, keys that expire,
entities saved long after they were read. `PROJECT.json` lists each at its line, with
the properties that watch it.

## 2. Modules

### Matching, MatchMaker, MatchingProofs

`Matching` models `matching.gateway.ts` and `matching.service.ts`. One action is one
Redis command with the code that runs on its reply; `pc[h]` is the command handler `h`
issues next, `sock`, `entry`, `pair`, `mid` are its locals. `queue`/`since` are the
sorted set and its scores, `match`/`data` the match keys and what was stored there
(`data` outlives the key, as a history), `user_match` the links, `told` the
`match_found` events.

| Code | Actions |
|---|---|
| `startMatching` | `HandleStartMatching`, `CheckLink`, `Enqueue` |
| `findMatch` | `FindNobody`, `FindPair`, `StoreMatch`, `LinkFirst`, `LinkSecond`, `RemovePair`, `NotifyFound` |
| `cancelMatching`, `handleDisconnect` | `HandleCancelMatching`, `Disconnect`, `FindEntry`, `RemoveEntry`, `ReadLink` |
| `handleEndMatch`, `endMatch` | `HandleEndMatch`, `CheckMember`, `ReadMatch`, `DeleteMatch`, `UnlinkFirst`, `UnlinkSecond` |
| times to live, Redis errors, crashes | `ExpireMatch`, `ExpireLink`, `RedisError`, `Crash` |

Ids are stored as strings and compared with numbers at one place
(`matching.gateway.ts:176`); `IdText` keeps the two apart. Ties between scores are
broken by the entries' text, as Redis does, so connections are numbered in that order.

`MatchMaker` is the abstract promise: `Wait`, `Pair`, `Leave`, `End`, each a single
step. `Matching` maps to it by `MM` (in `Matching`).

### Sessions, SessionsProofs

The sessions of one account and their tokens. A request is a slot of `Handlers`; one
action is one SQL statement. `req[h]` holds what the request's transaction has written
and not committed: `ended` (sessions), `del` and `ins` (tokens). Statements see
committed rows only and wait for rows others have written (`SessionLocked`,
`TokenLocked`). One that has to wait (`Wait`) remembers the rows it saw (`seen`): what
is inserted before it goes on it leaves alone. A change of the UNIQUE e-mail also keeps
away inserts that reference the user (`HoldsKey`). Two requests that wait for each other
are told apart by `Deadlock`, which rolls one back. A token is the pair of its session
and the second it was signed in: `jsonwebtoken` signs the same payload to the same text
within a second. `register` signs other claims (332) than any later login or refresh, so
the token it stores is like no other. `verifyRefreshToken` deletes the row it found, by
its id: a row with the same text that came since stays.

| Code | Actions |
|---|---|
| `login`, `loginWithCookies`, `register`, `registerWithCookies` | `Login`, `Register` |
| `JwtRefreshStrategy.validate`, `verifyRefreshToken` | `StartRefresh`, `FindToken`, `FindSession`, `DropToken` |
| `refreshToken`, `refreshTokenWithCookies` | `SelectSession`, `DeleteAll`, `Insert`, `CommitRefresh` |
| `logout`, `logoutAllSessions`, their cookie forms, `changePassword` with `logout_all`, `changeEmail` | `StartEnd`, `SaveUser`, `UpdateSessions`, `DeleteTokens`, `CommitEnd` |
| `revokeMySession`, `revokeSession`, `unrevokeSession` | `StartRevoke`, `StartUnrevoke`, `SaveSession` |
| `revokeALLMySessions`, `revokeSessionsByUserId` | `RevokeMany` |
| `deleteSessionById`, `deleteSessionsByUserId` | `DeleteSessions` |
| PostgreSQL: row locks, deadlocks | `Wait`, `Deadlock` |
| a failed statement, the end of a process | `Fail` |

Assumed: the account has no second factor (`SecondFactor` has it); the caller's role
holds the permissions of the controller; the schema is the entities' (foreign keys,
UNIQUE); an UPDATE of several rows takes its locks at once; a deletion of sessions takes
its locks at once; the one-statement requests of an administrator (`RevokeMany`,
`DeleteSessions`) run when they need not wait. `Login` and `Register` are one step
because nobody can know their rows before they commit.

### VideoRoom, VideoRoomProofs

One room of the video chat gateway. `conn` and `room` are the open sockets and the
room's members, `channel[n]` the events other processes published that process `n` has
not received, `known[s]` what the client of socket `s` makes of the events it hears.
Every handler runs to its end at once, except for a user whose suspension has run out
(`Lapsed`), for whom the guard first waits for the database: then the message sits in
`waiting`, and its socket may close meanwhile.

| Code | Actions |
|---|---|
| `handleJoinRoom`, `handleLeaveRoom` | `HandleJoinRoom`, `HandleLeaveRoom` |
| `handleSendOffer`, `handleSendAnswer`, `handleSendIceCandidate`, `handleSendMessage` | `HandleSendOffer` (they differ in their payload) |
| `WsAuthorizationGuard`, `checkAccountStatus` | `Receive`, `PassGuard` |
| `handleConnection`, `handleDisconnect` | `Connect`, `HandleDisconnect` |
| Redis adapter | `Emit`, `Deliver` |

Assumed: a user has one client, which always reaches the same process; a client relays
only while it is in the room; a lapsed client has one request waiting at a time.

### Account, AccountProofs

One row of `users` and everything that changes it, with the guard that reads it.
`repository.save` is three steps, as TypeORM does it: the find that made the entity,
a SELECT that tells which loaded columns differ from the row, and the UPDATE of those.
`req[h].user` is the entity a request holds; an entity that was overtaken writes its
old columns back, except the password, which `find` does not load. `socket[c]` is the
user as the handshake of a WebSocket found it: the guard of its messages goes by that.

| Code | Actions |
|---|---|
| `JwtStrategy.validate`, `AuthorizationGuard`, `authorize` | `Guard` (`CheckSoftDelete`, `CheckAccountStatus`, `CheckEmailVerification`) |
| `WsAuthMiddleware`, `WsAuthorizationGuard` | `Connect`, `Disconnect`, `Message` |
| `updateUser`, `suspendUser`, `unsuspendUser`, `updateMe`, `changePassword`, `confirmEmailBy...` | `UpdateUser`, `SuspendUser`, `UnsuspendUser`, `UpdateMe`, `ChangePassword`, `ConfirmEmail`, then `Find`, `SelectSaved`, `Update` |
| `softDeleteUser`, `restoreUser`, `softDeleteMe`, `restoreMe` | `SoftDeleteUser`, `RestoreUser`, `SoftDeleteMe`, `RestoreMe`, then `Find`, `Commit` |
| time, a failed statement, the end of a process | `Tick`, `Fail` |

Assumed: other users hold the permission their request needs; the columns the
properties do not tell apart (names, avatar, dates) are left out; `suspended_at`,
`suspension_ends_at` and `suspension_reason` are one, since they are set and cleared
together.

### SecondFactor, SecondFactorProofs

The second factor of the accounts: the switch and the authenticator's secret of each,
the codes in Redis with their count of wrong guesses, and what the tokens of each
session say (`claims`: access tokens the client holds, which are stored nowhere;
`refresh`: the refresh token that is stored). Two facts of the code bound what may be
said of it:

- Only `JwtAuthGuard` and `JwtRefreshStrategy` look at the claims (`RouteTakes`). A
  WebSocket opens with any valid access token (`ws-auth.middleware.ts:30-51`), and
  `authorize` asks for the factor under `@RequireM2FA` alone
  (`authorization.service.ts:67-75`), which is on no route: matching and video chat are
  open to a session whose factor is still to be done, and no property here says
  otherwise.
- `verifyM2FAOtp` finds a code by its text (1933) and does not compare the account it
  was sent to. So a code belongs to nobody in the model, and any session may present
  any that was sent (`VerifyM2FAOtp`).

| Code | Actions |
|---|---|
| `register`, `login`, `refreshToken` and their cookie forms, as far as claims go | `Register`, `StartLogin`, `CreateSession`, `StartRefresh`, `SignRefreshed` |
| `enableM2FA`, `disableM2FA`, `setAuthenticationMethod` | `EnableM2FA`, `DisableM2FA`, `SetAuthenticationMethod`, then `FindSetting`, `Switch`, `LockSecret`, `SaveSecret` |
| `sendM2FAOtp` | `SendM2FAOtp`, `StoreCode` |
| `verifyM2FAOtp` | `VerifyM2FAOtp`, `GetCode`, `DropCode`, `PutBack`, `TakeCode` |
| `verifyM2FAAuthenticator` | `VerifyM2FAAuthenticator`, `CheckSecret` |
| Redis times to live, the TOTP window, failures | `Expire`, `Age`, `Fail` |

Assumed: the password that `disable` and the set-up ask for is right; a session is
opened by one login, or by the registration of its account; codes and secrets are not
guessed (a request says whether its code is right).

### Recovery, RecoveryProofs

The codes and links one account is sent: `issue[k]` is what key `k` was drawn for and
the address it goes to, `kept` the keys that have their row (of `tokens` or
`otp_tokens`), `mailed` those whose e-mail was queued. `era` counts the changes of the
address.

| Code | Actions |
|---|---|
| `forgetPasswordBy...`, `sendVerificationEmailBy...`, `sendChnageEmailRequest` | `ForgetPasswordByOtp`, `ForgetPasswordByLink`, `SendVerificationEmailByOtp`, `SendVerificationEmailByLink`, `SendChnageEmailRequest`, then `CheckFree`, `DeleteOld`, `Insert`, `Mail` |
| `resetPasswordBy...` | `ResetPasswordByOtp`, `ResetPasswordByLink`, then `FindUser`, `DropKey`, `CompareReset` |
| `confirmEmailBy...` | `ConfirmEmailByOtp`, `ConfirmEmailByLink`, then `FindUser`, `DropKey`, `SelectSaved`, `SaveConfirmed`, `ClearKeys` |
| `changeEmail` | `ChangeEmail`, then `FindUser`, `SelectSaved`, `SaveChange` |
| TOTP periods and expiry, other accounts, an administrator, failures | `Age`, `Take`, `Withdraw`, `Fail` |

A reset never gets past `CompareReset`: the OTP form hashes the new password into the
user and then compares the two, the link form compares with a column it has not loaded.
An e-mail arrives at any time or never: a key may be used from `Mail` on.

### SignUp, SignUpProofs

New users and the accounts of OAuth providers, with the one resource they share: the
pool of database connections. A request whose query runner is connected holds one
(`held`) and asks for another for every repository it uses meanwhile (`Pooled`);
`createUser` throws between `startTransaction` and its `try` and loses one (`leaked`).

| Code | Actions |
|---|---|
| `register`, `registerWithCookies`, `createUser` | `Register`, `CreateUser`, then `ConnectRunner`, `FindExisting`, `FindRoles`, `InsertUser`, `FindRole`, `CommitUser` |
| `verifyOAuthAccount`, `oAuthCallBack`, `linkOAuthAccount`, `createOAuthUser` | `Callback`, then `FindAccount`, `GetToken`, `MatchUser`, `FindLinked`, `ConnectRunner`, `LinkAccount`, `ReadUser`, `DropToken`, `AnswerLinked`, `Login` |
| the request for a link token, unlinking, `deleteOAuthAccount` | `AskLink`, `Unlink`, then `Look`, `SetToken`, `RemoveAccount`; `DeleteAccount` |
| time to live of the link token, failures | `ExpireToken`, `Fail` |

Two creations never succeed, whatever they are given, and the model follows the code:
`createUser` (`users.service.ts:136`) adds roles that its save has stored already, which
the key of `user_roles` refuses, and `createOAuthUser` (569) asks for a column `roles`
does not have.

## 3. Runs

| Run | Question | Result |
|---|---|---|
| `matching_races` | two handlers in flight, one Redis error or crash, expiry: are links, endings and ids sound? | `TypeOK`, `LinkNamesOwnMatch`, `EndedByMemberOrExpiry`, `EndedStaysEnded` hold |
| `matching_serial` | one handler at a time, no failures: does the gateway keep the promise? | `ImplementsMatchMaker`, `KeysAgreeAtRest`, `BothTold`, `PairedUp` hold |
| `matching_told` | do only the two users hear of a match (`matching.gateway.ts:85`)? | no: a third user who starts meanwhile does |
| `matching_end` | may the users of a match end it (`matching.gateway.ts:175`)? | no: string ids are compared with numbers |
| `sessions` | two sessions, two requests, one failure: do tokens rotate, can an active session go on, does an ended one leave nothing behind? | `TypeOK`, `OneLiveToken`, `ActiveHasToken`, `LogoutDropsTokens`, `AllInvalidated` hold |
| `sessions_guard` | is the caller's current session protected (`revoke-session.guard.ts:20`)? | no: it is the only one that is not |
| `video_room` | three clients on two processes: can every call start, does everybody learn who is gone? | `TypeOK`, `OneKnowsTheOther`, `NoGhosts`, `NoStrangers` hold |
| `account` | decisions, savings and liftings race: does a suspension stay, does a stale save touch the password? | `TypeOK`, `SuspensionServed`, `PasswordKept` hold |
| `second_factor` | do the HTTP routes and the refresh take a session that was asked for the factor before a right code was presented for it, may one guess on, or use a code twice? | `TypeOK`, `CodeBeforeRoutes`, `GuessLimit`, `OncePerCode` hold |
| `recovery` | is there one code of a kind, does one outlive a change of the address, does it verify an address it did not go to? | `TypeOK`, `OneOfAKind`, `NothingOutlives`, `VerifiedByOwner` hold |
| `recovery_reset` | is a new password refused only if it is the old one (`auth.service.ts:1025`)? | no: every one is |
| `sign_up` | does a link token link once, is who signs in linked, is every request answered by a pool of four? | `TypeOK`, `LinkedOnce`, `SignedInLinked`, `Answered` hold |

**Bounds.** Matching: three users, since the interesting races need a third beside a
pair; two match ids, one to be stale while the other is new; two handlers in flight, as
many as a race between two users or two messages of one user takes; one failure, at any
command of either handler. The proofs below have none of these bounds. `MaxClock` is 2
in the serial run, so that entries have different and equal scores. Sessions: two
sessions (one's own and another's), two requests, two seconds (equal or different
`iat`), one failure. VideoRoom: two ordinary users on different processes and a lapsed
one, two events in flight per process, so that events cross and queue; the bound on
`channel` holds back the sender, never drops. Account: two requests in flight of four in
all (a decision, one it overtakes, one that follows), one socket, one tick (before and
at or after the end of a suspension), two passwords, four bodies of the update route.
SecondFactor: two sessions of one account (one that switches, one that is left out) and
one of another, which may present the same code; one code and one secret, two requests
in flight without a bound on their number; a code allows four guesses, so the counter
closes the state space by itself. Recovery: two keys (an old and a new one), two
addresses, two requests in flight of five in all. SignUp: two e-mails, two provider
accounts with the same e-mail (so that they compete for one user), one link token, two
requests in flight of five in all, one lost connection. Its pool of four is the least
that works: with three, two requests that each hold a connection and a lost one leave
none, and `Answered` fails.

**Symmetry** is used where values are alike: match ids and handlers in `matching_races`
(not users: their connections are ordered), sessions and handlers in `sessions`,
handlers in `account`, the two sessions of one account, codes and handlers in
`second_factor`, keys and addresses in
`recovery`; never in a run with a liveness property (`matching_serial`,
`sign_up`).
Three runs take states for one that differ in nothing a guard or a property reads
(VIEW). `matching_races` leaves out `told`. `sessions` (`Told`) leaves out what a request
no longer reads (the session of one that ends all of them, a token that was found or
never will be, the form of a refresh once it inserts), why a session ended where no
property asks, and, once its second is over, what made the text of `register`'s token
another. `second_factor` (`Told`) keeps of a session's tokens what the guards make of
them, of a request what its next steps read, and of a code that is gone for good whether
its counts were in the limits.

**Deadlock** is not checked in the matching runs: when every connection is closed and
every key has expired, nothing is left to do. Nor is it in `recovery` and `sign_up`,
whose bound on requests stops the system; that no request is stuck there is `Answered`.
The others check it.

**What the properties leave out**, because the code does it: `ActiveHasToken` exempts a
login that commits after a logout of all sessions has chosen the sessions and before it
has chosen the tokens (it stays active and loses its token), and it and `AllInvalidated`
exempt sessions that were unrevoked; `OneLiveToken` and `LogoutDropsTokens` sessions on
which two requests overlapped (two refreshes of one token both succeed; a refresh can
commit after a logout), `NoGhosts` users whose suspension has run out (a join may be
handled after the disconnection). `SuspensionServed` exempts requests and sockets that
read the account before it was suspended: a stale save, or a message of a socket that
was connected during an earlier suspension, does lift the new one. `GuessLimit`,
`OncePerCode`, `OneOfAKind` and `LinkedOnce` exempt codes, kinds and link tokens that
two requests raced for: none of these counters and flags is changed atomically.
`NothingOutlives` and `VerifiedByOwner` exempt requests that a change of the address
overtook; a confirmation among them writes the old address back. `SignedInLinked`
exempts logins during which the account was unlinked. `CodeBeforeRoutes` is about HTTP
and refresh only, since sockets take a token before its factor is done, and a right code
in it may have been sent to another account. Overlapping handlers break
`KeysAgreeAtRest` and `ImplementsMatchMaker`: starts are check-then-act without a lock.

**Fairness.** `PairedUp` uses `Matching!FairSpec`: weak fairness of each handler's own
next step, since Node.js runs every continuation whose Redis reply has come, and the
run has no failures. Clients owe nothing: no fairness on connecting, asking or
leaving, nor on the clock. `Answered` assumes weak fairness of what each request does of
itself (`SignUp!Run`): the event loop, PostgreSQL and Redis serve each statement whose
turn it is, and a statement that waits for a connection or for another insert becomes
enabled for good once the holder is done. Nothing is assumed of clients, of expiry, or
of failures.

## 4. Proofs

TLAPS checks, for every value of the constants that satisfies the modules' assumptions:

| Theorem | Says |
|---|---|
| `MatchMaker!Promise` | matches exclude each other, nobody waits beside another or while matched |
| `MatchingProofs!TypeCorrect` | `TypeOK` |
| `MatchingProofs!LinksSound` | `LinkNamesOwnMatch` |
| `MatchingProofs!EndedByMember` | `EndedByMemberOrExpiry` |
| `MatchingProofs!EndedForGood` | `EndedStaysEnded` |
| `MatchingProofs!KeysAgree` | `InSeries`: `KeysAgreeAtRest` |
| `MatchingProofs!BothHear` | `InSeries`: `BothTold` |
| `MatchingProofs!Implements` | `InSeries`: `ImplementsMatchMaker`, a step simulation |
| `MatchingProofs!MatchesExclude` | `InSeries`: what `Promise` says, of the gateway |
| `SessionsProofs!TypeCorrect` | `TypeOK` |
| `SessionsProofs!TokensRotate` | `OneLiveToken` |
| `SessionsProofs!NobodyLockedOut` | `ActiveHasToken` |
| `SessionsProofs!LogoutComplete` | `LogoutDropsTokens` |
| `SessionsProofs!EmailChangeEndsAll` | `AllInvalidated` |
| `VideoRoomProofs!TypeCorrect` | `TypeOK` |
| `VideoRoomProofs!GhostsLeave` | `NoGhosts` |
| `VideoRoomProofs!CallsStart` | `OneEach`: `OneKnowsTheOther` |
| `VideoRoomProofs!OffersAnnounced` | `OneEach`: `NoStrangers` |
| `AccountProofs!TypeCorrect` | `TypeOK` |
| `AccountProofs!NobodyFreesHimself` | `SuspensionServed` |
| `AccountProofs!PasswordSpared` | `PasswordKept` |
| `RecoveryProofs!TypeCorrect` | `TypeOK` |
| `RecoveryProofs!NoneOutlives` | `NothingOutlives` |
| `RecoveryProofs!OwnerVerifies` | `VerifiedByOwner` |
| `RecoveryProofs!OneAtMost` | `OneOfAKind` |
| `SecondFactorProofs!TypeCorrect` | `TypeOK` |
| `SecondFactorProofs!RoutesAskForCode` | `CodeBeforeRoutes` |
| `SecondFactorProofs!FourGuesses` | `GuessLimit` |
| `SecondFactorProofs!PassesOnce` | `OncePerCode` |
| `SignUpProofs!TypeCorrect` | `TypeOK` |
| `SignUpProofs!NeverEmpty` | with more connections than requests in flight and lost ones together, one is always free |
| `SignUpProofs!LoginIsLinked` | `SignedInLinked` |
| `SignUpProofs!LinksOnce` | `LinkedOnce` |

The assumptions are the modules' own (`ConstantsAssumption`, `SessionsAssumption`,
`VideoRoomAssumption`, `AccountAssumption`, `RecoveryAssumption`,
`SecondFactorAssumption`, `SignUpAssumption`): connections are numbers with an owner,
sockets have a user and a process, bounds are naturals, a profile has an e-mail, an
update body sets columns to values they may have and no password, handlers are no
sockets, a session has an account, rows of `sessions` are not rows of `refresh_tokens`,
`None` is no other value. Any number of handlers, users, connections,
processes, codes, sessions, failures and crashes is covered. Three results ask for more,
because the code is only right under it:

- `InSeries` (`KeysAgree`, `BothHear`, `Implements`, `MatchesExclude`): one handler in
  flight, no failures, one open connection per user, finitely many connections in all.
  Users may close a connection and open another, as often as they like; users, matches
  and the clock are unbounded. `matching_serial` is an instance. With two handlers
  `matching_told` shows a third user being told, and two starts match one user twice.
- `OneEach` (`CallsStart`, `OffersAnnounced`): one socket per user, since the events
  name a user and the leaving of one tab reads as the user's. `GhostsLeave` and the
  types do without it.
- `NeverEmpty`: the handlers are finitely many and fewer than the connections left.

**Matching.** `LinkNamesOwnMatch` is not inductive: that a handler is about to write a
link to a match in which the user is stored depends on what the handler read several
commands ago. The inductive invariant is `TInv /\ Facts`. `TInv` adds to `TypeOK` that a
handler has a connection, a pair or a match wherever its step uses one (`LocalsOK`).
`Facts` says: an id drawn and not yet stored is in nobody else's hands (`Fresh`); a
handler past the storing step holds the very pair that was stored (`LocalsAgree`); a
live or linked match was stored (`Stored`); a handler about to delete a match is one of
its users', which holds because it came either over the user's own link or through the
membership check (`Deleter`); and `LinkNamesOwnMatch`. The two action properties follow
from it step by step.

**Matching in series.** At rest the keys agree; what makes this inductive is to say what
they hold while the one handler is on its way (`Turn`). A match is linked from both its
users, but while its links are being stored (`Linked`). The queue holds one entry, of an
open connection of a user without a link; a second one only from the `ZADD` that joins
it to the `ZREM` that removes both, and a closed one only while its disconnection is
handled (`QueueFits`). Whoever found a pair is one of it (`PairFits`): this is where a
second handler would break the proof, as it breaks the code. `Heard` follows the events.
For the refinement, `Waits` is the set of entries whose users wait for `MatchMaker`: the
queue, without a caller that joined somebody, and nothing from `SETEX` on. Its
cardinalities are eliminated once (`WaitingIs`); then `RunSimulates` goes through the
commands: `Enqueue` into an empty queue is `Wait`, `StoreMatch` is `Pair`, `RemoveEntry`
is `Leave`, `DeleteMatch` and `ExpireMatch` are `End`, all others stutter.
`MatchesExclude` then comes from the abstract theorem.

**Sessions.** None of the four properties is inductive, as statements of requests
interleave and what one found may be gone when it writes. A session that two requests
never worked on at a time is in the hands of one (`Lone`), and what that one has
dropped, renews or closes is all there is (`Apart`: `Single`, `RotatesBy`, `ClosesBy`):
`OneLiveToken` and `LogoutDropsTokens`. For sessions that were raced for it is a matter
of debts (`Keeps`): whoever took the last token of an active session still owes it one
(`Owes`), and whoever is about to delete tokens ends their sessions in the same
transaction or does not see those of this one (`Spares`). What a statement saw before
it had to wait (`SeenOK`, lemma `Sight`) can only lose rows that are gone for everybody
(`Watch`), so a debt noted then is one still. `AllInvalidated` rests on
`Keyed`: as long as the change of the e-mail holds the account's key nobody has an
insertion in flight, so the tokens it deletes are all there are.

**VideoRoom.** A client's picture of the room lags behind by the events on their way to
its process, so every invariant is about the picture it will have once they have arrived
(`Told`, `Gone`, `Hears`): emitting changes that picture at once on all processes, and a
delivery leaves it as it is. `Believed`: whom a client knows, or will hear of, is in the
room or will be heard to have left. `Mutual`: of two sockets in the room one will know
the other, as the later one's `peer_joined` finds the first in the room wherever it is
delivered. `Followed` has the same for an offer's place in the channel. `Placed` keeps
requests the guard holds to lapsed users. Every step is one of six kinds (`EveryStep`),
and the proofs go by kinds.

**Account.** Who read the account is `Informed` unless a suspension blinded it since: a
request of the account itself passed a guard that found no running suspension, and only
a step that suspends can start one (`StillRuns`), which blinds it (`WriteServed`); the
handshake of a socket and the entity of a confirmation know the status and the end of
the suspension that runs (`Knows`). So an UPDATE that takes a running suspension away is
another user's decision or blind. `PasswordSpared` needs only what a request may hold at
each step (`Setting`): the column is among those written only if the request set it.

**Recovery.** `NothingOutlives` speaks of what is kept, and a request in flight may yet
insert, or save an address. `EraInv` follows those: a request that began in the present
era holds what was so when it began, since only a change of the address starts an era
(`InStep`). `SentHere` ties what is of use to the present address, and `Target` the row
that a change is about to save to the link it came with; `OwnerVerifies` is then a
matter of the one action that verifies. `OneAtMost` rests on `Alone`: as long as a kind is
not raced for, one request at most sends it, there is one key of it at most, and none
between that request's deletion and its insertion.

**SecondFactor.** `CodeBeforeRoutes` rests on `Shut`: a session whose login was gated and
that has not verified was only ever given the claim of that login, which neither
`JwtAuthGuard` on a route without `@SkipM2FA` nor `JwtRefreshStrategy` takes, and so none
of the requests that hand out other claims runs for the session. `Opened` (a refresh token
comes with an access token) makes a second login impossible. `GuessLimit` and
`OncePerCode` rest on `Counted`: as long as a code is not raced for, one handler has it
(`Lone`), and what is in Redis (`KeyCounts`) and what that handler read of it
(`InHand`) is the number of answered guesses.

**SignUp.** Which handlers hold a connection is a function of their step, so the free
ones are counted by cardinalities (`PoolOK`, lemmas `Released`, `Taken`, `Lost`).
`LoginIsLinked` needs only the two steps before a login. `LinksOnce` follows one token
through Redis and the handler that presents it: no two users have it (`Single`), one
handler has it in hand (`Lone`), past the comparison nothing is linked yet or the
deletion is next (`Used`), and after it the token is gone from Redis (`Spent`).

Model-checked only: liveness (`PairedUp`, `Answered`), since TLAPS 1.4.5 has neither
ENABLED nor fairness. Every other property of the passing runs is a theorem. That
`MatchMaker` guarantees nothing about overlapping handlers is no gap of the proof: the
refinement is false there.

## 5. Not modelled

- Reading queries, DTO validation, formatting, logging, configuration, filters,
  interceptors, i18n and the seed: no state the properties speak of.
- `checkRateLimit` returns before it looks at anything (`auth.service.ts:143`), so there
  is no limit to model.
- The e-mail worker: a BullMQ queue whose jobs are not retried. That a mail comes late
  or never is in `Recovery` (a key is used at any time or not at all), and that the
  queue fails in `Fail`. `changePassword` queues its mail inside the `try` after its
  commit (858): the change stays though the request fails.
- Providers of OAuth: external; `Callback` takes every profile they may send.
- The frontend: a client of the modelled handlers, which take its requests in any order.
- Code that nothing reaches or that does nothing: `resetUserPassword`,
  `updateUserSettings` (no route), `createUsersBulk` (empty); `updateOAuthAccount`
  writes a flag nobody reads. The check of the second factor under `@RequireM2FA`
  (`authorization.service.ts:67-75`) is on no route, HTTP or socket. Permissions and
  roles are only read by the modelled routes; that some `users/:id` routes take the id from the query string
  (`users.controller.ts:50`) changes whom a request is about, not what it does, and
  `restoreMe` is refused by its own guard (the account is deleted), which `Account` has.
- A process crash in `VideoRoom` (nothing in the code reacts to it), client cookies, and
  what access tokens still allow after a logout in `Sessions` (they are checked by
  signature only, `jwt.stratgey.ts:35`).

## 6. Plan

In order of weight:

1. What overlapping handlers of `Matching` still guarantee beyond the links: which
   entries, matches and links can be left over, and until when.
2. An abstract account, a register of the last decision that somebody else made, and
   the refinement that shows `Account` without overlapping requests to implement it.
3. `Recovery` composed with `Sessions`: a change of the address that races a refresh.

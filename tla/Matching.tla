------------------------------- MODULE Matching -------------------------------
(***************************************************************************)
(* The matching gateway and its service (backend/src/modules/matching).    *)
(*                                                                         *)
(* Everything the service knows lives in three kinds of Redis keys: the    *)
(* sorted set matching_queue:users, one match:<id> per match and one       *)
(* user_match:<id> per matched user.  A WebSocket message or a disconnect  *)
(* runs a handler that issues one Redis command per await; the commands of *)
(* handlers in flight interleave freely, within one server process and     *)
(* between the processes that share Redis.  One action below is one        *)
(* command together with the code that runs on its reply.                  *)
(***************************************************************************)
EXTENDS Naturals, FiniteSets

CONSTANTS
  Users,        \* accounts, by their numeric id
  Sockets,      \* WebSocket connections, numbered in the order of the text of
                \* their queue entries (how Redis breaks ties between scores)
  Owner,        \* the user a connection authenticated as
  MatchIds,     \* the UUIDs findMatch draws
  Handlers,     \* slots for handlers in flight: bounds the concurrency
  TabsPerUser,  \* how many connections one user keeps open at a time
  MaxClock,     \* bound on Date.now()
  MaxFailures,  \* bound on Redis errors and process crashes
  None

(***************************************************************************)
(* String(user.id), the form in which an id is stored.  A stored id is a   *)
(* string and a user's id is a number, and JavaScript's !== tells every    *)
(* string from every number.                                               *)
(***************************************************************************)
IdText(u) == [text |-> u]

ASSUME ConstantsAssumption ==
  /\ Sockets \subseteq Nat
  /\ Owner \in [Sockets -> Users]
  /\ {MaxClock, MaxFailures, TabsPerUser} \subseteq Nat
  /\ None \notin Users \cup Sockets \cup MatchIds \cup (Sockets \X Sockets)
  /\ \A u, v \in Users : IdText(u) # v

VARIABLES
  conn,        \* each connection: "fresh", "open" or "closed"
  now,         \* Date.now()
  queue,       \* the entries of matching_queue:users, one per connection
  since,       \* their scores
  match,       \* the ids whose match:<id> key exists
  data,        \* what SETEX stored under match:<id>: the two queue entries,
               \* or None while the id was never used (a history variable: it
               \* outlives the key)
  user_match,  \* user_match:<id>, None where there is no such key
  told,        \* the match_found events emitted (a history variable)
  failures,    \* failures so far
  pc, sock, entry, pair, mid
               \* per handler: the command it issues next, its connection, the
               \* entry cancelMatching found, the entries findMatch picked, the
               \* match it works on

redis == <<queue, since, match, data, user_match>>
local == <<pc, sock, entry, pair, mid>>
vars  == <<conn, now, redis, told, failures, local>>

Pairs == Sockets \X Sockets

CancelSteps == {"cancel_zrange", "cancel_zrem", "cancel_get_link"}
EndSteps    == {"end_get", "end_del_match", "end_del_link1", "end_del_link2"}
QueueSteps  == {"get_link", "zadd", "zrange"}
LinkSteps   == {"set_link1", "set_link2", "zrem", "notify"}
Steps       == CancelSteps \cup EndSteps \cup QueueSteps \cup LinkSteps
                 \cup {"idle", "set_match", "check_member"}

\* The users of a match, as its stored data names them.
Members(m) == {Owner[data[m][1]], Owner[data[m][2]]}

(***************************************************************************)
(* ZRANGE returns the entries by score, then by text.  FirstTwo holds the  *)
(* first two entries, or nothing when there are fewer; FirstOf(u) holds    *)
(* the first entry of user u, what Array.find stops at.                    *)
(***************************************************************************)
Before(s, t) == since[s] < since[t] \/ (since[s] = since[t] /\ s < t)

\* (mutant of FirstTwo) Fewer than three entries count as nobody.
FirstTwoOfThree ==
  {p \in queue \X queue :
     /\ Cardinality(queue) > 2
     /\ Before(p[1], p[2])
     /\ \A s \in queue \ {p[1], p[2]} : Before(p[2], s)}

FirstTwo ==
  {p \in queue \X queue :
     /\ Before(p[1], p[2])
     /\ \A s \in queue \ {p[1], p[2]} : Before(p[2], s)}

FirstOf(u) ==
  {s \in queue : /\ Owner[s] = u
                 /\ \A t \in queue \ {s} : Owner[t] = u => Before(s, t)}

\* (mutant of UsedIds) An id is free again once its key is gone.
IdsOfLiveKeys ==
  match \cup {mid[h] : h \in {g \in Handlers : pc[g] = "set_match"}}

\* uuidv4() never returns an id that is in use or was.
UsedIds  == {m \in MatchIds : data[m] # None}
              \cup {mid[h] : h \in {g \in Handlers : pc[g] = "set_match"}}
FreshIds == MatchIds \ UsedIds

Init ==
  /\ conn       = [s \in Sockets |-> "fresh"]
  /\ now        = 0
  /\ queue      = {}
  /\ since      = [s \in Sockets |-> 0]
  /\ match      = {}
  /\ data       = [m \in MatchIds |-> None]
  /\ user_match = [u \in Users |-> None]
  /\ told       = {}
  /\ failures   = 0
  /\ pc         = [h \in Handlers |-> "idle"]
  /\ sock       = [h \in Handlers |-> None]
  /\ entry      = [h \in Handlers |-> None]
  /\ pair       = [h \in Handlers |-> None]
  /\ mid        = [h \in Handlers |-> None]

-------------------------------------------------------------------------------
(***************************************************************************)
(* Control of a handler.                                                   *)
(***************************************************************************)

\* A free slot starts a handler of connection s at step first.
Begin(h, s, first) ==
  /\ pc[h] = "idle"
  /\ pc'   = [pc EXCEPT ![h] = first]
  /\ sock' = [sock EXCEPT ![h] = s]

Goto(h, from, to) ==
  /\ pc[h] = from
  /\ pc' = [pc EXCEPT ![h] = to]

\* The handlers in H return, or throw; what they held is gone.
Finish(H) ==
  /\ pc'    = [h \in Handlers |-> IF h \in H THEN "idle" ELSE pc[h]]
  /\ sock'  = [h \in Handlers |-> IF h \in H THEN None ELSE sock[h]]
  /\ entry' = [h \in Handlers |-> IF h \in H THEN None ELSE entry[h]]
  /\ pair'  = [h \in Handlers |-> IF h \in H THEN None ELSE pair[h]]
  /\ mid'   = [h \in Handlers |-> IF h \in H THEN None ELSE mid[h]]

-------------------------------------------------------------------------------
(***************************************************************************)
(* Connections and messages.                                               *)
(***************************************************************************)

Connect(s) ==
  /\ conn[s] = "fresh"
  /\ Cardinality({t \in Sockets : Owner[t] = Owner[s] /\ conn[t] = "open"})
       < TabsPerUser
  /\ conn' = [conn EXCEPT ![s] = "open"]
  /\ UNCHANGED <<now, redis, told, failures, local>>

\* handleDisconnect: cancelMatching for the user of the closed connection.
Disconnect(h, s) ==
  /\ conn[s] = "open"
  /\ conn' = [conn EXCEPT ![s] = "closed"]
  /\ Begin(h, s, "cancel_zrange")
  /\ UNCHANGED <<now, redis, told, failures, entry, pair, mid>>

\* Bound: a start is accepted only while MatchIds holds an id for it.
SpareId ==
  Cardinality({h \in Handlers : pc[h] \in QueueSteps}) < Cardinality(FreshIds)

HandleStartMatching(h, s) ==
  /\ conn[s] = "open"
  /\ SpareId
  /\ Begin(h, s, "get_link")
  /\ UNCHANGED <<conn, now, redis, told, failures, entry, pair, mid>>

HandleCancelMatching(h, s) ==
  /\ conn[s] = "open"
  /\ Begin(h, s, "cancel_zrange")
  /\ UNCHANGED <<conn, now, redis, told, failures, entry, pair, mid>>

\* The payload names a match that was announced once; one that never existed
\* is answered like one that is gone.
HandleEndMatch(h, s, m) ==
  /\ conn[s] = "open"
  /\ data[m] # None
  /\ Begin(h, s, "check_member")
  /\ mid' = [mid EXCEPT ![h] = m]
  /\ UNCHANGED <<conn, now, redis, told, failures, entry, pair>>

-------------------------------------------------------------------------------
(***************************************************************************)
(* startMatching and findMatch.                                            *)
(***************************************************************************)

\* (mutant of CheckLink) The link is read and ignored.
IgnoreLink(h) ==
  /\ Goto(h, "get_link", "zadd")
  /\ UNCHANGED <<conn, now, redis, told, failures, sock, entry, pair, mid>>

\* A user who has a match is refused.
CheckLink(h) ==
  /\ pc[h] = "get_link"
  /\ IF user_match[Owner[sock[h]]] # None
       THEN Finish({h})
       ELSE Goto(h, "get_link", "zadd") /\ UNCHANGED <<sock, entry, pair, mid>>
  /\ UNCHANGED <<conn, now, redis, told, failures>>

\* ZADD: a new entry, or a new score for the connection's entry.
Enqueue(h) ==
  /\ Goto(h, "zadd", "zrange")
  /\ \E t \in {now, now + 1} :
       /\ t <= MaxClock
       /\ now'   = t
       /\ since' = [since EXCEPT ![sock[h]] = t]
  /\ queue' = queue \cup {sock[h]}
  /\ UNCHANGED <<conn, match, data, user_match, told, failures, sock, entry,
                 pair, mid>>

\* ZRANGE with fewer than two entries: status "waiting".
FindNobody(h) ==
  /\ pc[h] = "zrange"
  /\ FirstTwo = {}
  /\ Finish({h})
  /\ UNCHANGED <<conn, now, redis, told, failures>>

\* ZRANGE with two entries or more: the first two are the match, whether the
\* caller is one of them or not.
FindPair(h) ==
  /\ Goto(h, "zrange", "set_match")
  /\ \E p \in FirstTwo, m \in FreshIds :
       /\ pair' = [pair EXCEPT ![h] = p]
       /\ mid'  = [mid EXCEPT ![h] = m]
  /\ UNCHANGED <<conn, now, redis, told, failures, sock, entry>>

StoreMatch(h) ==
  /\ Goto(h, "set_match", "set_link1")
  /\ match' = match \cup {mid[h]}
  /\ data'  = [data EXCEPT ![mid[h]] = pair[h]]
  /\ UNCHANGED <<conn, now, queue, since, user_match, told, failures, sock,
                 entry, pair, mid>>

\* (mutants of Link) The whole match is stored instead of its id; the caller
\* is linked instead of the user of the entry.
LinkToData(h, i) ==
  user_match' = [user_match EXCEPT ![Owner[pair[h][i]]] = pair[h]]

LinkCaller(h, i) == user_match' = [user_match EXCEPT ![Owner[sock[h]]] = mid[h]]

Link(h, i) == user_match' = [user_match EXCEPT ![Owner[pair[h][i]]] = mid[h]]

LinkFirst(h) ==
  /\ Goto(h, "set_link1", "set_link2")
  /\ Link(h, 1)
  /\ UNCHANGED <<conn, now, queue, since, match, data, told, failures, sock,
                 entry, pair, mid>>

LinkSecond(h) ==
  /\ Goto(h, "set_link2", "zrem")
  /\ Link(h, 2)
  /\ UNCHANGED <<conn, now, queue, since, match, data, told, failures, sock,
                 entry, pair, mid>>

\* ZREM of the members S: those that are there go.
Remove(S) ==
  /\ queue' = queue \ S
  /\ since' = [s \in Sockets |-> IF s \in S THEN 0 ELSE since[s]]

\* (mutant of RemovePair) Only the caller's entry leaves the queue.
RemoveCaller(h) ==
  /\ Goto(h, "zrem", "notify")
  /\ Remove({sock[h]})
  /\ UNCHANGED <<conn, now, match, data, user_match, told, failures, sock,
                 entry, pair, mid>>

RemovePair(h) ==
  /\ Goto(h, "zrem", "notify")
  /\ Remove({pair[h][1], pair[h][2]})
  /\ UNCHANGED <<conn, now, match, data, user_match, told, failures, sock,
                 entry, pair, mid>>

\* (mutant of NotifyFound) user1 and user2 are told, whoever called, but the
\* second event repeats the first one's peer.
NotifyWrongPeer(h) ==
  /\ pc[h] = "notify"
  /\ told' = told \cup
       {n \in [to : {pair[h][1], pair[h][2]}, mid : {mid[h]},
              peer : {pair[h][2]}] :
          conn[n.to] = "open"}
  /\ Finish({h})
  /\ UNCHANGED <<conn, now, redis, failures>>

\* The caller learns its opponent, the opponent learns self.  Opponent is
\* user2 when the caller is user1, and user1 for any other caller.
NotifyFound(h) ==
  LET callerIsFirst == Owner[sock[h]] = Owner[pair[h][1]]
      opponent      == IF callerIsFirst THEN pair[h][2] ELSE pair[h][1]
      self          == IF callerIsFirst THEN pair[h][1] ELSE pair[h][2]
  IN  /\ pc[h] = "notify"
      /\ told' = told \cup
           {n \in {[to |-> sock[h], mid |-> mid[h], peer |-> opponent],
                   [to |-> opponent, mid |-> mid[h], peer |-> self]} :
              conn[n.to] = "open"}
      /\ Finish({h})
      /\ UNCHANGED <<conn, now, redis, failures>>

-------------------------------------------------------------------------------
(***************************************************************************)
(* cancelMatching, endMatch and the end_match handler.                     *)
(***************************************************************************)

FindEntry(h) ==
  /\ pc[h] = "cancel_zrange"
  /\ IF FirstOf(Owner[sock[h]]) = {}
       THEN /\ Goto(h, "cancel_zrange", "cancel_get_link")
            /\ UNCHANGED entry
       ELSE /\ Goto(h, "cancel_zrange", "cancel_zrem")
            /\ \E s \in FirstOf(Owner[sock[h]]) :
                 entry' = [entry EXCEPT ![h] = s]
  /\ UNCHANGED <<conn, now, redis, told, failures, sock, pair, mid>>

RemoveEntry(h) ==
  /\ Goto(h, "cancel_zrem", "cancel_get_link")
  /\ Remove({entry[h]})
  /\ entry' = [entry EXCEPT ![h] = None]
  /\ UNCHANGED <<conn, now, match, data, user_match, told, failures, sock,
                 pair, mid>>

ReadLink(h) ==
  /\ pc[h] = "cancel_get_link"
  /\ LET m == user_match[Owner[sock[h]]] IN
       IF m = None
         THEN Finish({h})
         ELSE /\ Goto(h, "cancel_get_link", "end_get")
              /\ mid' = [mid EXCEPT ![h] = m]
              /\ UNCHANGED <<sock, entry, pair>>
  /\ UNCHANGED <<conn, now, redis, told, failures>>

\* (mutant of CheckMember) Whoever asks may end the match.
CheckNobody(h) ==
  /\ pc[h] = "check_member"
  /\ IF mid[h] \in match
       THEN /\ Goto(h, "check_member", "end_get")
            /\ UNCHANGED <<sock, entry, pair, mid>>
       ELSE Finish({h})
  /\ UNCHANGED <<conn, now, redis, told, failures>>

\* The end_match handler compares the ids in the match, which are text, with
\* the caller's id, which is a number.
CheckMember(h) ==
  LET u      == Owner[sock[h]]
      member == \E i \in {1, 2} : IdText(Owner[data[mid[h]][i]]) = u
  IN  /\ pc[h] = "check_member"
      /\ IF mid[h] \in match /\ member
           THEN /\ Goto(h, "check_member", "end_get")
                /\ UNCHANGED <<sock, entry, pair, mid>>
           ELSE Finish({h})
      /\ UNCHANGED <<conn, now, redis, told, failures>>

\* endMatch returns at once when the match is gone, and leaves the links.
ReadMatch(h) ==
  /\ pc[h] = "end_get"
  /\ IF mid[h] \in match
       THEN Goto(h, "end_get", "end_del_match")
              /\ UNCHANGED <<sock, entry, pair, mid>>
       ELSE Finish({h})
  /\ UNCHANGED <<conn, now, redis, told, failures>>

DeleteMatch(h) ==
  /\ Goto(h, "end_del_match", "end_del_link1")
  /\ match' = match \ {mid[h]}
  /\ UNCHANGED <<conn, now, queue, since, data, user_match, told, failures,
                 sock, entry, pair, mid>>

\* DEL of a link, whatever it holds by now.
Unlink(h, i) ==
  user_match' = [user_match EXCEPT ![Owner[data[mid[h]][i]]] = None]

UnlinkFirst(h) ==
  /\ Goto(h, "end_del_link1", "end_del_link2")
  /\ Unlink(h, 1)
  /\ UNCHANGED <<conn, now, queue, since, match, data, told, failures, sock,
                 entry, pair, mid>>

UnlinkSecond(h) ==
  /\ pc[h] = "end_del_link2"
  /\ Unlink(h, 2)
  /\ Finish({h})
  /\ UNCHANGED <<conn, now, queue, since, match, data, told, failures>>

-------------------------------------------------------------------------------
(***************************************************************************)
(* The environment: time to live, Redis errors, crashes.                   *)
(***************************************************************************)

\* SETEX gives the match and its links the same time to live, an hour: far
\* longer than a handler takes to store them.
ExpireMatch(m) ==
  /\ m \in match
  /\ \A h \in Handlers : pc[h] \in LinkSteps => mid[h] # m
  /\ match' = match \ {m}
  /\ UNCHANGED <<conn, now, queue, since, data, user_match, told, failures,
                 local>>

\* A link is stored after its match, so it does not expire before it.
ExpireLink(u) ==
  /\ user_match[u] # None
  /\ user_match[u] \notin match
  /\ user_match' = [user_match EXCEPT ![u] = None]
  /\ UNCHANGED <<conn, now, queue, since, match, data, told, failures, local>>

\* A Redis command is rejected: the handler throws, and what it did stays.
RedisError(h) ==
  /\ failures < MaxFailures
  /\ failures' = failures + 1
  /\ pc[h] \notin {"idle", "notify"}
  /\ Finish({h})
  /\ UNCHANGED <<conn, now, redis, told>>

\* A server process stops: its connections close without handleDisconnect and
\* their handlers stop where they are.
Crash(S) ==
  /\ failures < MaxFailures
  /\ failures' = failures + 1
  /\ \E s \in S : conn[s] = "open"
  /\ conn' = [s \in Sockets |->
                IF s \in S /\ conn[s] = "open" THEN "closed" ELSE conn[s]]
  /\ Finish({h \in Handlers : sock[h] \in S})
  /\ UNCHANGED <<now, redis, told>>

-------------------------------------------------------------------------------

Run(h) ==
  \/ CheckLink(h) \/ Enqueue(h) \/ FindNobody(h) \/ FindPair(h) \/ StoreMatch(h)
  \/ LinkFirst(h) \/ LinkSecond(h) \/ RemovePair(h) \/ NotifyFound(h)
  \/ FindEntry(h) \/ RemoveEntry(h) \/ ReadLink(h)
  \/ CheckMember(h) \/ ReadMatch(h) \/ DeleteMatch(h)
  \/ UnlinkFirst(h) \/ UnlinkSecond(h)

Next ==
  \/ \E s \in Sockets : Connect(s)
  \/ \E h \in Handlers, s \in Sockets :
       \/ Disconnect(h, s)
       \/ HandleStartMatching(h, s)
       \/ HandleCancelMatching(h, s)
       \/ \E m \in MatchIds : HandleEndMatch(h, s, m)
  \/ \E h \in Handlers : Run(h)
  \/ \E h \in Handlers : RedisError(h)
  \/ \E S \in SUBSET Sockets : Crash(S)
  \/ \E m \in MatchIds : ExpireMatch(m)
  \/ \E u \in Users : ExpireLink(u)

Spec == Init /\ [][Next]_vars

\* Redis answers every command and Node runs the code behind the await.
FairSpec == Spec /\ \A h \in Handlers : WF_vars(Run(h))

-------------------------------------------------------------------------------
(***************************************************************************)
(* What holds whatever interleaves or fails.                               *)
(***************************************************************************)

\* Types: entries of the queue are connections, a match is a pair of them.
TypeOK ==
  /\ conn \in [Sockets -> {"fresh", "open", "closed"}]
  /\ now \in Nat
  /\ queue \subseteq Sockets
  /\ since \in [Sockets -> Nat]
  /\ match \subseteq MatchIds
  /\ data \in [MatchIds -> Pairs \cup {None}]
  /\ user_match \in [Users -> MatchIds \cup {None}]
  /\ told \subseteq [to : Sockets, mid : MatchIds, peer : Sockets]
  /\ failures \in Nat
  /\ pc \in [Handlers -> Steps]
  /\ sock \in [Handlers -> Sockets \cup {None}]
  /\ entry \in [Handlers -> Sockets \cup {None}]
  /\ pair \in [Handlers -> Pairs \cup {None}]
  /\ mid \in [Handlers -> MatchIds \cup {None}]

\* A user's link only ever names a match that was stored with that user in it
\* (findMatch stores the match before the links): cancelMatching, which trusts
\* the link, never ends the match of two other users.
LinkNamesOwnMatch ==
  \A u \in Users :
    user_match[u] # None =>
      /\ data[user_match[u]] # None
      /\ u \in Members(user_match[u])

\* A match leaves Redis when its hour is over or when a handler of one of its
\* two users deletes it, however old the link is that the handler followed.
EndedByMemberOrExpiry ==
  [][\A m \in match \ match' :
       \/ ExpireMatch(m)
       \/ \E h \in Handlers : /\ pc[h] = "end_del_match"
                              /\ mid[h] = m
                              /\ Owner[sock[h]] \in Members(m)]_vars

\* An id that was stored is never stored again: once a match has ended, no
\* handler still in flight brings it back or rewrites who was in it.
EndedStaysEnded ==
  [][\A m \in MatchIds :
       data[m] # None => /\ data'[m] = data[m]
                         /\ m \in match' => m \in match]_vars

-------------------------------------------------------------------------------
(***************************************************************************)
(* What holds while handlers do not overlap and nothing fails: Matching    *)
(* implements MatchMaker.  A match begins when SETEX stores it: from then  *)
(* on its two entries no longer wait, though they leave the queue later,   *)
(* and an entry that just joined another one does not wait at all.         *)
(***************************************************************************)

AtStep(steps) == {h \in Handlers : pc[h] \in steps}

Waiting ==
  LET taken  == {pair[h][i] : h \in AtStep({"set_link1", "set_link2", "zrem"}),
                              i \in {1, 2}}
      left   == queue \ taken
      joined == {sock[h] : h \in AtStep({"zrange", "set_match"})}
  IN  {Owner[s] : s \in IF Cardinality(left) < 2 THEN left ELSE left \ joined}

MM == INSTANCE MatchMaker WITH
        waiting <- Waiting,
        couple  <- [m \in MatchIds |-> IF m \in match THEN Members(m) ELSE {}],
        used    <- {m \in MatchIds : data[m] # None}

\* Every Redis command of every handler is a step of the abstract matchmaker
\* or none: the code between two commands never shows.
ImplementsMatchMaker == MM!Spec

AtRest == \A h \in Handlers : pc[h] = "idle"

\* Between two messages the three kinds of keys agree: a match is linked from
\* both its users, a link without its match is one about to expire, and the
\* queue holds at most one entry, of an open connection of an unlinked user.
KeysAgreeAtRest ==
  AtRest =>
    /\ \A m \in match, u \in Users : u \in Members(m) => user_match[u] = m
    /\ \A s \in queue : conn[s] = "open" /\ user_match[Owner[s]] = None
    /\ \A s, t \in queue : s = t

\* Both users of a match, and nobody else, hear of it, each with the other's
\* connection as its peer.
BothTold ==
  AtRest =>
    \A m \in MatchIds :
      {n \in told : n.mid = m} =
        IF data[m] = None THEN {}
        ELSE {[to |-> data[m][1], mid |-> m, peer |-> data[m][2]],
              [to |-> data[m][2], mid |-> m, peer |-> data[m][1]]}

\* Two entries in the queue do not stay there: their users are matched with
\* each other, and told.
PairedUp ==
  \A s, t \in Sockets :
    s # t /\ {s, t} \subseteq queue ~>
      \E m \in match : {[to |-> s, mid |-> m, peer |-> t],
                        [to |-> t, mid |-> m, peer |-> s]} \subseteq told

-------------------------------------------------------------------------------
(***************************************************************************)
(* What comments of the code say and the code does not do.                 *)
(***************************************************************************)

\* matching.gateway.ts:85, "Notify both users of the match": match_found goes
\* to the users of the match it announces.
OnlyMembersTold == \A n \in told : Owner[n.to] \in Members(n.mid)

\* matching.gateway.ts:175, "Check if user is part of this match": who is part
\* of it may end it.
MemberMayEnd ==
  [][\A h \in Handlers :
       /\ pc[h] = "check_member"
       /\ pc'[h] # "check_member"
       /\ mid[h] \in match
       /\ Owner[sock[h]] \in Members(mid[h])
       => pc'[h] = "end_get"]_vars

===============================================================================

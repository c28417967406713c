---------------------------- MODULE MatchingProofs ----------------------------
(***************************************************************************)
(* Theorems about Matching, for any number of users, connections, handlers *)
(* in flight, Redis errors and crashes.                                    *)
(*                                                                         *)
(* The argument.  A handler that creates a match works on an id nobody     *)
(* else uses (Fresh), so what it stored under the id is still what it      *)
(* picked when it writes the links (LocalsAgree): a link always names a    *)
(* match of its user.  cancelMatching follows its own user's link, and     *)
(* end_match lets no caller pass, so a handler that deletes a match works  *)
(* for one of the two users of it (Deleter).                               *)
(*                                                                         *)
(* One handler at a time, without failures and with one open connection    *)
(* per user, more is true.  Turn says what the keys hold while the handler *)
(* is on its way: a match is linked from both users but while its links    *)
(* are being stored, and the queue holds at most one entry but while two   *)
(* are about to be matched.  At rest that is KeysAgreeAtRest.  Waits gives *)
(* the set of entries that wait according to MatchMaker, and each command  *)
(* either leaves it and the matches alone or is one MatchMaker step.       *)
(***************************************************************************)
EXTENDS Matching, FiniteSetTheorems, TLAPS

\* What a handler holds at each of its steps.
LocalsOK ==
  \A h \in Handlers :
    /\ pc[h] # "idle" => sock[h] \in Sockets
    /\ pc[h] \in LinkSteps \cup {"set_match"} =>
         pair[h] \in Pairs /\ mid[h] \in MatchIds
    /\ pc[h] \in EndSteps \cup {"check_member"} => mid[h] \in MatchIds
    /\ pc[h] = "cancel_zrem" => entry[h] \in Sockets

TInv == TypeOK /\ LocalsOK

\* The id about to be stored is new and one handler's only.
Fresh ==
  \A g, h \in Handlers :
    pc[h] = "set_match" =>
      /\ data[mid[h]] = None
      /\ g # h /\ pc[g] = "set_match" => mid[g] # mid[h]

\* A handler past SETEX holds what is stored.
LocalsAgree ==
  \A h \in Handlers : pc[h] \in LinkSteps => data[mid[h]] = pair[h]

Stored == \A m \in match : data[m] # None

\* A handler in endMatch works for a user of the match.
Deleter ==
  \A h \in Handlers :
    pc[h] \in EndSteps => /\ data[mid[h]] # None
                          /\ Owner[sock[h]] \in Members(mid[h])

-------------------------------------------------------------------------------
(***************************************************************************)
(* Types.                                                                  *)
(***************************************************************************)

LEMMA TypesInit == Init => TInv
  BY ConstantsAssumption
  DEF Init, TInv, TypeOK, LocalsOK, Steps, CancelSteps, EndSteps, QueueSteps,
      LinkSteps

LEMMA TypesStep == TInv /\ [Next]_vars => TInv'
<1> SUFFICES ASSUME TInv, [Next]_vars
             PROVE  TInv'
  OBVIOUS
<1> USE ConstantsAssumption
    DEF TInv, TypeOK, LocalsOK, Steps, CancelSteps, EndSteps, QueueSteps,
        LinkSteps, Pairs, redis, local
<1>1. ASSUME NEW s \in Sockets, Connect(s)
      PROVE  TInv'
  BY <1>1 DEF Connect
<1>2. ASSUME NEW h \in Handlers, NEW s \in Sockets, Disconnect(h, s)
      PROVE  TInv'
  BY <1>2 DEF Disconnect, Begin
<1>3. ASSUME NEW h \in Handlers, NEW s \in Sockets, HandleStartMatching(h, s)
      PROVE  TInv'
  BY <1>3 DEF HandleStartMatching, Begin
<1>4. ASSUME NEW h \in Handlers, NEW s \in Sockets, HandleCancelMatching(h, s)
      PROVE  TInv'
  BY <1>4 DEF HandleCancelMatching, Begin
<1>5. ASSUME NEW h \in Handlers, NEW s \in Sockets, NEW m \in MatchIds,
             HandleEndMatch(h, s, m)
      PROVE  TInv'
  BY <1>5 DEF HandleEndMatch, Begin
<1>6. ASSUME NEW h \in Handlers, Run(h)
      PROVE  TInv'
  <2>1. CASE CheckLink(h)
    BY <2>1 DEF CheckLink, Finish, Goto
  <2>2. CASE Enqueue(h)
    <3>1. /\ pc[h] = "zadd"
          /\ pc' = [pc EXCEPT ![h] = "zrange"]
          /\ queue' = queue \cup {sock[h]}
          /\ UNCHANGED <<conn, match, data, user_match, told, failures, sock,
                         entry, pair, mid>>
      BY <2>2 DEF Enqueue, Goto
    <3>2. PICK t \in {now, now + 1} :
            now' = t /\ since' = [since EXCEPT ![sock[h]] = t]
      BY <2>2 DEF Enqueue
    <3>3. t \in Nat
      OBVIOUS
    <3>4. TypeOK'
      BY <3>1, <3>2, <3>3
    <3>5. LocalsOK'
      BY <3>1
    <3> QED
      BY <3>4, <3>5
  <2>3. CASE FindNobody(h)
    BY <2>3 DEF FindNobody, Finish
  <2>4. CASE FindPair(h)
    <3>1. PICK p \in FirstTwo, m \in FreshIds :
            /\ pair' = [pair EXCEPT ![h] = p]
            /\ mid'  = [mid EXCEPT ![h] = m]
      BY <2>4 DEF FindPair
    <3>2. p \in Sockets \X Sockets /\ m \in MatchIds
      BY DEF FirstTwo, FreshIds
    <3>3. /\ pc[h] = "zrange"
          /\ pc' = [pc EXCEPT ![h] = "set_match"]
          /\ UNCHANGED <<conn, now, queue, since, match, data, user_match, told,
                         failures, sock, entry>>
      BY <2>4 DEF FindPair, Goto
    <3>4. TypeOK'
      BY <3>1, <3>2, <3>3
    <3>5. LocalsOK'
      BY <3>1, <3>2, <3>3
    <3> QED
      BY <3>4, <3>5
  <2>5. CASE StoreMatch(h)
    BY <2>5 DEF StoreMatch, Goto
  <2>6. CASE LinkFirst(h)
    BY <2>6 DEF LinkFirst, Goto, Link
  <2>7. CASE LinkSecond(h)
    BY <2>7 DEF LinkSecond, Goto, Link
  <2>8. CASE RemovePair(h)
    BY <2>8 DEF RemovePair, Goto, Remove
  <2>9. CASE NotifyFound(h)
    BY <2>9 DEF NotifyFound, Finish
  <2>10. CASE FindEntry(h)
    BY <2>10 DEF FindEntry, Goto, FirstOf
  <2>11. CASE RemoveEntry(h)
    BY <2>11 DEF RemoveEntry, Goto, Remove
  <2>12. CASE ReadLink(h)
    <3>1. CASE user_match[Owner[sock[h]]] = None
      BY <2>12, <3>1 DEF ReadLink, Finish
    <3>2. CASE user_match[Owner[sock[h]]] # None
      <4>1. /\ pc[h] = "cancel_get_link"
            /\ pc'  = [pc EXCEPT ![h] = "end_get"]
            /\ mid' = [mid EXCEPT ![h] = user_match[Owner[sock[h]]]]
            /\ UNCHANGED <<conn, now, queue, since, match, data, user_match,
                           told, failures, sock, entry, pair>>
        BY <2>12, <3>2 DEF ReadLink, Goto
      <4>2. user_match[Owner[sock[h]]] \in MatchIds
        BY <4>1, <3>2
      <4> QED
        BY <4>1, <4>2
    <3> QED
      BY <3>1, <3>2
  <2>13. CASE CheckMember(h)
    BY <2>13 DEF CheckMember, Goto, Finish
  <2>14. CASE ReadMatch(h)
    BY <2>14 DEF ReadMatch, Goto, Finish
  <2>15. CASE DeleteMatch(h)
    BY <2>15 DEF DeleteMatch, Goto
  <2>16. CASE UnlinkFirst(h)
    BY <2>16 DEF UnlinkFirst, Goto, Unlink
  <2>17. CASE UnlinkSecond(h)
    BY <2>17 DEF UnlinkSecond, Finish, Unlink
  <2> QED
    BY <1>6, <2>1, <2>2, <2>3, <2>4, <2>5, <2>6, <2>7, <2>8, <2>9, <2>10,
       <2>11, <2>12, <2>13, <2>14, <2>15, <2>16, <2>17
    DEF Run
<1>7. ASSUME NEW h \in Handlers, RedisError(h)
      PROVE  TInv'
  BY <1>7 DEF RedisError, Finish
<1>8. ASSUME NEW S \in SUBSET Sockets, Crash(S)
      PROVE  TInv'
  BY <1>8 DEF Crash, Finish
<1>9. ASSUME NEW m \in MatchIds, ExpireMatch(m)
      PROVE  TInv'
  BY <1>9 DEF ExpireMatch
<1>10. ASSUME NEW u \in Users, ExpireLink(u)
       PROVE  TInv'
  BY <1>10 DEF ExpireLink
<1>11. CASE UNCHANGED vars
  BY <1>11 DEF vars
<1> QED
  BY <1>1, <1>2, <1>3, <1>4, <1>5, <1>6, <1>7, <1>8, <1>9, <1>10, <1>11
  DEF Next

\* Every reachable state has the types TypeOK states: no handler writes a key,
\* an entry or a link that is not one.
THEOREM TypeCorrect == Spec => []TypeOK
<1>1. Init => TInv
  BY TypesInit
<1>2. TInv /\ [Next]_vars => TInv'
  BY TypesStep
<1>3. TInv => TypeOK
  BY DEF TInv
<1> QED
  BY <1>1, <1>2, <1>3, PTL DEF Spec

-------------------------------------------------------------------------------
(***************************************************************************)
(* The inductive invariant.                                                *)
(***************************************************************************)

Facts == Fresh /\ LocalsAgree /\ Stored /\ Deleter /\ LinkNamesOwnMatch

LEMMA FactsInit == Init => Facts
  BY ConstantsAssumption
  DEF Init, Facts, Fresh, LocalsAgree, Stored, Deleter, LinkNamesOwnMatch,
      EndSteps, LinkSteps

LEMMA FactsStep == TInv /\ Facts /\ [Next]_vars => Facts'
<1> SUFFICES ASSUME TInv, Facts, [Next]_vars
             PROVE  Facts'
  OBVIOUS
<1> USE ConstantsAssumption
    DEF TInv, TypeOK, LocalsOK, Facts, Fresh, LocalsAgree, Stored, Deleter,
        LinkNamesOwnMatch, Members, EndSteps, LinkSteps, Pairs, redis, local
<1>1. ASSUME NEW s \in Sockets, Connect(s)
      PROVE  Facts'
  BY <1>1 DEF Connect
<1>2. ASSUME NEW h \in Handlers, NEW s \in Sockets, Disconnect(h, s)
      PROVE  Facts'
  BY <1>2 DEF Disconnect, Begin
<1>3. ASSUME NEW h \in Handlers, NEW s \in Sockets, HandleStartMatching(h, s)
      PROVE  Facts'
  BY <1>3 DEF HandleStartMatching, Begin
<1>4. ASSUME NEW h \in Handlers, NEW s \in Sockets, HandleCancelMatching(h, s)
      PROVE  Facts'
  BY <1>4 DEF HandleCancelMatching, Begin
<1>5. ASSUME NEW h \in Handlers, NEW s \in Sockets, NEW m \in MatchIds,
             HandleEndMatch(h, s, m)
      PROVE  Facts'
  BY <1>5 DEF HandleEndMatch, Begin
<1>6. ASSUME NEW h \in Handlers, Run(h)
      PROVE  Facts'
  <2>1. CASE CheckLink(h)
    BY <2>1 DEF CheckLink, Finish, Goto
  <2>2. CASE Enqueue(h)
    BY <2>2 DEF Enqueue, Goto
  <2>3. CASE FindNobody(h)
    BY <2>3 DEF FindNobody, Finish
  <2>4. CASE FindPair(h)
    <3>1. PICK p \in FirstTwo, m \in FreshIds :
            /\ pair' = [pair EXCEPT ![h] = p]
            /\ mid'  = [mid EXCEPT ![h] = m]
      BY <2>4 DEF FindPair
    <3>2. /\ m \in MatchIds
          /\ data[m] = None
          /\ \A g \in Handlers : pc[g] = "set_match" => mid[g] # m
      BY DEF FreshIds, UsedIds
    <3>3. /\ pc[h] = "zrange"
          /\ pc' = [pc EXCEPT ![h] = "set_match"]
          /\ UNCHANGED <<match, data, user_match, sock>>
      BY <2>4 DEF FindPair, Goto
    <3>4. Fresh'
      BY <3>1, <3>2, <3>3
    <3>5. (LocalsAgree /\ Stored /\ Deleter /\ LinkNamesOwnMatch)'
      BY <3>1, <3>2, <3>3
    <3> QED
      BY <3>4, <3>5
  <2>5. CASE StoreMatch(h)
    <3>1. /\ pc[h] = "set_match"
          /\ pc' = [pc EXCEPT ![h] = "set_link1"]
          /\ match' = match \cup {mid[h]}
          /\ data' = [data EXCEPT ![mid[h]] = pair[h]]
          /\ UNCHANGED <<user_match, sock, pair, mid>>
      BY <2>5 DEF StoreMatch, Goto
    <3>2. mid[h] \in MatchIds /\ data[mid[h]] = None /\ pair[h] \in Pairs
      BY <3>1
    <3>3. /\ data'[mid[h]] = pair[h]
          /\ \A m \in MatchIds : data[m] # None => data'[m] = data[m]
      BY <3>1, <3>2
    <3>4. Fresh'
      BY <3>1, <3>2
    <3>5. LocalsAgree'
      BY <3>1, <3>2, <3>3
    <3>6. Stored'
      BY <3>1, <3>2, <3>3
    <3>7. Deleter'
      BY <3>1, <3>2, <3>3
    <3>8. LinkNamesOwnMatch'
      BY <3>1, <3>2, <3>3
    <3> QED
      BY <3>4, <3>5, <3>6, <3>7, <3>8
  <2>6. CASE LinkFirst(h)
    BY <2>6 DEF LinkFirst, Goto, Link
  <2>7. CASE LinkSecond(h)
    BY <2>7 DEF LinkSecond, Goto, Link
  <2>8. CASE RemovePair(h)
    BY <2>8 DEF RemovePair, Goto
  <2>9. CASE NotifyFound(h)
    BY <2>9 DEF NotifyFound, Finish
  <2>10. CASE FindEntry(h)
    BY <2>10 DEF FindEntry, Goto
  <2>11. CASE RemoveEntry(h)
    BY <2>11 DEF RemoveEntry, Goto
  <2>12. CASE ReadLink(h)
    <3>1. CASE user_match[Owner[sock[h]]] = None
      BY <2>12, <3>1 DEF ReadLink, Finish
    <3>2. CASE user_match[Owner[sock[h]]] # None
      <4> DEFINE m == user_match[Owner[sock[h]]]
      <4>1. /\ pc[h] = "cancel_get_link"
            /\ pc'  = [pc EXCEPT ![h] = "end_get"]
            /\ mid' = [mid EXCEPT ![h] = m]
            /\ UNCHANGED <<match, data, user_match, sock, pair>>
        BY <2>12, <3>2 DEF ReadLink, Goto
      <4>2. sock[h] \in Sockets /\ Owner[sock[h]] \in Users
        BY <4>1
      <4>3. m \in MatchIds /\ data[m] # None /\ Owner[sock[h]] \in Members(m)
        BY <4>2, <3>2
      <4>4. Deleter'
        BY <4>1, <4>3
      <4>5. (Fresh /\ LocalsAgree /\ Stored /\ LinkNamesOwnMatch)'
        BY <4>1
      <4> QED
        BY <4>4, <4>5
    <3> QED
      BY <3>1, <3>2
  <2>13. CASE CheckMember(h)
    \* No text is a number: the handler always refuses.
    <3>1. pc[h] = "check_member"
      BY <2>13 DEF CheckMember
    <3>2. \A i \in {1, 2} : mid[h] \in match =>
             IdText(Owner[data[mid[h]][i]]) # Owner[sock[h]]
      <4> SUFFICES ASSUME NEW i \in {1, 2}, mid[h] \in match
                   PROVE  IdText(Owner[data[mid[h]][i]]) # Owner[sock[h]]
        OBVIOUS
      <4>1. sock[h] \in Sockets /\ data[mid[h]] \in Sockets \X Sockets
        BY <3>1
      <4>2. Owner[sock[h]] \in Users /\ Owner[data[mid[h]][i]] \in Users
        BY <4>1
      <4> QED
        BY <4>2
    <3>3. Finish({h}) /\ UNCHANGED <<match, data, user_match>>
      BY <2>13, <3>2 DEF CheckMember
    <3> QED
      BY <3>3 DEF Finish
  <2>14. CASE ReadMatch(h)
    BY <2>14 DEF ReadMatch, Goto, Finish
  <2>15. CASE DeleteMatch(h)
    BY <2>15 DEF DeleteMatch, Goto
  <2>16. CASE UnlinkFirst(h)
    BY <2>16 DEF UnlinkFirst, Goto, Unlink
  <2>17. CASE UnlinkSecond(h)
    BY <2>17 DEF UnlinkSecond, Finish, Unlink
  <2> QED
    BY <1>6, <2>1, <2>2, <2>3, <2>4, <2>5, <2>6, <2>7, <2>8, <2>9, <2>10,
       <2>11, <2>12, <2>13, <2>14, <2>15, <2>16, <2>17
    DEF Run
<1>7. ASSUME NEW h \in Handlers, RedisError(h)
      PROVE  Facts'
  BY <1>7 DEF RedisError, Finish
<1>8. ASSUME NEW S \in SUBSET Sockets, Crash(S)
      PROVE  Facts'
  BY <1>8 DEF Crash, Finish
<1>9. ASSUME NEW m \in MatchIds, ExpireMatch(m)
      PROVE  Facts'
  BY <1>9 DEF ExpireMatch
<1>10. ASSUME NEW u \in Users, ExpireLink(u)
       PROVE  Facts'
  BY <1>10 DEF ExpireLink
<1>11. CASE UNCHANGED vars
  BY <1>11 DEF vars
<1> QED
  BY <1>1, <1>2, <1>3, <1>4, <1>5, <1>6, <1>7, <1>8, <1>9, <1>10, <1>11
  DEF Next

\* findMatch stores a match before it links its users, under an id nobody else
\* draws: whatever interleaves or fails, a link names a match of its user.
THEOREM LinksSound == Spec => []LinkNamesOwnMatch
<1>1. Init => TInv /\ Facts
  BY TypesInit, FactsInit
<1>2. TInv /\ Facts /\ [Next]_vars => (TInv /\ Facts)'
  BY TypesStep, FactsStep
<1>3. Facts => LinkNamesOwnMatch
  BY DEF Facts
<1> QED
  BY <1>1, <1>2, <1>3, PTL DEF Spec

\* A match ends when its hour is over or when one of its two users has it
\* ended, even if the link that led there was read long before.
THEOREM EndedByMember == Spec => EndedByMemberOrExpiry
<1> DEFINE Ends ==
      \A m \in match \ match' :
        \/ ExpireMatch(m)
        \/ \E h \in Handlers : /\ pc[h] = "end_del_match"
                               /\ mid[h] = m
                               /\ Owner[sock[h]] \in Members(m)
<1>1. Init => TInv /\ Facts
  BY TypesInit, FactsInit
<1>2. TInv /\ Facts /\ [Next]_vars => (TInv /\ Facts)'
  BY TypesStep, FactsStep
<1>3. TInv /\ Facts /\ [Next]_vars => [Ends]_vars
  <2> SUFFICES ASSUME TInv, Facts, Next,
                      NEW m \in match, m \notin match'
               PROVE  \/ ExpireMatch(m)
                      \/ \E h \in Handlers : /\ pc[h] = "end_del_match"
                                             /\ mid[h] = m
                                             /\ Owner[sock[h]] \in Members(m)
    OBVIOUS
  <2>1. \/ \E h \in Handlers : DeleteMatch(h)
        \/ \E n \in MatchIds : ExpireMatch(n)
    BY DEF Next, redis, local, Connect, Disconnect, HandleStartMatching,
           HandleCancelMatching, HandleEndMatch, RedisError, Crash, ExpireLink,
           Run, CheckLink, Enqueue, FindNobody, FindPair, StoreMatch,
           LinkFirst, LinkSecond, RemovePair, NotifyFound, FindEntry,
           RemoveEntry, ReadLink, CheckMember, ReadMatch, UnlinkFirst,
           UnlinkSecond
  <2>2. CASE \E n \in MatchIds : ExpireMatch(n)
    BY <2>2 DEF ExpireMatch
  <2>3. CASE \E h \in Handlers : DeleteMatch(h)
    <3>1. PICK h \in Handlers : DeleteMatch(h)
      BY <2>3
    <3>2. pc[h] = "end_del_match" /\ mid[h] = m
      BY <3>1 DEF DeleteMatch, Goto
    <3> QED
      BY <3>2 DEF Facts, Deleter, EndSteps
  <2> QED
    BY <2>1, <2>2, <2>3
<1> QED
  BY <1>1, <1>2, <1>3, PTL DEF Spec, EndedByMemberOrExpiry

\* Once stored, a match is never stored again nor changed, and once over it
\* stays over, whatever handler is still in flight.
THEOREM EndedForGood == Spec => EndedStaysEnded
<1> DEFINE Keeps == \A m \in MatchIds :
                      data[m] # None => /\ data'[m] = data[m]
                                        /\ m \in match' => m \in match
<1>1. Init => TInv /\ Facts
  BY TypesInit, FactsInit
<1>2. TInv /\ Facts /\ [Next]_vars => (TInv /\ Facts)'
  BY TypesStep, FactsStep
<1>3. TInv /\ Facts /\ [Next]_vars => [Keeps]_vars
  <2> SUFFICES ASSUME TInv, Facts, Next,
                      NEW m \in MatchIds, data[m] # None
               PROVE  data'[m] = data[m] /\ (m \in match' => m \in match)
    OBVIOUS
  <2>1. \/ data' = data /\ match' \subseteq match
        \/ \E h \in Handlers : StoreMatch(h)
    BY DEF Next, redis, local, Connect, Disconnect, HandleStartMatching,
           HandleCancelMatching, HandleEndMatch, RedisError, Crash, ExpireLink,
           ExpireMatch, Run, CheckLink, Enqueue, FindNobody, FindPair,
           LinkFirst, LinkSecond, RemovePair, NotifyFound, FindEntry,
           RemoveEntry, ReadLink, CheckMember, ReadMatch, DeleteMatch,
           UnlinkFirst, UnlinkSecond
  <2>2. CASE \E h \in Handlers : StoreMatch(h)
    <3>1. PICK h \in Handlers : StoreMatch(h)
      BY <2>2
    <3>2. pc[h] = "set_match" /\ data[mid[h]] = None /\ mid[h] \in MatchIds
      BY <3>1 DEF StoreMatch, Goto, Facts, Fresh, TInv, LocalsOK
    <3> QED
      BY <3>1, <3>2 DEF StoreMatch, TInv, TypeOK
  <2> QED
    BY <2>1, <2>2
<1> QED
  BY <1>1, <1>2, <1>3, PTL DEF Spec, EndedStaysEnded

-------------------------------------------------------------------------------
(***************************************************************************)
(* One handler at a time, no failures, one open connection per user.       *)
(***************************************************************************)

\* Connections may close and others of the same users open.
InSeries == /\ \E h \in Handlers : Handlers = {h}
            /\ MaxFailures = 0
            /\ TabsPerUser = 1
            /\ IsFiniteSet(Sockets)

OneTab ==
  \A s, t \in Sockets :
    conn[s] = "open" /\ conn[t] = "open" /\ Owner[s] = Owner[t] => s = t

Storing == {"set_link1", "set_link2", "zrem"}

\* A match is linked from both its users, unless h is storing its links.
Linked(h) ==
  \A m \in match :
    \/ \A u \in Members(m) : user_match[u] = m
    \/ pc[h] \in {"set_link1", "set_link2"} /\ mid[h] = m

\* The queue holds one entry, of an open connection of a user without a link,
\* but for what h is about to do.
QueueFits(h) ==
  \A s \in queue :
    /\ \/ conn[s] = "open"
       \/ pc[h] \in {"cancel_zrange", "cancel_zrem"} /\ sock[h] = s
    /\ user_match[Owner[s]] = None \/ pc[h] \in {"set_link2", "zrem"}
    /\ \A t \in queue :
         s = t \/ pc[h] \in {"zrange", "set_match"} \cup Storing

\* A handler that has a pair was called by one of the two, and the queue holds
\* nobody else.
PairFits(h) ==
  /\ pc[h] \in {"set_match"} \cup LinkSteps =>
       /\ pair[h][1] # pair[h][2] /\ sock[h] \in {pair[h][1], pair[h][2]}
       /\ conn[pair[h][1]] = "open" /\ conn[pair[h][2]] = "open"
       /\ queue = IF pc[h] = "notify" THEN {} ELSE {pair[h][1], pair[h][2]}
  /\ pc[h] \in LinkSteps => mid[h] \in match
  /\ pc[h] = "set_link2" => /\ user_match[Owner[pair[h][1]]] = mid[h]
                            /\ user_match[Owner[pair[h][2]]] = None

CallFits(h) ==
  /\ pc[h] \in QueueSteps => conn[sock[h]] = "open"
  /\ pc[h] = "zadd" => user_match[Owner[sock[h]]] = None
  /\ pc[h] = "zrange" => /\ sock[h] \in queue
                         /\ \A s, t \in queue \ {sock[h]} : s = t
  /\ pc[h] = "cancel_zrem" => entry[h] \in queue
  /\ pc[h] \in EndSteps \ {"end_get"} =>
       \A u \in Members(mid[h]) : user_match[u] \in {mid[h], None}
  /\ pc[h] \in {"end_del_link1", "end_del_link2"} => mid[h] \notin match

\* What there is to hear of a match.
News(m) == {[to |-> data[m][1], mid |-> m, peer |-> data[m][2]],
            [to |-> data[m][2], mid |-> m, peer |-> data[m][1]]}

Heard(h) ==
  \A m \in MatchIds :
    {n \in told : n.mid = m} =
      IF data[m] = None \/ (pc[h] \in LinkSteps /\ mid[h] = m) THEN {}
                                                              ELSE News(m)

Turn(h) == OneTab /\ Linked(h) /\ QueueFits(h) /\ PairFits(h) /\ CallFits(h)

LEMMA Within ==
  ASSUME TypeOK, NEW p \in FirstTwo
  PROVE  /\ p \in Sockets \X Sockets
         /\ p[1] \in queue /\ p[2] \in queue /\ p[1] # p[2]
<1>1. /\ p \in Sockets \X Sockets /\ p[1] \in queue /\ p[2] \in queue
      /\ Before(p[1], p[2])
  BY DEF FirstTwo, TypeOK
<1>2. since[p[1]] \in Nat /\ p[1] \in Nat
  BY <1>1, ConstantsAssumption DEF TypeOK
<1> QED
  BY <1>1, <1>2 DEF Before

LEMMA PairThere ==
  ASSUME TypeOK, NEW s \in queue, NEW t \in queue, s # t, queue \subseteq {s, t}
  PROVE  FirstTwo # {}
<1>1. s \in Nat /\ t \in Nat /\ since[s] \in Nat /\ since[t] \in Nat
  BY ConstantsAssumption DEF TypeOK
<1>2. Before(s, t) \/ Before(t, s)
  BY <1>1 DEF Before
<1>3. CASE Before(s, t)
  <2>1. <<s, t>> \in FirstTwo
    BY <1>3 DEF FirstTwo
  <2> QED
    BY <2>1
<1>4. CASE Before(t, s)
  <2>1. <<t, s>> \in FirstTwo
    BY <1>4 DEF FirstTwo
  <2> QED
    BY <2>1
<1> QED
  BY <1>2, <1>3, <1>4

LEMMA FirstThere ==
  ASSUME NEW u, \A s, t \in queue : s = t
  PROVE  FirstOf(u) = {s \in queue : Owner[s] = u}
  BY DEF FirstOf

LEMMA TabStep ==
  ASSUME InSeries, TInv, OneTab, [Next]_vars
  PROVE  OneTab'
<1>1. ASSUME NEW s \in Sockets, Connect(s)
      PROVE  OneTab'
  <2> DEFINE T == {t \in Sockets : Owner[t] = Owner[s] /\ conn[t] = "open"}
  <2>1. Cardinality(T) < 1 /\ IsFiniteSet(T)
    BY <1>1, FS_Subset DEF Connect, InSeries
  <2>2. Cardinality(T) \in Nat
    BY <2>1, FS_CardinalityType
  <2>3. Cardinality(T) = 0
    BY <2>1, <2>2
  <2>4. T = {}
    BY <2>1, <2>3, FS_EmptySet
  <2>5. conn' = [conn EXCEPT ![s] = "open"]
    BY <1>1 DEF Connect
  <2> QED
    BY <2>4, <2>5 DEF OneTab, TInv, TypeOK
<1>2. ASSUME NEW h \in Handlers, NEW s \in Sockets, Disconnect(h, s)
      PROVE  OneTab'
  BY <1>2 DEF Disconnect, OneTab, TInv, TypeOK
<1>3. ASSUME NEW S \in SUBSET Sockets, Crash(S)
      PROVE  OneTab'
  BY <1>3 DEF Crash, InSeries, TInv, TypeOK
<1>4. CASE UNCHANGED conn
  BY <1>4 DEF OneTab
<1> QED
  BY <1>1, <1>2, <1>3, <1>4
  DEF Next, vars, HandleStartMatching, HandleCancelMatching, HandleEndMatch,
      RedisError, ExpireLink, ExpireMatch, Run, CheckLink, Enqueue, FindNobody,
      FindPair, StoreMatch, LinkFirst, LinkSecond, RemovePair, NotifyFound,
      FindEntry, RemoveEntry, ReadLink, CheckMember, ReadMatch, DeleteMatch,
      UnlinkFirst, UnlinkSecond

\* The steps at which the queue is in order.
Plain == {"idle", "get_link", "zadd", "cancel_get_link", "check_member"}
           \cup EndSteps

Tidy == \A s \in queue : /\ conn[s] = "open" /\ user_match[Owner[s]] = None
                         /\ \A t \in queue : s = t

LEMMA TidyQueue ==
  ASSUME NEW h
  PROVE  /\ pc[h] \in Plain /\ QueueFits(h) => Tidy
         /\ Tidy => QueueFits(h)
         /\ Tidy' => QueueFits(h)'
  BY DEF Plain, Tidy, QueueFits, Storing, EndSteps

\* A handler starts, or goes on after a read: nothing else changes.
LEMMA QuietTurn ==
  ASSUME NEW h, Turn(h), OneTab', pc[h] \in Plain,
         UNCHANGED <<conn, queue, match, data, user_match>>,
         pc'[h] \in {"idle", "get_link", "cancel_zrange", "cancel_get_link",
                    "check_member", "end_get"},
         pc'[h] = "get_link" => conn[sock'[h]] = "open"
  PROVE  Turn(h)'
<1>1. Tidy'
  BY TidyQueue DEF Turn, Tidy
<1>2. Linked(h)'
  BY DEF Turn, Linked, Members, Plain, EndSteps
<1>3. PairFits(h)' /\ CallFits(h)'
  BY DEF PairFits, CallFits, LinkSteps, QueueSteps, EndSteps
<1> QED
  BY <1>1, <1>2, <1>3, TidyQueue DEF Turn

LEMMA MatchData ==
  ASSUME TInv, Facts, NEW m \in MatchIds, data[m] # None
  PROVE  /\ m # None /\ data[m] \in Sockets \X Sockets
         /\ Owner[data[m][1]] \in Users /\ Owner[data[m][2]] \in Users
         /\ Members(m) \subseteq Users
<1>1. data[m] \in Sockets \X Sockets /\ m # None
  BY ConstantsAssumption DEF TInv, TypeOK, Pairs
<1> QED
  BY <1>1, ConstantsAssumption DEF Members

LEMMA PairData ==
  ASSUME TInv, NEW h \in Handlers, pc[h] \in LinkSteps \cup {"set_match"}
  PROVE  /\ pair[h] \in Sockets \X Sockets
         /\ mid[h] \in MatchIds /\ mid[h] # None
         /\ Owner[pair[h][1]] \in Users /\ Owner[pair[h][2]] \in Users
  BY ConstantsAssumption DEF TInv, LocalsOK, Pairs

LEMMA TurnStep ==
  ASSUME InSeries, TInv, Facts, NEW h \in Handlers, Turn(h), [Next]_vars
  PROVE  Turn(h)'
<1> USE DEF Linked, QueueFits, PairFits, CallFits, Members, EndSteps,
            LinkSteps, QueueSteps, Storing
<1>0. OneTab' /\ Handlers = {h}
  BY TabStep DEF Turn, InSeries
<1> DEFINE G == (Linked(h) /\ QueueFits(h) /\ PairFits(h) /\ CallFits(h))'
<1> SUFFICES ASSUME OneTab PROVE G
  BY <1>0 DEF Turn
<1>a. Linked(h) /\ QueueFits(h) /\ PairFits(h) /\ CallFits(h)
  BY DEF Turn
<1> USE <1>a
<1>1. ASSUME NEW s \in Sockets, Connect(s)
      PROVE  G
  BY <1>1 DEF Connect, TInv, TypeOK, redis, local
<1>2. ASSUME NEW g \in Handlers, NEW s \in Sockets, Disconnect(g, s)
      PROVE  G
  <2>1. /\ pc[h] = "idle" /\ pc'[h] = "cancel_zrange" /\ sock'[h] = s
        /\ conn' = [conn EXCEPT ![s] = "closed"]
        /\ UNCHANGED <<queue, match, data, user_match, pair, mid>>
    BY <1>0, <1>2 DEF Disconnect, Begin, TInv, TypeOK, redis, local
  <2>2. Linked(h)'
    BY <2>1
  <2>3. QueueFits(h)'
    <3>1. Tidy /\ queue \subseteq Sockets
      BY <2>1, TidyQueue DEF Plain, TInv, TypeOK
    <3>2. \A t \in queue : conn'[t] = "open" \/ t = s
      BY <2>1, <3>1 DEF Tidy
    <3> QED
      BY <2>1, <3>1, <3>2 DEF Tidy
  <2>4. PairFits(h)'
    BY <2>1
  <2>5. CallFits(h)'
    BY <2>1
  <2> QED
    BY <2>2, <2>3, <2>4, <2>5
<1>3. ASSUME NEW g \in Handlers, NEW s \in Sockets, HandleStartMatching(g, s)
      PROVE  G
  <2>1. /\ pc[h] = "idle" /\ pc'[h] = "get_link" /\ sock'[h] = s
        /\ conn[s] = "open"
        /\ UNCHANGED <<conn, queue, match, data, user_match>>
    BY <1>0, <1>3 DEF HandleStartMatching, Begin, TInv, TypeOK, redis, local
  <2> QED
    BY <2>1, QuietTurn DEF Plain, Turn
<1>4. ASSUME NEW g \in Handlers, NEW s \in Sockets, HandleCancelMatching(g, s)
      PROVE  G
  <2>1. /\ pc[h] = "idle" /\ pc'[h] = "cancel_zrange" /\ sock'[h] = s
        /\ conn[s] = "open"
        /\ UNCHANGED <<conn, queue, match, data, user_match>>
    BY <1>0, <1>4 DEF HandleCancelMatching, Begin, TInv, TypeOK, redis, local
  <2> QED
    BY <2>1, QuietTurn DEF Plain, Turn
<1>5. ASSUME NEW g \in Handlers, NEW s \in Sockets, NEW m \in MatchIds,
             HandleEndMatch(g, s, m)
      PROVE  G
  <2>1. /\ pc[h] = "idle" /\ pc'[h] = "check_member" /\ sock'[h] = s
        /\ conn[s] = "open"
        /\ UNCHANGED <<conn, queue, match, data, user_match>>
    BY <1>0, <1>5 DEF HandleEndMatch, Begin, TInv, TypeOK, redis, local
  <2> QED
    BY <2>1, QuietTurn DEF Plain, Turn
<1>6. ASSUME Run(h)
      PROVE  G
  <2>1. CASE CheckLink(h)
    BY <2>1 DEF CheckLink, Finish, Goto, TInv, TypeOK, redis, local
  <2>2. CASE Enqueue(h)
    <3>1. /\ pc[h] = "zadd" /\ pc'[h] = "zrange" /\ sock'[h] = sock[h]
          /\ queue' = queue \cup {sock[h]}
          /\ UNCHANGED <<conn, match, data, user_match>>
      BY <2>2 DEF Enqueue, Goto, TInv, TypeOK, redis, local
    <3> QED
      BY <3>1
  <2>3. CASE FindNobody(h)
    <3>1. /\ pc[h] = "zrange" /\ pc'[h] = "idle" /\ FirstTwo = {}
          /\ UNCHANGED <<conn, queue, match, data, user_match>>
      BY <2>3 DEF FindNobody, Finish, TInv, TypeOK, redis, local
    <3>2. \A s \in queue : s = sock[h]
      <4> SUFFICES ASSUME NEW s \in queue, s # sock[h]
                   PROVE  FALSE
        OBVIOUS
      <4>1. sock[h] \in queue /\ queue \subseteq {s, sock[h]}
        BY <3>1
      <4> QED
        BY <3>1, <4>1, PairThere DEF TInv
    <3> QED
      BY <3>1, <3>2
  <2>4. CASE FindPair(h)
    <3>1. PICK p \in FirstTwo : pair' = [pair EXCEPT ![h] = p]
      BY <2>4 DEF FindPair, TInv, TypeOK, redis, local
    <3>2. /\ pc[h] = "zrange" /\ pc'[h] = "set_match" /\ pair'[h] = p
          /\ UNCHANGED <<conn, queue, match, data, user_match, sock>>
      BY <2>4, <3>1 DEF FindPair, Goto, TInv, TypeOK, redis, local
    <3>3. p[1] \in queue /\ p[2] \in queue /\ p[1] # p[2]
      BY Within DEF TInv
    <3>4. queue = {p[1], p[2]} /\ sock[h] \in {p[1], p[2]}
      BY <3>2, <3>3
    <3>5. \A s \in queue : conn[s] = "open"
      BY <3>2
    <3>6. Linked(h)' /\ QueueFits(h)' /\ CallFits(h)'
      BY <3>2
    <3>7. PairFits(h)'
      <4>1. conn[p[1]] = "open" /\ conn[p[2]] = "open"
        BY <3>3, <3>5
      <4> QED
        BY <3>2, <3>3, <3>4, <4>1
    <3> QED
      BY <3>6, <3>7
  <2>5. CASE StoreMatch(h)
    <3>1. /\ pc[h] = "set_match" /\ pc'[h] = "set_link1"
          /\ match' = match \cup {mid[h]}
          /\ data' = [data EXCEPT ![mid[h]] = pair[h]]
          /\ UNCHANGED <<conn, queue, user_match, sock, pair, mid>>
      BY <2>5 DEF StoreMatch, Goto, TInv, TypeOK, redis, local
    <3>2. \A m \in match : m # mid[h] /\ data'[m] = data[m]
      BY <3>1 DEF Facts, Fresh, Stored
    <3>3. Linked(h)'
      BY <3>1, <3>2
    <3>4. QueueFits(h)' /\ CallFits(h)'
      BY <3>1
    <3>5. PairFits(h)'
      BY <3>1
    <3> QED
      BY <3>3, <3>4, <3>5
  <2>6. CASE LinkFirst(h)
    <3> DEFINE v == Owner[pair[h][1]]
    <3>1. /\ pc[h] = "set_link1" /\ pc'[h] = "set_link2"
          /\ user_match' = [user_match EXCEPT ![v] = mid[h]]
          /\ UNCHANGED <<conn, queue, match, data, sock, pair, mid>>
      BY <2>6 DEF LinkFirst, Goto, Link, TInv, TypeOK, redis, local
    <3>2. /\ v \in Users /\ data[mid[h]] = pair[h] /\ mid[h] # None
          /\ Owner[pair[h][1]] # Owner[pair[h][2]]
          /\ Owner[pair[h][1]] \in Users /\ Owner[pair[h][2]] \in Users
      <4>1. /\ v \in Users /\ mid[h] # None
            /\ Owner[pair[h][1]] \in Users /\ Owner[pair[h][2]] \in Users
            /\ pair[h][1] \in Sockets /\ pair[h][2] \in Sockets
        BY <3>1, PairData
      <4>2. data[mid[h]] = pair[h]
        BY <3>1 DEF Facts, LocalsAgree
      <4>3. /\ conn[pair[h][1]] = "open" /\ conn[pair[h][2]] = "open"
            /\ pair[h][1] # pair[h][2]
        BY <3>1
      <4> QED
        BY <4>1, <4>2, <4>3 DEF OneTab
    <3>3. user_match[v] = None
      BY <3>1
    <3>4. \A u \in Users :
            user_match'[u] = IF u = v THEN mid[h] ELSE user_match[u]
      BY <3>1 DEF TInv, TypeOK
    <3>5. ASSUME NEW m \in match, m # mid[h], NEW u \in Members(m)
          PROVE  user_match'[u] = m
      <4>1. u \in Users /\ m # None
        BY MatchData DEF Facts, Stored, TInv, TypeOK
      <4>2. user_match[u] = m
        BY <3>5
      <4> QED
        BY <3>3, <3>4, <4>1, <4>2
    <3>6. Linked(h)'
      BY <3>1, <3>2, <3>5, <3>4
    <3>7. QueueFits(h)' /\ CallFits(h)'
      BY <3>1
    <3>8. PairFits(h)'
      BY <3>1, <3>2, <3>3, <3>4
    <3> QED
      BY <3>6, <3>7, <3>8
  <2>7. CASE LinkSecond(h)
    <3> DEFINE v == Owner[pair[h][2]]
    <3>1. /\ pc[h] = "set_link2" /\ pc'[h] = "zrem"
          /\ user_match' = [user_match EXCEPT ![v] = mid[h]]
          /\ UNCHANGED <<conn, queue, match, data, sock, pair, mid>>
      BY <2>7 DEF LinkSecond, Goto, Link, TInv, TypeOK, redis, local
    <3>2. /\ v \in Users /\ data[mid[h]] = pair[h] /\ mid[h] # None
          /\ Owner[pair[h][1]] # Owner[pair[h][2]]
          /\ Owner[pair[h][1]] \in Users /\ Owner[pair[h][2]] \in Users
      <4>1. /\ v \in Users /\ mid[h] # None
            /\ Owner[pair[h][1]] \in Users /\ Owner[pair[h][2]] \in Users
            /\ pair[h][1] \in Sockets /\ pair[h][2] \in Sockets
        BY <3>1, PairData
      <4>2. data[mid[h]] = pair[h]
        BY <3>1 DEF Facts, LocalsAgree
      <4>3. /\ conn[pair[h][1]] = "open" /\ conn[pair[h][2]] = "open"
            /\ pair[h][1] # pair[h][2]
        BY <3>1
      <4> QED
        BY <4>1, <4>2, <4>3 DEF OneTab
    <3>3. user_match[v] = None
      BY <3>1
    <3>4. \A u \in Users :
            user_match'[u] = IF u = v THEN mid[h] ELSE user_match[u]
      BY <3>1 DEF TInv, TypeOK
    <3>5. ASSUME NEW m \in match, m # mid[h], NEW u \in Members(m)
          PROVE  user_match'[u] = m
      <4>1. u \in Users /\ m # None
        BY MatchData DEF Facts, Stored, TInv, TypeOK
      <4>2. user_match[u] = m
        BY <3>5
      <4> QED
        BY <3>3, <3>4, <4>1, <4>2
    <3>6. Linked(h)'
      BY <3>1, <3>2, <3>5, <3>4
    <3>7. QueueFits(h)' /\ CallFits(h)'
      BY <3>1
    <3>8. PairFits(h)'
      BY <3>1, <3>2, <3>3, <3>4
    <3> QED
      BY <3>6, <3>7, <3>8
  <2>8. CASE RemovePair(h)
    BY <2>8 DEF RemovePair, Goto, Remove, TInv, TypeOK, redis, local
  <2>9. CASE NotifyFound(h)
    BY <2>9 DEF NotifyFound, Finish, TInv, TypeOK, redis, local
  <2>10. CASE FindEntry(h)
    BY <2>10, FirstThere DEF FindEntry, Goto, TInv, TypeOK, redis, local
  <2>11. CASE RemoveEntry(h)
    <3>1. /\ pc[h] = "cancel_zrem" /\ pc'[h] = "cancel_get_link"
          /\ queue' = queue \ {entry[h]}
          /\ UNCHANGED <<conn, match, data, user_match, sock>>
      BY <2>11 DEF RemoveEntry, Goto, Remove, TInv, TypeOK, redis, local
    <3>2. queue' = {}
      BY <3>1
    <3> QED
      BY <3>1, <3>2
  <2>12. CASE ReadLink(h)
    <3>1. /\ pc[h] = "cancel_get_link" /\ pc'[h] \in {"idle", "end_get"}
          /\ UNCHANGED <<conn, queue, match, data, user_match>>
      BY <2>12 DEF ReadLink, Goto, Finish, TInv, TypeOK, redis, local
    <3> QED
      BY <3>1, QuietTurn DEF Plain, Turn
  <2>13. CASE CheckMember(h)
    <3>1. /\ pc[h] = "check_member" /\ pc'[h] \in {"idle", "end_get"}
          /\ UNCHANGED <<conn, queue, match, data, user_match>>
      BY <2>13 DEF CheckMember, Goto, Finish, TInv, TypeOK, redis, local
    <3> QED
      BY <3>1, QuietTurn DEF Plain, Turn
  <2>14. CASE ReadMatch(h)
    <3>1. /\ pc[h] = "end_get"
          /\ UNCHANGED <<conn, queue, match, data, user_match>>
          /\ \/ pc'[h] = "idle"
             \/ mid[h] \in match /\ pc'[h] = "end_del_match" /\ mid' = mid
      BY <2>14 DEF ReadMatch, Goto, Finish, TInv, TypeOK, redis, local
    <3> QED
      BY <3>1
  <2>15. CASE DeleteMatch(h)
    <3>1. /\ pc[h] = "end_del_match" /\ pc'[h] = "end_del_link1"
          /\ match' = match \ {mid[h]} /\ mid' = mid
          /\ UNCHANGED <<conn, queue, data, user_match>>
      BY <2>15 DEF DeleteMatch, Goto, TInv, TypeOK, redis, local
    <3> QED
      BY <3>1
  <2>16. CASE UnlinkFirst(h)
    BY <2>16 DEF UnlinkFirst, Goto, Unlink, TInv, TypeOK, redis, local
  <2>17. CASE UnlinkSecond(h)
    <3>1. /\ pc[h] = "end_del_link2" /\ pc'[h] = "idle"
          /\ user_match' = [user_match EXCEPT
                              ![Owner[data[mid[h]][2]]] = None]
          /\ UNCHANGED <<conn, queue, match, data>>
      BY <2>17 DEF UnlinkSecond, Finish, Unlink, TInv, TypeOK, redis, local
    <3>2. \A u \in Users : user_match'[u] \in {user_match[u], None}
      BY <3>1
    <3>3. QueueFits(h)'
      BY <3>1, <3>2
    <3>4. ASSUME NEW m \in match, NEW u \in Members(m)
          PROVE  user_match'[u] = m
      <4>1. m # None /\ u \in Users
        BY MatchData DEF Facts, Stored, TInv, TypeOK
      <4>2. user_match[u] = m /\ m # None /\ m # mid[h]
        BY <3>1, <4>1
      <4>3. Owner[data[mid[h]][2]] # u
        BY <3>1, <4>2
      <4> QED
        BY <3>1, <4>1, <4>2, <4>3
    <3> QED
      BY <3>1, <3>3, <3>4
  <2> QED
    BY <1>6, <2>1, <2>2, <2>3, <2>4, <2>5, <2>6, <2>7, <2>8, <2>9, <2>10,
       <2>11, <2>12, <2>13, <2>14, <2>15, <2>16, <2>17
    DEF Run
<1>7. ASSUME NEW g \in Handlers, RedisError(g)
      PROVE  G
  BY <1>7 DEF RedisError, TInv, TypeOK, InSeries
<1>8. ASSUME NEW S \in SUBSET Sockets, Crash(S)
      PROVE  G
  BY <1>8 DEF Crash, TInv, TypeOK, InSeries
<1>9. ASSUME NEW m \in MatchIds, ExpireMatch(m)
      PROVE  G
  BY <1>9 DEF ExpireMatch, TInv, TypeOK, redis, local
<1>10. ASSUME NEW u \in Users, ExpireLink(u)
       PROVE  G
  BY <1>10 DEF ExpireLink, TInv, TypeOK, redis, local
<1>11. CASE UNCHANGED vars
  BY <1>11 DEF vars, TInv, TypeOK, redis, local
<1> QED
  BY <1>0, <1>1, <1>2, <1>3, <1>4, <1>5, <1>6, <1>7, <1>8, <1>9, <1>10, <1>11
  DEF Next, InSeries

\* Until a match is stored or announced, what there is to hear stays.
LEMMA HeardStep ==
  ASSUME InSeries, TInv, Facts, NEW h \in Handlers, Turn(h), Heard(h),
         [Next]_vars
  PROVE  Heard(h)'
<1> DEFINE Linking == pc[h] \in LinkSteps
           Quiet == /\ UNCHANGED <<told, data>>
                    /\ Linking' <=> Linking
                    /\ Linking => mid'[h] = mid[h]
<1>0. Handlers = {h}
  BY DEF InSeries
<1>1. CASE Quiet
  BY <1>1 DEF Heard, News
<1>2. CASE StoreMatch(h)
  <2>1. /\ pc[h] = "set_match" /\ pc'[h] = "set_link1"
        /\ data' = [data EXCEPT ![mid[h]] = pair[h]]
        /\ mid' = mid /\ told' = told
    BY <1>2 DEF StoreMatch, Goto, TInv, TypeOK
  <2>2. data[mid[h]] = None /\ mid[h] \in MatchIds
    BY <2>1, PairData DEF Facts, Fresh
  <2>3. \A m \in MatchIds \ {mid[h]} : data'[m] = data[m]
    BY <2>1 DEF TInv, TypeOK
  <2>4. ~ Linking /\ Linking'
    BY <2>1 DEF LinkSteps
  <2> QED
    BY <2>1, <2>2, <2>3, <2>4 DEF Heard, News
<1>3. CASE NotifyFound(h)
  <2> DEFINE p == pair[h]
             e == [to |-> p[1], mid |-> mid[h], peer |-> p[2]]
             f == [to |-> p[2], mid |-> mid[h], peer |-> p[1]]
  <2>1. pc[h] = "notify" /\ pc'[h] = "idle" /\ data' = data
    BY <1>3 DEF NotifyFound, Finish, TInv, TypeOK, redis
  <2>2. /\ p[1] \in Sockets /\ p[2] \in Sockets /\ mid[h] \in MatchIds
        /\ data[mid[h]] = p /\ p # None
    BY <2>1, PairData, ConstantsAssumption DEF Facts, LocalsAgree, LinkSteps
  <2>3. /\ p[1] # p[2] /\ sock[h] \in {p[1], p[2]}
        /\ conn[p[1]] = "open" /\ conn[p[2]] = "open"
    BY <2>1 DEF Turn, PairFits, LinkSteps
  <2>4. Owner[p[1]] # Owner[p[2]]
    BY <2>2, <2>3 DEF Turn, OneTab
  <2> HIDE DEF p
  <2>5. told' = told \cup {e, f}
    <3>1. CASE sock[h] = p[1]
      <4>1. told' = told \cup {n \in {e, f} : conn[n.to] = "open"}
        BY <1>3, <3>1 DEF NotifyFound, p
      <4> QED
        BY <2>3, <4>1
    <3>2. CASE sock[h] = p[2]
      <4>1. told' = told \cup {n \in {f, e} : conn[n.to] = "open"}
        BY <1>3, <2>4, <3>2 DEF NotifyFound, p
      <4> QED
        BY <2>3, <4>1
    <3> QED
      BY <2>3, <3>1, <3>2
  <2>6. {n \in told : n.mid = mid[h]} = {}
    BY <2>1, <2>2 DEF Heard, LinkSteps
  <2>7. {n \in told' : n.mid = mid[h]} = {e, f}
    BY <2>5, <2>6
  <2>8. News(mid[h])' = {e, f} \/ mid'[h] # mid[h]
    BY <2>1, <2>2 DEF News
  <2>9. ASSUME NEW m \in MatchIds
        PROVE  {n \in told' : n.mid = m} =
                 IF data'[m] = None THEN {}
                 ELSE {[to |-> data'[m][1], mid |-> m, peer |-> data'[m][2]],
                       [to |-> data'[m][2], mid |-> m, peer |-> data'[m][1]]}
    <3>1. CASE m = mid[h]
      BY <2>1, <2>2, <2>7, <3>1
    <3>2. CASE m # mid[h]
      <4>1. {n \in told' : n.mid = m} = {n \in told : n.mid = m}
        BY <2>5, <3>2
      <4> QED
        BY <2>1, <3>2, <4>1 DEF Heard, News
    <3> QED
      BY <3>1, <3>2
  <2>10. ~ Linking'
    BY <2>1 DEF LinkSteps
  <2> QED
    BY <2>9, <2>10 DEF Heard, News
<1>4. ASSUME Run(h), ~ StoreMatch(h), ~ NotifyFound(h)
      PROVE  Quiet
  <2> USE DEF TInv, TypeOK, LinkSteps, redis, local, Goto
  <2>1. CASE CheckLink(h)
    BY <2>1 DEF CheckLink, Finish
  <2>2. CASE Enqueue(h) \/ FindNobody(h) \/ FindPair(h)
    BY <2>2 DEF Enqueue, FindNobody, FindPair, Finish
  <2>3. CASE LinkFirst(h) \/ LinkSecond(h) \/ RemovePair(h)
    BY <2>3 DEF LinkFirst, LinkSecond, RemovePair
  <2>4. CASE FindEntry(h) \/ RemoveEntry(h)
    BY <2>4 DEF FindEntry, RemoveEntry
  <2>5. CASE ReadLink(h) \/ CheckMember(h) \/ ReadMatch(h)
    BY <2>5 DEF ReadLink, CheckMember, ReadMatch, Finish
  <2>6. CASE DeleteMatch(h) \/ UnlinkFirst(h) \/ UnlinkSecond(h)
    BY <2>6 DEF DeleteMatch, UnlinkFirst, UnlinkSecond, Finish
  <2> QED
    BY <1>4, <2>1, <2>2, <2>3, <2>4, <2>5, <2>6 DEF Run
<1>5. ASSUME NEW s \in Sockets,
             \/ Disconnect(h, s)
             \/ HandleStartMatching(h, s)
             \/ HandleCancelMatching(h, s)
             \/ \E m \in MatchIds : HandleEndMatch(h, s, m)
      PROVE  Quiet
  BY <1>5 DEF Disconnect, HandleStartMatching, HandleCancelMatching,
     HandleEndMatch, Begin, TInv, TypeOK, LinkSteps, redis
<1>6. ASSUME \/ \E s \in Sockets : Connect(s)
             \/ \E m \in MatchIds : ExpireMatch(m)
             \/ \E u \in Users : ExpireLink(u)
             \/ UNCHANGED vars
      PROVE  Quiet
  BY <1>6 DEF Connect, ExpireMatch, ExpireLink, vars, redis, local
<1>7. ~ RedisError(h) /\ \A S \in SUBSET Sockets : ~ Crash(S)
  <2>1. failures \in Nat /\ MaxFailures = 0
    BY DEF InSeries, TInv, TypeOK
  <2>2. ~ (failures < MaxFailures)
    BY <2>1
  <2> QED
    BY <2>2 DEF RedisError, Crash
<1> HIDE DEF Quiet
<1> QED
  BY <1>0, <1>1, <1>2, <1>3, <1>4, <1>5, <1>6, <1>7 DEF Next

SerialInv == /\ InSeries /\ TInv /\ Facts
             /\ \A h \in Handlers : Turn(h) /\ Heard(h)

LEMMA SerialInit == InSeries /\ Init => SerialInv
<1> SUFFICES ASSUME InSeries, Init
             PROVE  SerialInv
  OBVIOUS
<1>1. TInv /\ Facts
  BY TypesInit, FactsInit
<1>2. ASSUME NEW h \in Handlers
      PROVE  Turn(h) /\ Heard(h)
  BY <1>2 DEF Init, Turn, OneTab, Linked, QueueFits, PairFits, CallFits, Heard,
              LinkSteps, QueueSteps, EndSteps
<1> QED
  BY <1>1, <1>2 DEF SerialInv

LEMMA SerialStep == SerialInv /\ [Next]_vars => SerialInv'
<1> SUFFICES ASSUME SerialInv, [Next]_vars
             PROVE  SerialInv'
  OBVIOUS
<1>1. InSeries' /\ TInv' /\ Facts'
  BY TypesStep, FactsStep DEF SerialInv, InSeries
<1>2. ASSUME NEW h \in Handlers
      PROVE  Turn(h)' /\ Heard(h)'
  BY TurnStep, HeardStep DEF SerialInv
<1> QED
  BY <1>1, <1>2 DEF SerialInv

LEMMA AgreeAtRest == SerialInv => KeysAgreeAtRest /\ BothTold
<1> SUFFICES ASSUME SerialInv, AtRest
             PROVE  KeysAgreeAtRest /\ BothTold
  BY DEF KeysAgreeAtRest, BothTold
<1>1. PICK h \in Handlers : pc[h] = "idle" /\ Turn(h) /\ Heard(h)
  BY DEF SerialInv, InSeries, AtRest
<1>2. Tidy
  BY <1>1, TidyQueue DEF Turn, Plain
<1>3. KeysAgreeAtRest
  BY <1>1, <1>2 DEF Turn, Linked, Tidy, KeysAgreeAtRest
<1>4. BothTold
  BY <1>1 DEF Heard, News, LinkSteps, BothTold
<1> QED
  BY <1>3, <1>4

\* Between two messages the three kinds of keys agree, for one handler at a
\* time, no failures and one open connection per user: the handlers are right
\* one after the other, and it takes an interleaving or a failure to leave an
\* entry, a match or a link behind.
THEOREM KeysAgree == InSeries /\ Spec => []KeysAgreeAtRest
<1>1. SerialInv => KeysAgreeAtRest
  BY AgreeAtRest
<1> QED
  BY <1>1, SerialInit, SerialStep, PTL DEF Spec

\* Under the same conditions both users of a match hear of it, each with the
\* other's connection as its peer, and nobody else does.
THEOREM BothHear == InSeries /\ Spec => []BothTold
<1>1. SerialInv => BothTold
  BY AgreeAtRest
<1> QED
  BY <1>1, SerialInit, SerialStep, PTL DEF Spec

-------------------------------------------------------------------------------
(***************************************************************************)
(* Step simulation of MatchMaker.                                          *)
(***************************************************************************)
Couple == [m \in MatchIds |-> IF m \in match THEN Members(m) ELSE {}]
Used   == {m \in MatchIds : data[m] # None}

\* The entries whose users wait.
Waits(h) ==
  IF pc[h] \in Storing THEN {}
  ELSE IF pc[h] \in {"zrange", "set_match"} /\ queue # {sock[h]}
         THEN queue \ {sock[h]}
         ELSE queue

LEMMA Remaining ==
  ASSUME NEW left, IsFiniteSet(left), NEW s, s \in left
  PROVE  /\ left = {s} => Cardinality(left) < 2
         /\ left # {s} => ~ (Cardinality(left) < 2)
<1> DEFINE rest == left \ {s}
<1>1. /\ IsFiniteSet(rest) /\ Cardinality(rest) = Cardinality(left) - 1
      /\ Cardinality(left) \in Nat /\ Cardinality(rest) \in Nat
  BY FS_RemoveElement, FS_CardinalityType
<1>2. Cardinality(rest) = 0 <=> rest = {}
  BY <1>1, FS_EmptySet
<1>3. rest = {} <=> left = {s}
  OBVIOUS
<1> HIDE DEF rest
<1> QED
  BY <1>1, <1>2, <1>3

WaitersAre == \A h \in Handlers : Waiting = {Owner[s] : s \in Waits(h)}

LEMMA WaitingIs == SerialInv => WaitersAre
<1> SUFFICES ASSUME SerialInv, NEW h \in Handlers
             PROVE  Waiting = {Owner[s] : s \in Waits(h)}
  BY DEF WaitersAre
<1>0. InSeries /\ TInv /\ Turn(h)
  BY DEF SerialInv
<1> USE <1>0
<1> DEFINE taken  == {pair[g][i] : g \in AtStep(Storing), i \in {1, 2}}
           left   == queue \ taken
           joined == {sock[g] : g \in AtStep({"zrange", "set_match"})}
<1>1. Waiting = {Owner[s] : s \in IF Cardinality(left) < 2
                                    THEN left ELSE left \ joined}
  BY DEF Waiting, Storing
<1>2. Handlers = {h} /\ IsFiniteSet(queue)
  BY FS_Subset DEF InSeries, TInv, TypeOK
<1>3. CASE pc[h] \in Storing
  <2>1. pair[h][1] \in taken /\ pair[h][2] \in taken
    BY <1>3 DEF AtStep
  <2>2. queue \subseteq {pair[h][1], pair[h][2]}
    BY <1>3 DEF Turn, PairFits, LinkSteps, Storing
  <2>3. left = {}
    BY <2>1, <2>2
  <2> HIDE DEF left, joined
  <2> QED
    BY <1>1, <1>3, <2>3 DEF Waits
<1>4. CASE pc[h] \in {"zrange", "set_match"}
  <2>1. taken = {} /\ joined = {sock[h]}
    BY <1>2, <1>4 DEF AtStep, Storing
  <2> HIDE DEF taken, joined
  <2>2. left = queue
    BY <2>1
  <2>3. sock[h] \in queue
    BY <1>4 DEF Turn, PairFits, CallFits
  <2> HIDE DEF left
  <2>4. pc[h] \notin Storing
    BY <1>4 DEF Storing
  <2> QED
    BY <1>1, <1>2, <1>4, <2>1, <2>2, <2>3, <2>4, Remaining DEF Waits
<1>5. CASE pc[h] \notin Storing \cup {"zrange", "set_match"}
  <2>1. taken = {} /\ joined = {}
    BY <1>2, <1>5 DEF AtStep, Storing
  <2> HIDE DEF taken, joined
  <2>2. left = queue /\ left \ joined = queue
    BY <2>1
  <2> HIDE DEF left
  <2> QED
    BY <1>1, <1>5, <2>2 DEF Waits
<1> QED
  BY <1>3, <1>4, <1>5

LEMMA WaitingIsNext == SerialInv' => WaitersAre'
  BY WaitingIs, PTL

\* What a step leaves alone of the abstract state.
Same(h) == /\ Waits(h)' = Waits(h)
           /\ UNCHANGED <<match, data>>

LEMMA SameStutters ==
  ASSUME SerialInv, SerialInv', NEW h \in Handlers, Same(h)
  PROVE  UNCHANGED MM!vars
<1>1. Waiting' = Waiting
  BY WaitingIs, WaitingIsNext DEF WaitersAre, Same
<1> QED
  BY <1>1 DEF Same, MM!vars, Members

\* A user without a link is in no match.
LEMMA Unlinked ==
  ASSUME SerialInv, NEW h \in Handlers,
         pc[h] \notin {"set_link1", "set_link2"},
         NEW u, user_match[u] = None
  PROVE  \A m \in match : u \notin Members(m)
<1>1. \A m \in match : m # None
  BY ConstantsAssumption DEF SerialInv, TInv, TypeOK
<1> QED
  BY <1>1 DEF SerialInv, Turn, Linked

LEMMA RunSimulates ==
  ASSUME SerialInv, SerialInv', NEW h \in Handlers, Run(h)
  PROVE  UNCHANGED MM!vars \/ MM!Next
<1> USE DEF redis, local
<1>1. /\ TInv /\ Facts /\ Turn(h) /\ InSeries
      /\ Waiting  = {Owner[s] : s \in Waits(h)}
      /\ Waiting' = {Owner[s] : s \in Waits(h)'}
  BY WaitingIs, WaitingIsNext DEF SerialInv, WaitersAre
<1>2. /\ h \in DOMAIN pc /\ h \in DOMAIN sock
      /\ sock[h] \in Sockets \/ pc[h] = "idle"
  BY DEF SerialInv, TInv, TypeOK, LocalsOK
<1>3. CASE \/ CheckLink(h) \/ FindEntry(h) \/ ReadLink(h) \/ CheckMember(h)
           \/ ReadMatch(h) \/ UnlinkFirst(h) \/ UnlinkSecond(h)
  <2>1. /\ pc[h] \notin Storing \cup {"zrange", "set_match"}
        /\ pc'[h] \notin Storing \cup {"zrange", "set_match"}
        /\ UNCHANGED <<queue, match, data>>
    BY <1>3, <1>2 DEF CheckLink, FindEntry, ReadLink, CheckMember, ReadMatch,
       UnlinkFirst, UnlinkSecond, Goto, Finish, Storing
  <2> QED
    BY <2>1, SameStutters DEF Same, Waits, Storing
<1>4. CASE Enqueue(h)
  <2>1. /\ pc[h] = "zadd" /\ pc'[h] = "zrange" /\ sock'[h] = sock[h]
        /\ queue' = queue \cup {sock[h]}
        /\ UNCHANGED <<match, data>>
    BY <1>2, <1>4 DEF Enqueue, Goto
  <2>2. Waits(h) = queue
    BY <2>1 DEF Waits, Storing
  <2>3. /\ \A s, t \in queue : s = t
        /\ user_match[Owner[sock[h]]] = None
    BY <1>1, <2>1 DEF Turn, QueueFits, CallFits, Storing
  <2>4. CASE queue \subseteq {sock[h]}
    <3>1. queue' = {sock[h]} /\ Waits(h)' = {sock[h]}
      BY <2>1, <2>4 DEF Waits, Storing
    <3>2. Waiting \subseteq {Owner[sock[h]]} /\ Waiting' = {Owner[sock[h]]}
      BY <1>1, <2>2, <2>4, <3>1
    <3>3. \A m \in match : Owner[sock[h]] \notin Members(m)
      BY <2>1, <2>3, Unlinked
    <3>4. MM!Wait(Owner[sock[h]])
      BY <2>1, <3>2, <3>3 DEF MM!Wait, MM!Free, Members
    <3>5. Owner[sock[h]] \in Users
      BY <1>2, <2>1, ConstantsAssumption
    <3> QED
      BY <3>4, <3>5 DEF MM!Next
  <2>5. CASE ~ queue \subseteq {sock[h]}
    <3>1. sock[h] \notin queue /\ queue # {}
      BY <2>3, <2>5
    <3>2. Waits(h)' = queue
      BY <2>1, <3>1 DEF Waits, Storing
    <3> QED
      BY <2>1, <2>2, <3>2, SameStutters DEF Same
  <2> QED
    BY <2>4, <2>5
<1>5. CASE FindNobody(h)
  <2>1. /\ pc[h] = "zrange" /\ pc'[h] = "idle" /\ FirstTwo = {}
        /\ UNCHANGED <<queue, match, data>>
    BY <1>2, <1>5 DEF FindNobody, Finish
  <2>2. queue = {sock[h]}
    <3>1. sock[h] \in queue
      BY <1>1, <2>1 DEF Turn, CallFits
    <3>2. \A s, t \in queue \ {sock[h]} : s = t
      BY <1>1, <2>1 DEF Turn, CallFits
    <3>3. ASSUME NEW s \in queue, s # sock[h]
          PROVE  FALSE
      <4>1. queue \subseteq {s, sock[h]}
        BY <3>2, <3>3
      <4> QED
        BY <1>1, <2>1, <3>1, <3>3, <4>1, PairThere DEF TInv
    <3> QED
      BY <3>1, <3>3
  <2>3. Waits(h) = queue /\ Waits(h)' = queue
    BY <2>1, <2>2 DEF Waits, Storing
  <2> QED
    BY <2>1, <2>3, SameStutters DEF Same
<1>6. CASE FindPair(h)
  <2>1. /\ pc[h] = "zrange" /\ pc'[h] = "set_match" /\ sock'[h] = sock[h]
        /\ UNCHANGED <<queue, match, data>>
    BY <1>2, <1>6 DEF FindPair, Goto
  <2> QED
    BY <2>1, SameStutters DEF Same, Waits, Storing
<1>7. CASE StoreMatch(h)
  <2> DEFINE p == pair[h]
  <2>0. mid[h] \in MatchIds
    BY <1>1, <1>2, <1>7, PairData DEF StoreMatch, Goto
  <2> PICK m \in MatchIds : m = mid[h]
    BY <2>0
  <2>1. /\ pc[h] = "set_match" /\ pc'[h] = "set_link1" /\ queue' = queue
        /\ match' = match \cup {m}
        /\ data' = [data EXCEPT ![m] = p]
    BY <1>2, <1>7 DEF StoreMatch, Goto
  <2>2. /\ p[1] # p[2] /\ sock[h] \in {p[1], p[2]}
        /\ conn[p[1]] = "open" /\ conn[p[2]] = "open"
        /\ queue = {p[1], p[2]}
    BY <1>1, <2>1 DEF Turn, PairFits
  <2>3. /\ p \in Sockets \X Sockets /\ m \in MatchIds
        /\ Owner[p[1]] \in Users /\ Owner[p[2]] \in Users
    BY <1>1, <2>1, PairData
  <2>4. p[1] \in Sockets /\ p[2] \in Sockets /\ p # None
    BY <2>3, ConstantsAssumption
  <2>5. Owner[p[1]] # Owner[p[2]]
    BY <1>1, <2>2, <2>4 DEF Turn, OneTab
  <2>6. PICK w \in {p[1], p[2]} : w # sock[h]
    BY <2>2
  <2>7. /\ {p[1], p[2]} = {sock[h], w}
        /\ {Owner[p[1]], Owner[p[2]]} = {Owner[sock[h]], Owner[w]}
        /\ Owner[w] # Owner[sock[h]]
        /\ Owner[w] \in Users /\ Owner[sock[h]] \in Users
    BY <2>2, <2>3, <2>5, <2>6
  <2>8. data[m] = None /\ m \notin match
    BY <1>1, <2>1 DEF Facts, Fresh, Stored
  <2>9. Waits(h) = {w} /\ Waits(h)' = {}
    BY <2>1, <2>2, <2>6, <2>7 DEF Waits, Storing
  <2>10. Waiting = {Owner[w]} /\ Waiting' = {}
    BY <1>1, <2>9
  <2>11. user_match[Owner[sock[h]]] = None
    BY <1>1, <2>1, <2>2 DEF Turn, QueueFits
  <2>12. \A n \in match : Owner[sock[h]] \notin Members(n)
    BY <2>1, <2>11, Unlinked
  <2>13. data'[m] = p /\ \A n \in MatchIds \ {m} : data'[n] = data[n]
    BY <1>1, <2>1, <2>3 DEF TInv, TypeOK
  <2> HIDE DEF p
  <2>14. Couple' = [Couple EXCEPT ![m] = {Owner[sock[h]], Owner[w]}]
    <3>1. Members(m)' = {Owner[sock[h]], Owner[w]}
      BY <2>7, <2>13 DEF Members
    <3>2. \A n \in MatchIds \ {m} : Members(n)' = Members(n)
      BY <2>13 DEF Members
    <3>3. DOMAIN Couple = MatchIds
      BY DEF Couple
    <3>4. Couple' =
            [n \in MatchIds |-> IF n \in match' THEN Members(n)' ELSE {}]
      BY DEF Couple
    <3> QED
      BY <2>1, <2>3, <3>1, <3>2, <3>3, <3>4 DEF Couple
  <2>15. Used' = Used \cup {m} /\ m \notin Used
    BY <2>3, <2>4, <2>8, <2>13 DEF Used
  <2>16. \A n \in MatchIds : Owner[sock[h]] \notin Couple[n]
    BY <2>12 DEF Couple
  <2>17. MM!Pair(Owner[sock[h]], Owner[w], m)
    BY <2>7, <2>10, <2>14, <2>15, <2>16 DEF MM!Pair, MM!Free, Couple, Used
  <2>18. \E u, v \in Users : MM!Pair(u, v, m)
    <3>1. PICK u \in Users : u = Owner[sock[h]]
      BY <2>7
    <3>2. MM!Pair(u, Owner[w], m)
      BY <3>1, <2>17 DEF MM!Pair, MM!Free
    <3> QED
      BY <3>2, <2>7
  <2> QED
    BY <2>18 DEF MM!Next
<1>8. CASE LinkFirst(h) \/ LinkSecond(h)
  <2>1. /\ pc[h] \in Storing /\ pc'[h] \in Storing
        /\ UNCHANGED <<queue, match, data>>
    BY <1>2, <1>8 DEF LinkFirst, LinkSecond, Goto, Storing
  <2> QED
    BY <2>1, SameStutters DEF Same, Waits, Storing
<1>9. CASE RemovePair(h)
  <2>1. /\ pc[h] = "zrem" /\ pc'[h] = "notify"
        /\ UNCHANGED <<match, data>>
        /\ queue' = queue \ {pair[h][1], pair[h][2]}
    BY <1>2, <1>9 DEF RemovePair, Goto, Remove
  <2>2. queue = {pair[h][1], pair[h][2]}
    BY <1>1, <2>1 DEF Turn, PairFits, LinkSteps
  <2>3. queue' = {}
    BY <2>1, <2>2
  <2> QED
    BY <2>1, <2>3, SameStutters DEF Same, Waits, Storing
<1>10. CASE NotifyFound(h)
  <2>1. /\ pc[h] = "notify" /\ pc'[h] = "idle"
        /\ UNCHANGED <<queue, match, data>>
    BY <1>2, <1>10 DEF NotifyFound, Finish
  <2> QED
    BY <2>1, SameStutters DEF Same, Waits, Storing
<1>11. CASE RemoveEntry(h)
  <2>1. /\ pc[h] = "cancel_zrem" /\ pc'[h] = "cancel_get_link"
        /\ UNCHANGED <<match, data>>
        /\ queue' = queue \ {entry[h]}
    BY <1>2, <1>11 DEF RemoveEntry, Goto, Remove
  <2>2. queue = {entry[h]}
    BY <1>1, <2>1 DEF Turn, QueueFits, CallFits, Storing
  <2>3. queue' = {}
    BY <2>1, <2>2
  <2>4. Waiting = {Owner[entry[h]]} /\ Waiting' = {}
    BY <1>1, <2>1, <2>2, <2>3 DEF Waits, Storing
  <2>5. Owner[entry[h]] \in Users
    <3>1. entry[h] \in Sockets
      BY <1>1, <2>2 DEF TInv, TypeOK
    <3> QED
      BY <3>1, ConstantsAssumption
  <2>6. MM!Leave(Owner[entry[h]])
    BY <2>1, <2>4 DEF MM!Leave, Members
  <2> QED
    BY <2>5, <2>6 DEF MM!Next
<1>12. CASE DeleteMatch(h)
  <2>1. /\ pc[h] = "end_del_match" /\ pc'[h] = "end_del_link1"
        /\ match' = match \ {mid[h]}
        /\ UNCHANGED <<queue, data>>
    BY <1>2, <1>12 DEF DeleteMatch, Goto
  <2>2. Waiting' = Waiting
    BY <1>1, <2>1 DEF Waits, Storing
  <2>3. mid[h] \in MatchIds
    BY <1>1, <2>1 DEF TInv, LocalsOK, EndSteps
  <2>4. PICK m \in MatchIds : m = mid[h]
    BY <2>3
  <2>5. MM!End(m)
    BY <2>1, <2>2, <2>4 DEF MM!End, Members
  <2> QED
    BY <2>5 DEF MM!Next
<1> QED
  BY <1>3, <1>4, <1>5, <1>6, <1>7, <1>8, <1>9, <1>10, <1>11, <1>12 DEF Run

LEMMA OthersSimulate ==
  ASSUME SerialInv, SerialInv', Next, ~ \E h \in Handlers : Run(h)
  PROVE  UNCHANGED MM!vars \/ MM!Next
<1>1. PICK h \in Handlers : Handlers = {h}
  BY DEF SerialInv, InSeries
<1>2. /\ MaxFailures = 0 /\ failures \in Nat
      /\ h \in DOMAIN pc /\ h \in DOMAIN sock
  BY DEF SerialInv, InSeries, TInv, TypeOK
<1>3. ASSUME NEW s \in Sockets, Connect(s)
      PROVE  Same(h)
  BY <1>3 DEF Connect, Same, Waits, redis, local
<1>4. ASSUME NEW s \in Sockets,
             \/ Disconnect(h, s)
             \/ HandleStartMatching(h, s)
             \/ HandleCancelMatching(h, s)
             \/ \E m \in MatchIds : HandleEndMatch(h, s, m)
      PROVE  Same(h)
  <2>1. /\ pc[h] = "idle"
        /\ pc'[h] \in {"cancel_zrange", "get_link", "check_member"}
        /\ UNCHANGED <<queue, match, data>>
    BY <1>2, <1>4 DEF Disconnect, HandleStartMatching, HandleCancelMatching,
       HandleEndMatch, Begin, redis, local
  <2> QED
    BY <2>1 DEF Same, Waits, Storing
<1>5. ASSUME NEW u \in Users, ExpireLink(u)
      PROVE  Same(h)
  BY <1>5 DEF ExpireLink, Same, Waits, local
<1>6. ASSUME NEW m \in MatchIds, ExpireMatch(m)
      PROVE  MM!End(m)
  <2>1. match' = match \ {m} /\ UNCHANGED <<queue, data, pc, sock>>
    BY <1>6 DEF ExpireMatch, local
  <2>2. Waits(h)' = Waits(h)
    BY <2>1 DEF Waits
  <2>3. Waiting' = Waiting
    BY <2>2, WaitingIs, WaitingIsNext DEF WaitersAre
  <2> QED
    BY <2>1, <2>3 DEF MM!End, Members
<1>7. /\ \A g \in Handlers : ~ RedisError(g)
      /\ \A S \in SUBSET Sockets : ~ Crash(S)
  BY <1>2 DEF RedisError, Crash
<1>8. Same(h) \/ \E m \in MatchIds : MM!End(m)
  BY <1>1, <1>3, <1>4, <1>5, <1>6, <1>7 DEF Next
<1> QED
  BY <1>8, SameStutters DEF MM!Next

LEMMA Simulates ==
  SerialInv /\ SerialInv' /\ [Next]_vars => [MM!Next]_MM!vars
<1> SUFFICES ASSUME SerialInv, SerialInv', [Next]_vars
             PROVE  UNCHANGED MM!vars \/ MM!Next
  OBVIOUS
<1>1. PICK h \in Handlers : Handlers = {h}
  BY DEF SerialInv, InSeries
<1>2. CASE UNCHANGED vars
  <2>1. Same(h)
    BY <1>2 DEF vars, redis, local, Same, Waits
  <2> QED
    BY <2>1, SameStutters
<1> QED
  BY <1>2, RunSimulates, OthersSimulate

LEMMA StartsAlike == SerialInv /\ Init => MM!Init
<1> SUFFICES ASSUME SerialInv, Init
             PROVE  MM!Init
  OBVIOUS
<1>1. PICK h \in Handlers : Handlers = {h}
  BY DEF SerialInv, InSeries
<1>2. Waits(h) = {}
  BY DEF Init, Waits
<1>3. Waiting = {}
  BY <1>2, WaitingIs DEF WaitersAre
<1> QED
  BY <1>3 DEF Init, MM!Init

\* One handler at a time, without failures and with one open connection per
\* user, every command of the service is a step of MatchMaker or none: the
\* five or more commands of a match are together one pairing of two users.
THEOREM Implements == InSeries /\ Spec => ImplementsMatchMaker
  BY SerialInit, SerialStep, Simulates, StartsAlike, PTL
  DEF Spec, ImplementsMatchMaker, MM!Spec

\* Hence what MatchMaker promises: under the same conditions no user is in two
\* matches, or waits while in one, and two users never wait beside each other.
THEOREM MatchesExclude == InSeries /\ Spec => [](MM!Exclusive /\ MM!OneWaits)
  BY Implements, MM!Promise DEF ImplementsMatchMaker

===============================================================================

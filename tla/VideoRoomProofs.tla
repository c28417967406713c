---------------------------- MODULE VideoRoomProofs ----------------------------
(***************************************************************************)
(* Theorems about VideoRoom, for any number of users, sockets, processes   *)
(* and events in flight.                                                   *)
(*                                                                         *)
(* The argument.  A client's picture of the room is behind by the events   *)
(* on their way to its process.  What counts is the picture it will have   *)
(* once they have arrived (Told, Gone): an event that a process publishes  *)
(* changes that picture at once for every socket, whether the socket hears *)
(* the event now or later, and a delivery leaves it as it is.              *)
(*                                                                         *)
(* Events name a user.  Where a user has two sockets in the room, the      *)
(* leaving of one makes the clients forget the other: what a client knows  *)
(* of a socket is therefore stated, and proved, for one socket per user    *)
(* (OneEach).  Nobody is left with a ghost in any case.                    *)
(***************************************************************************)
EXTENDS VideoRoom, SequenceTheorems, TLAPS

Leaving == {"peer_left", "peer_disconnected"}

Joins(e, t)  == e.ev = "peer_joined" /\ e.from = t
Leaves(e, t) == e.ev \in Leaving /\ e.from = t

Open == room \cap conn

\* Only lapsed users wait, and only they are in the room without being
\* connected; an offer is meant for sockets in the room.
Placed ==
  /\ \A p \in waiting : Owner[p[1]] \in Lapsed
  /\ \A s \in room : Owner[s] \notin Lapsed => s \in conn
  /\ \A n \in Nodes : \A i \in 1 .. Len(channel[n]) :
       channel[n][i].for \subseteq room

Present(u) == \E t \in room : Owner[t] = u

\* The process of s will hear that a socket of u has left.
Gone(s, u) ==
  \E i \in 1 .. Len(channel[Node[s]]) :
    /\ channel[Node[s]][i].ev \in Leaving
    /\ Owner[channel[Node[s]][i].from] = u

\* Whom a client believes in, or will be told of, is there or will be known to
\* have left.
Believed ==
  /\ \A s \in Open : \A u \in known[s] : Present(u) \/ Gone(s, u)
  /\ \A n \in Nodes : \A i \in 1 .. Len(channel[n]) :
       channel[n][i].ev = "peer_joined" =>
         \/ channel[n][i].from \in room
         \/ \E j \in i + 1 .. Len(channel[n]) :
              Leaves(channel[n][j], channel[n][i].from)

\* A client that knows k will know of t once it has heard the events of q
\* before the i-th.
Hears(q, k, t, i) ==
  \/ Owner[t] \in k /\ \A j \in 1 .. i - 1 : ~ Leaves(q[j], t)
  \/ \E j \in 1 .. i - 1 :
       Joins(q[j], t) /\ \A l \in j + 1 .. i - 1 : ~ Leaves(q[l], t)

\* s will know of t once all events have arrived.
Told(s, t) ==
  Hears(channel[Node[s]], known[s], t, Len(channel[Node[s]]) + 1)

Mutual == \A s, t \in Open : s # t => Told(s, t) \/ Told(t, s)

\* Who is in the room was there before s, or s will know of it; and s will by
\* the time it hears an offer of theirs.
Followed ==
  /\ \A s \in Open, t \in room :
       s # t => Owner[t] \in older[s] \/ Told(s, t)
  /\ \A s \in Open : \A i \in 1 .. Len(channel[Node[s]]) :
       LET e == channel[Node[s]][i] IN
       s \in e.for /\ Owner[e.from] \notin Lapsed =>
         \/ Owner[e.from] \in older[s]
         \/ Hears(channel[Node[s]], known[s], e.from, i)

\* One socket per user.
OneEach == \A s, t \in Sockets : Owner[s] = Owner[t] => s = t

-------------------------------------------------------------------------------
(***************************************************************************)
(* What emitting and delivering do.                                        *)
(***************************************************************************)

\* The events of q keep their order; fewer sockets may be meant.
Prefix(p, q) ==
  \A i \in 1 .. Len(q) : /\ p[i].ev = q[i].ev /\ p[i].from = q[i].from
                         /\ p[i].for \subseteq q[i].for

LEMMA EventType ==
  ASSUME TypeOK, NEW s \in Sockets,
         NEW ev \in {"peer_joined", "peer_left", "peer_disconnected",
                     "receive_offer"}
  PROVE  /\ Event(ev, s) \in Events
         /\ Event(ev, s).ev = ev /\ Event(ev, s).from = s
         /\ Event(ev, s).for = IF ev = "receive_offer" THEN room ELSE {}
  BY DEF Event, Events, TypeOK

LEMMA LearnType ==
  ASSUME NEW e \in Events, NEW K \in SUBSET Users
  PROVE  Learn(K, e) \in SUBSET Users
<1>1. Owner[e.from] \in Users
  BY VideoRoomAssumption DEF Events
<1> QED
  BY <1>1 DEF Learn

LEMMA InFlightShape ==
  ASSUME TypeOK, NEW e \in Events, NEW m \in Nodes
  PROVE  LET p == InFlight(e)[m]
             q == channel[m] IN
         /\ p \in Seq(Events) /\ Len(p) = Len(q) /\ Prefix(p, q)
         /\ e.ev \in Leaving =>
              \A i \in 1 .. Len(q) : e.from \notin p[i].for
<1> DEFINE q == channel[m]
           p == InFlight(e)[m]
           f(x) == IF e.ev \in Leaving
                     THEN [x EXCEPT !.for = @ \ {e.from}] ELSE x
<1>1. q \in Seq(Events) /\ Len(q) \in Nat /\ DOMAIN q = 1 .. Len(q)
  BY LenProperties DEF TypeOK
<1>2. p = [i \in 1 .. Len(q) |-> f(q[i])]
  BY <1>1 DEF InFlight, Leaving
<1>3. ASSUME NEW i \in 1 .. Len(q)
      PROVE  /\ f(q[i]) \in Events
             /\ f(q[i]).ev = q[i].ev /\ f(q[i]).from = q[i].from
             /\ f(q[i]).for \subseteq q[i].for
             /\ e.ev \in Leaving => e.from \notin f(q[i]).for
  <2>1. q[i] \in Events
    BY <1>1, ElementOfSeq
  <2> HIDE DEF q
  <2> QED
    BY <2>1 DEF Events
<1> HIDE DEF f, p, q
<1>4. p \in [1 .. Len(q) -> Events]
  BY <1>2, <1>3
<1>5. p \in Seq(Events)
  BY <1>1, <1>4, SeqDef
<1>6. Len(p) = Len(q)
  BY <1>1, <1>4, <1>5, LenProperties
<1>7. \A i \in 1 .. Len(q) : p[i] = f(q[i])
  BY <1>2
<1> QED
  BY <1>3, <1>5, <1>6, <1>7 DEF Prefix, p, q

\* e was published: the other processes have it last, the own process none.
Published(e) ==
  \A m \in Nodes :
    /\ Prefix(channel'[m], channel[m])
    /\ m = Node[e.from] => Len(channel'[m]) = Len(channel[m])
    /\ m # Node[e.from] => /\ Len(channel'[m]) = Len(channel[m]) + 1
                           /\ channel'[m][Len(channel[m]) + 1] = e
    /\ e.ev \in Leaving =>
         \A i \in 1 .. Len(channel[m]) : e.from \notin channel'[m][i].for

\* The sockets of the own process have heard e, those of the others have not.
HeardAt(e, R, before) ==
  \A s \in Sockets :
    /\ Node[s] # Node[e.from] => known'[s] = before[s]
    /\ Node[s] = Node[e.from] => known'[s] \in {before[s], Learn(before[s], e)}
    /\ /\ Node[s] = Node[e.from] /\ s \in R \cap conn
       /\ e.ev \in {"peer_joined", "peer_left"} \/ s # e.from
       => known'[s] = Learn(before[s], e)

LEMMA EmitShape ==
  ASSUME TypeOK, NEW e \in Events, NEW R \in SUBSET Sockets,
         NEW before \in [Sockets -> SUBSET Users], Emit(e, R, before)
  PROVE  /\ channel' \in [Nodes -> Seq(Events)]
         /\ known' \in [Sockets -> SUBSET Users]
         /\ Published(e) /\ HeardAt(e, R, before)
<1>1. \A m \in Nodes :
        channel'[m] = IF m = Node[e.from] THEN InFlight(e)[m]
                                          ELSE Append(InFlight(e)[m], e)
  BY DEF Emit
<1>2. DOMAIN channel' = Nodes /\ channel' = [m \in Nodes |-> channel'[m]]
  BY DEF Emit
<1>3. ASSUME NEW m \in Nodes
      PROVE  /\ channel'[m] \in Seq(Events)
             /\ Prefix(channel'[m], channel[m])
             /\ m = Node[e.from] => Len(channel'[m]) = Len(channel[m])
             /\ m # Node[e.from] =>
                  /\ Len(channel'[m]) = Len(channel[m]) + 1
                  /\ channel'[m][Len(channel[m]) + 1] = e
             /\ e.ev \in Leaving =>
                  \A i \in 1 .. Len(channel[m]) :
                    e.from \notin channel'[m][i].for
  <2> DEFINE p == InFlight(e)[m]
  <2>1. /\ p \in Seq(Events) /\ Len(p) = Len(channel[m])
        /\ Prefix(p, channel[m])
        /\ e.ev \in Leaving =>
             \A i \in 1 .. Len(channel[m]) : e.from \notin p[i].for
    BY InFlightShape
  <2>2. channel'[m] = IF m = Node[e.from] THEN p ELSE Append(p, e)
    BY <1>1
  <2> HIDE DEF p
  <2>3. CASE m = Node[e.from]
    BY <2>1, <2>2, <2>3
  <2>4. CASE m # Node[e.from]
    <3>1. channel'[m] = Append(p, e)
      BY <2>2, <2>4
    <3>2. /\ channel'[m] \in Seq(Events)
          /\ Len(channel'[m]) = Len(channel[m]) + 1
          /\ \A i \in 1 .. Len(channel[m]) : channel'[m][i] = p[i]
          /\ channel'[m][Len(channel[m]) + 1] = e
      BY <2>1, <3>1, AppendProperties
    <3> QED
      BY <2>1, <2>4, <3>2 DEF Prefix
  <2> QED
    BY <2>3, <2>4
<1>4. channel' \in [Nodes -> Seq(Events)]
  BY <1>2, <1>3
<1>5. \A s \in Sockets :
        known'[s] = IF s \in Audience(e, R, {t \in Sockets :
                                               Node[t] = Node[e.from]})
                      THEN Learn(before[s], e) ELSE before[s]
  BY DEF Emit, Hear
<1>6. known' = [s \in Sockets |-> known'[s]]
  BY DEF Emit, Hear
<1>7. known' \in [Sockets -> SUBSET Users]
  BY <1>5, <1>6, LearnType
<1>8. HeardAt(e, R, before)
  BY <1>5 DEF HeardAt, Audience
<1> QED
  BY <1>3, <1>4, <1>7, <1>8 DEF Published

LEMMA DeliverShape ==
  ASSUME TypeOK, NEW n \in Nodes, Deliver(n)
  PROVE  /\ channel' \in [Nodes -> Seq(Events)]
         /\ known' \in [Sockets -> SUBSET Users]
         /\ Len(channel[n]) \in Nat \ {0}
         /\ Len(channel'[n]) = Len(channel[n]) - 1
         /\ \A i \in 1 .. Len(channel'[n]) : channel'[n][i] = channel[n][i + 1]
         /\ \A m \in Nodes \ {n} : channel'[m] = channel[m]
         /\ channel[n][1] \in Events
         /\ Node[channel[n][1].from] # n
         /\ \A s \in Sockets : Node[s] # n => known'[s] = known[s]
         /\ \A s \in Open : Node[s] = n /\ channel[n][1].ev # "receive_offer"
              => known'[s] = Learn(known[s], channel[n][1])
         /\ \A s \in Open : Node[s] = n /\ channel[n][1].ev = "receive_offer"
              => known'[s] = known[s]
<1> DEFINE q == channel[n]
<1>1. q \in Seq(Events) /\ q # << >> /\ channel'[n] = Tail(q)
  BY DEF Deliver, TypeOK
<1>2. Head(q) = q[1] /\ Len(q) \in Nat \ {0}
  BY <1>1, EmptySeq
<1>3. /\ q[1] \in Events /\ Tail(q) \in Seq(Events)
      /\ Len(Tail(q)) = Len(q) - 1
      /\ \A i \in 1 .. Len(Tail(q)) : Tail(q)[i] = q[i + 1]
  BY <1>1, <1>2, HeadTailProperties
<1>4. Node[q[1].from] # n
  BY <1>2 DEF TypeOK
<1>5. \A m \in Nodes \ {n} : channel'[m] = channel[m]
  BY DEF Deliver, TypeOK
<1>6. channel' \in [Nodes -> Seq(Events)]
  BY <1>3 DEF Deliver, TypeOK
<1> DEFINE A == Audience(q[1], room, {s \in Sockets : Node[s] = n})
<1>7. /\ known' = [s \in Sockets |-> known'[s]]
      /\ \A s \in Sockets : known'[s] = IF s \in A THEN Learn(known[s], q[1])
                                                   ELSE known[s]
  BY <1>2 DEF Deliver, Hear
<1>8. known' \in [Sockets -> SUBSET Users]
  <2>1. \A s \in Sockets :
          known[s] \in SUBSET Users /\ Learn(known[s], q[1]) \in SUBSET Users
    BY <1>3, LearnType DEF TypeOK
  <2> HIDE DEF A, q
  <2> QED
    BY <1>7, <2>1
<1>9. \A s \in Open : Node[s] = n /\ q[1].ev # "receive_offer" => s \in A
  BY <1>4 DEF Open, Audience, TypeOK
<1>10. \A K : q[1].ev = "receive_offer" => Learn(K, q[1]) = K
  BY DEF Learn
<1>11. \A s \in A : Node[s] = n
  BY DEF Audience
<1>12. Open \subseteq Sockets
  BY DEF Open, TypeOK
<1> HIDE DEF q, A
<1> QED
  BY <1>1, <1>2, <1>3, <1>4, <1>5, <1>6, <1>7, <1>8, <1>9, <1>10, <1>11, <1>12
     DEF q

-------------------------------------------------------------------------------
(***************************************************************************)
(* Every step is a join, a leaving, an offer, a delivery, a connection, or *)
(* changes nothing but what waits.                                         *)
(***************************************************************************)

\* s emits e; before holds what the clients knew.  The step changes nothing
\* else about the other sockets.
Tells(s, e, before) ==
  /\ e.from = s
  /\ channel' \in [Nodes -> Seq(Events)] /\ Published(e)
  /\ known' \in [Sockets -> SUBSET Users] /\ HeardAt(e, room', before)
  /\ older' \in [Sockets -> SUBSET Users]
  /\ strangers' \subseteq Sockets \X Users
  /\ \A t \in Sockets \ {s} : before[t] = known[t] /\ older'[t] = older[t]

Joining(s, e, before) ==
  /\ Tells(s, e, before)
  /\ e.ev = "peer_joined" /\ e.for = {}
  /\ Owner[s] \notin Lapsed => s \in conn
  /\ s \in room => before[s] = known[s] /\ older'[s] = older[s]
  /\ s \notin room => /\ before[s] = {}
                      /\ older'[s] = {Owner[r] : r \in room}
  /\ room' = room \cup {s} /\ UNCHANGED <<conn, strangers>>

Parting(s, e, before) ==
  /\ Tells(s, e, before)
  /\ e.ev \in Leaving /\ e.for = {}
  /\ room' = room \ {s} /\ conn' \in {conn, conn \ {s}}
  /\ e.ev = "peer_disconnected" => conn' = conn \ {s}
  /\ UNCHANGED strangers

\* Emit stands for the last part of Hear.
Offering(s, e, before) ==
  /\ Tells(s, e, before)
  /\ e.ev = "receive_offer" /\ e.for = room
  /\ Owner[s] \notin Lapsed => s \in room
  /\ before = known /\ Emit(e, room, known)
  /\ UNCHANGED <<conn, room, older>>

Connecting(s) ==
  /\ s \notin conn \cup room
  /\ conn' = conn \cup {s}
  /\ known' = [known EXCEPT ![s] = {}]
  /\ older' = [older EXCEPT ![s] = {}]
  /\ UNCHANGED <<room, channel, strangers>>

Resting == UNCHANGED <<conn, room, channel, known, older, strangers>>

Acting(s) ==
  \E e \in Events, before \in [Sockets -> SUBSET Users] :
    \/ Joining(s, e, before)
    \/ Parting(s, e, before)
    \/ Offering(s, e, before)

LEMMA HearShape ==
  ASSUME TypeOK, NEW e \in Events, NEW R, NEW At \in SUBSET Sockets,
         NEW before, Hear(e, R, At, before)
  PROVE  /\ strangers' \subseteq Sockets \X Users
         /\ e.for = {} => strangers' = strangers
<1>1. Owner[e.from] \in Users
  BY VideoRoomAssumption DEF Events
<1> QED
  BY <1>1 DEF Hear, Audience, TypeOK

LEMMA EmitTells ==
  ASSUME TypeOK, NEW s \in Sockets, NEW e \in Events, e.from = s,
         NEW R \in SUBSET Sockets, room' = R,
         NEW before \in [Sockets -> SUBSET Users], Emit(e, R, before),
         older' \in [Sockets -> SUBSET Users],
         \A t \in Sockets \ {s} : before[t] = known[t] /\ older'[t] = older[t]
  PROVE  Tells(s, e, before) /\ (e.for = {} => strangers' = strangers)
<1>1. /\ channel' \in [Nodes -> Seq(Events)] /\ Published(e)
      /\ known' \in [Sockets -> SUBSET Users] /\ HeardAt(e, room', before)
  BY EmitShape
<1>2. Hear(e, R, {t \in Sockets : Node[t] = Node[e.from]}, before)
  BY DEF Emit
<1>3. /\ strangers' \subseteq Sockets \X Users
      /\ e.for = {} => strangers' = strangers
  BY <1>2, HearShape
<1> QED
  BY <1>1, <1>3 DEF Tells

LEMMA Joined ==
  ASSUME TypeOK, NEW s \in Sockets, HandleJoinRoom(s), UNCHANGED conn,
         Owner[s] \notin Lapsed => s \in conn
  PROVE  Acting(s)
<1> DEFINE e == Event("peer_joined", s)
           before == IF s \in room THEN known ELSE [known EXCEPT ![s] = {}]
<1>1. e \in Events /\ e.ev = "peer_joined" /\ e.from = s /\ e.for = {}
  BY EventType
<1>2. room' = room \cup {s} /\ room' \in SUBSET Sockets
  BY DEF HandleJoinRoom, TypeOK
<1>3. Emit(e, room', before)
  <2>1. CASE s \in room
    <3>1. room' = room
      BY <1>2, <2>1
    <3> QED
      BY <2>1, <3>1 DEF HandleJoinRoom
  <2>2. CASE s \notin room
    BY <2>2 DEF HandleJoinRoom
  <2> QED
    BY <2>1, <2>2
<1>4. /\ before \in [Sockets -> SUBSET Users]
      /\ before[s] = IF s \in room THEN known[s] ELSE {}
      /\ \A t \in Sockets \ {s} : before[t] = known[t]
  BY DEF TypeOK
<1>5. /\ older' \in [Sockets -> SUBSET Users]
      /\ older'[s] = IF s \in room THEN older[s]
                                   ELSE {Owner[r] : r \in room}
      /\ \A t \in Sockets \ {s} : older'[t] = older[t]
  <2>1. {Owner[r] : r \in room} \in SUBSET Users
    BY VideoRoomAssumption DEF TypeOK
  <2> QED
    BY <2>1 DEF HandleJoinRoom, TypeOK
<1> HIDE DEF e, before
<1>6. Tells(s, e, before) /\ strangers' = strangers
  BY <1>1, <1>2, <1>3, <1>4, <1>5, EmitTells
<1>7. Joining(s, e, before)
  BY <1>1, <1>2, <1>4, <1>5, <1>6 DEF Joining
<1> QED
  BY <1>1, <1>4, <1>7 DEF Acting

LEMMA Parted ==
  ASSUME TypeOK, NEW s \in Sockets, HandleLeaveRoom(s), UNCHANGED conn
  PROVE  Acting(s)
<1> DEFINE e == Event("peer_left", s)
           before == [known EXCEPT ![s] = {}]
<1>1. e \in Events /\ e.ev = "peer_left" /\ e.from = s /\ e.for = {}
  BY EventType
<1>2. room' = room \ {s} /\ room' \in SUBSET Sockets
  BY DEF HandleLeaveRoom, TypeOK
<1>3. Emit(e, room', before)
  BY DEF HandleLeaveRoom
<1>4. /\ before \in [Sockets -> SUBSET Users]
      /\ \A t \in Sockets \ {s} : before[t] = known[t]
  BY DEF TypeOK
<1>5. /\ older' \in [Sockets -> SUBSET Users]
      /\ \A t \in Sockets \ {s} : older'[t] = older[t]
  BY DEF HandleLeaveRoom, TypeOK
<1> HIDE DEF e, before
<1>6. Tells(s, e, before) /\ strangers' = strangers
  BY <1>1, <1>2, <1>3, <1>4, <1>5, EmitTells
<1>7. Parting(s, e, before)
  BY <1>1, <1>2, <1>6 DEF Parting, Leaving
<1> QED
  BY <1>1, <1>4, <1>7 DEF Acting

LEMMA Offered ==
  ASSUME TypeOK, NEW s \in Sockets, HandleSendOffer(s), UNCHANGED conn,
         Owner[s] \notin Lapsed => s \in room
  PROVE  Acting(s)
<1> DEFINE e == Event("receive_offer", s)
<1>1. e \in Events /\ e.ev = "receive_offer" /\ e.from = s /\ e.for = room
  BY EventType
<1>2. Emit(e, room, known) /\ UNCHANGED <<room, older>>
  BY DEF HandleSendOffer
<1>3. known \in [Sockets -> SUBSET Users]
  BY DEF TypeOK
<1> HIDE DEF e
<1>4. Tells(s, e, known)
  BY <1>1, <1>2, <1>3, EmitTells DEF TypeOK
<1>5. Offering(s, e, known)
  BY <1>1, <1>2, <1>4 DEF Offering
<1> QED
  BY <1>1, <1>3, <1>5 DEF Acting

LEMMA Closed ==
  ASSUME TypeOK, NEW s \in Sockets, HandleDisconnect(s)
  PROVE  Acting(s)
<1> DEFINE e == Event("peer_disconnected", s)
<1>1. e \in Events /\ e.ev = "peer_disconnected" /\ e.from = s /\ e.for = {}
  BY EventType
<1>2. /\ room' = room \ {s} /\ room' \in SUBSET Sockets
      /\ conn' = conn \ {s} /\ older' = older
  BY DEF HandleDisconnect, TypeOK
<1>3. Emit(e, room', known)
  BY DEF HandleDisconnect
<1>4. known \in [Sockets -> SUBSET Users]
  BY DEF TypeOK
<1> HIDE DEF e
<1>5. Tells(s, e, known) /\ strangers' = strangers
  BY <1>1, <1>2, <1>3, <1>4, EmitTells DEF TypeOK
<1>6. Parting(s, e, known)
  BY <1>1, <1>2, <1>5 DEF Parting, Leaving
<1> QED
  BY <1>1, <1>4, <1>6 DEF Acting

LEMMA Handled ==
  ASSUME TypeOK, NEW s \in Sockets, NEW r \in Requests, Handle(s, r),
         UNCHANGED conn,
         Owner[s] \notin Lapsed =>
           s \in conn /\ (r = "send_offer" => s \in room)
  PROVE  Acting(s)
  BY Joined, Parted, Offered DEF Handle, Requests

LEMMA EveryStep ==
  ASSUME TypeOK, Placed, [Next]_vars
  PROVE  \/ \E s \in Sockets : Acting(s) \/ Connecting(s)
         \/ \E n \in Nodes : Deliver(n)
         \/ Resting
<1>1. CASE UNCHANGED vars
  BY <1>1 DEF vars, Resting
<1>2. ASSUME NEW s \in Sockets, HandleDisconnect(s)
      PROVE  Acting(s)
  BY <1>2, Closed
<1>3. ASSUME NEW s \in Sockets, Connect(s)
      PROVE  Connecting(s)
  BY <1>3 DEF Connect, Connecting
<1>4. ASSUME NEW s \in Sockets, NEW r \in Requests, Receive(s, r)
      PROVE  Acting(s) \/ Resting
  <2>1. CASE Owner[s] \in Lapsed
    BY <1>4, <2>1 DEF Receive, Resting
  <2>2. CASE Owner[s] \notin Lapsed
    BY <1>4, <2>2, Handled DEF Receive
  <2> QED
    BY <2>1, <2>2
<1>5. ASSUME NEW s \in Sockets, NEW r \in Requests, PassGuard(s, r)
      PROVE  Acting(s)
  <2>1. Owner[s] \in Lapsed
    <3>1. <<s, r>> \in waiting /\ <<s, r>>[1] = s
      BY <1>5 DEF PassGuard
    <3> QED
      BY <3>1 DEF Placed
  <2> QED
    BY <1>5, <2>1, Handled DEF PassGuard
<1> QED
  BY <1>1, <1>2, <1>3, <1>4, <1>5 DEF Next

LEMMA WaitingStep ==
  ASSUME TypeOK, \A p \in waiting : Owner[p[1]] \in Lapsed, [Next]_vars
  PROVE  /\ waiting' \subseteq Sockets \X Requests
         /\ \A p \in waiting' : Owner[p[1]] \in Lapsed
<1>1. CASE UNCHANGED vars
  BY <1>1 DEF vars, TypeOK
<1>2. ASSUME NEW n \in Nodes, Deliver(n)
      PROVE  UNCHANGED waiting
  BY <1>2 DEF Deliver
<1>3. ASSUME NEW s \in Sockets, Connect(s) \/ HandleDisconnect(s)
      PROVE  UNCHANGED waiting
  BY <1>3 DEF Connect, HandleDisconnect
<1>4. ASSUME NEW s \in Sockets, NEW r \in Requests,
             Receive(s, r) \/ PassGuard(s, r)
      PROVE  \/ waiting' \subseteq waiting
             \/ Owner[s] \in Lapsed /\ waiting' = waiting \cup {<<s, r>>}
  BY <1>4 DEF Receive, PassGuard
<1> QED
  BY <1>1, <1>2, <1>3, <1>4 DEF Next, TypeOK

-------------------------------------------------------------------------------
(***************************************************************************)
(* Types, and who waits and is in the room.                                *)
(***************************************************************************)
LEMMA SeqRange ==
  ASSUME TypeOK, NEW n \in Nodes
  PROVE  /\ Len(channel[n]) \in Nat
         /\ \A i \in 1 .. Len(channel[n]) :
              /\ channel[n][i] \in Events
              /\ channel[n][i].from \in Sockets
              /\ Node[channel[n][i].from] # n
<1>1. channel[n] \in Seq(Events)
  BY DEF TypeOK
<1>2. Len(channel[n]) \in Nat
  BY <1>1, LenProperties
<1>3. \A i \in 1 .. Len(channel[n]) : channel[n][i] \in Events
  BY <1>1, ElementOfSeq
<1> QED
  BY <1>2, <1>3 DEF TypeOK, Events

\* An event of channel[n] after a step in which e was published is an old one,
\* or e, which comes last.
LEMMA PublishedEvent ==
  ASSUME TypeOK, NEW e, Published(e), NEW n \in Nodes,
         NEW i \in 1 .. Len(channel'[n])
  PROVE  \/ /\ i \in 1 .. Len(channel[n])
            /\ channel'[n][i].ev = channel[n][i].ev
            /\ channel'[n][i].from = channel[n][i].from
            /\ channel'[n][i].for \subseteq channel[n][i].for
         \/ /\ n # Node[e.from] /\ i = Len(channel[n]) + 1
            /\ channel'[n][i] = e
<1>1. Len(channel[n]) \in Nat
  BY SeqRange
<1>2. CASE n = Node[e.from]
  <2>1. Len(channel'[n]) = Len(channel[n])
    BY <1>2 DEF Published
  <2> QED
    BY <2>1 DEF Published, Prefix
<1>3. CASE n # Node[e.from]
  <2>1. /\ Len(channel'[n]) = Len(channel[n]) + 1
        /\ channel'[n][Len(channel[n]) + 1] = e
    BY <1>3 DEF Published
  <2>2. i \in 1 .. Len(channel[n]) \/ i = Len(channel[n]) + 1
    BY <1>1, <2>1
  <2> QED
    BY <1>3, <2>1, <2>2 DEF Published, Prefix
<1> QED
  BY <1>2, <1>3

LEMMA TypeStep ==
  ASSUME TypeOK, Placed, [Next]_vars
  PROVE  TypeOK'
<1>1. waiting' \subseteq Sockets \X Requests
  BY WaitingStep DEF Placed
<1>2. ASSUME NEW s \in Sockets, Acting(s)
      PROVE  TypeOK'
  <2>1. PICK e \in Events, before \in [Sockets -> SUBSET Users] :
          \/ Joining(s, e, before)
          \/ Parting(s, e, before)
          \/ Offering(s, e, before)
    BY <1>2 DEF Acting
  <2>2. Tells(s, e, before)
    BY <2>1 DEF Joining, Parting, Offering
  <2>3. room' \subseteq Sockets /\ conn' \subseteq Sockets
    BY <2>1 DEF Joining, Parting, Offering, TypeOK
  <2>4. ASSUME NEW n \in Nodes, NEW i \in 1 .. Len(channel'[n])
        PROVE  Node[channel'[n][i].from] # n
    <3>1. \/ /\ i \in 1 .. Len(channel[n])
             /\ channel'[n][i].from = channel[n][i].from
          \/ n # Node[e.from] /\ channel'[n][i] = e
      BY <2>2, PublishedEvent DEF Tells
    <3> QED
      BY <3>1, SeqRange
  <2> QED
    BY <1>1, <2>2, <2>3, <2>4 DEF Tells, TypeOK
<1>3. ASSUME NEW n \in Nodes, Deliver(n)
      PROVE  TypeOK'
  <2>1. /\ channel' \in [Nodes -> Seq(Events)]
        /\ known' \in [Sockets -> SUBSET Users]
        /\ Len(channel[n]) \in Nat \ {0}
        /\ Len(channel'[n]) = Len(channel[n]) - 1
        /\ \A i \in 1 .. Len(channel'[n]) : channel'[n][i] = channel[n][i + 1]
        /\ \A m \in Nodes \ {n} : channel'[m] = channel[m]
    BY <1>3, DeliverShape
  <2>2. ASSUME NEW m \in Nodes, NEW i \in 1 .. Len(channel'[m])
        PROVE  Node[channel'[m][i].from] # m
    <3>1. CASE m = n
      <4>1. i + 1 \in 1 .. Len(channel[n])
        BY <2>1, <3>1
      <4>2. channel'[n][i] = channel[n][i + 1]
        BY <2>1, <3>1
      <4>3. Node[channel[n][i + 1].from] # n
        BY <4>1, SeqRange
      <4> QED
        BY <3>1, <4>2, <4>3
    <3>2. CASE m # n
      BY <2>1, <3>2, SeqRange
    <3> QED
      BY <3>1, <3>2
  <2>3. strangers' \subseteq Sockets \X Users
    <3>1. channel[n] # << >> /\ channel[n] \in Seq(Events)
      BY <1>3 DEF Deliver, TypeOK
    <3>2. Head(channel[n]) \in Events
      BY <3>1, HeadTailProperties
    <3> QED
      BY <1>3, <3>2, HearShape DEF Deliver
  <2> QED
    BY <1>1, <1>3, <2>1, <2>2, <2>3 DEF Deliver, TypeOK
<1>4. ASSUME NEW s \in Sockets, Connecting(s)
      PROVE  TypeOK'
  BY <1>1, <1>4 DEF Connecting, TypeOK
<1>5. CASE Resting
  BY <1>1, <1>5 DEF Resting, TypeOK
<1> QED
  BY <1>2, <1>3, <1>4, <1>5, EveryStep

LEMMA PlacedStep ==
  ASSUME TypeOK, Placed, [Next]_vars
  PROVE  Placed'
<1>1. \A p \in waiting' : Owner[p[1]] \in Lapsed
  BY WaitingStep DEF Placed
<1>2. ASSUME NEW s \in Sockets, Acting(s)
      PROVE  Placed'
  <2>1. PICK e \in Events, before \in [Sockets -> SUBSET Users] :
          \/ Joining(s, e, before)
          \/ Parting(s, e, before)
          \/ Offering(s, e, before)
    BY <1>2 DEF Acting
  <2>2. Published(e) /\ e.from = s
    BY <2>1 DEF Joining, Parting, Offering, Tells
  <2>3. \A t \in room' : Owner[t] \notin Lapsed => t \in conn'
    BY <2>1 DEF Placed, Joining, Parting, Offering
  <2>4. ASSUME NEW n \in Nodes, NEW i \in 1 .. Len(channel'[n])
        PROVE  channel'[n][i].for \subseteq room'
    <3>1. e.for \subseteq room'
      BY <2>1 DEF Joining, Parting, Offering
    <3>2. CASE e.ev \in Leaving
      <4>1. room' = room \ {s}
        BY <2>1, <3>2 DEF Joining, Parting, Offering, Leaving
      <4>2. i \in 1 .. Len(channel[n]) => s \notin channel'[n][i].for
        BY <2>2, <3>2 DEF Published
      <4> QED
        BY <2>2, <3>1, <4>1, <4>2, PublishedEvent DEF Placed
    <3>3. CASE e.ev \notin Leaving
      <4>1. room \subseteq room'
        BY <2>1, <3>3 DEF Joining, Parting, Offering
      <4> QED
        BY <2>2, <3>1, <4>1, PublishedEvent DEF Placed
    <3> QED
      BY <3>2, <3>3
  <2> QED
    BY <1>1, <2>3, <2>4 DEF Placed
<1>3. ASSUME NEW n \in Nodes, Deliver(n)
      PROVE  Placed'
  <2>1. UNCHANGED <<conn, room>>
    BY <1>3 DEF Deliver
  <2>2. ASSUME NEW m \in Nodes, NEW i \in 1 .. Len(channel'[m])
        PROVE  channel'[m][i].for \subseteq room
    <3>1. CASE m = n
      <4>1. /\ i + 1 \in 1 .. Len(channel[n])
            /\ channel'[n][i] = channel[n][i + 1]
        BY <1>3, <3>1, DeliverShape
      <4> QED
        BY <3>1, <4>1 DEF Placed
    <3>2. CASE m # n
      BY <1>3, <3>2, DeliverShape DEF Placed
    <3> QED
      BY <3>1, <3>2
  <2> QED
    BY <1>1, <2>1, <2>2 DEF Placed
<1>4. ASSUME NEW s \in Sockets, Connecting(s)
      PROVE  Placed'
  BY <1>1, <1>4 DEF Connecting, Placed
<1>5. CASE Resting
  BY <1>1, <1>5 DEF Resting, Placed
<1> QED
  BY <1>2, <1>3, <1>4, <1>5, EveryStep

LEMMA StartsTyped == Init => TypeOK /\ Placed
  BY EmptySeq DEF Init, TypeOK, Placed

\* Every variable has its type, and the gateway's own events never come back
\* to the process that published them (the adapter ignores its own messages).
THEOREM TypeCorrect == Spec => []TypeOK
<1>1. Init => TypeOK /\ Placed
  BY StartsTyped
<1>2. (TypeOK /\ Placed) /\ [Next]_vars => (TypeOK /\ Placed)'
  BY TypeStep, PlacedStep
<1> QED
  BY <1>1, <1>2, PTL DEF Spec

-------------------------------------------------------------------------------
(***************************************************************************)
(* Nobody is left with a ghost, however many sockets a user has.           *)
(***************************************************************************)

\* An event that was on its way is still there.
LEMMA GoneKept ==
  ASSUME TypeOK, NEW e, Published(e), NEW s \in Sockets, NEW u, Gone(s, u)
  PROVE  Gone(s, u)'
<1> DEFINE n == Node[s]
<1>1. n \in Nodes
  BY VideoRoomAssumption
<1>2. PICK i \in 1 .. Len(channel[n]) :
        channel[n][i].ev \in Leaving /\ Owner[channel[n][i].from] = u
  BY DEF Gone
<1>3. Len(channel[n]) \in Nat
  BY <1>1, SeqRange
<1>4. Len(channel'[n]) \in {Len(channel[n]), Len(channel[n]) + 1}
  BY <1>1 DEF Published
<1>5. /\ i \in 1 .. Len(channel'[n])
      /\ channel'[n][i].ev = channel[n][i].ev
      /\ channel'[n][i].from = channel[n][i].from
  BY <1>1, <1>2, <1>3, <1>4 DEF Published, Prefix
<1> HIDE DEF n
<1> QED
  BY <1>2, <1>5 DEF Gone, n

LEMMA BelievedTells ==
  ASSUME TypeOK, Believed, NEW s \in Sockets, NEW e \in Events,
         NEW before \in [Sockets -> SUBSET Users], Tells(s, e, before),
         e.ev \in Leaving => room' = room \ {s} /\ s \notin Open',
         e.ev \notin Leaving => room \subseteq room',
         e.ev = "peer_joined" => s \in room',
         s \in Open' => before[s] = {} \/ (s \in Open /\ before[s] = known[s]),
         Open' \subseteq Open \cup {s}, Open' \subseteq conn,
         room' \subseteq Sockets
  PROVE  Believed'
<1> USE DEF Tells
<1>1. \A n \in Nodes : Len(channel[n]) \in Nat
  BY SeqRange
<1>2. ASSUME NEW t \in Open', NEW u \in known'[t]
      PROVE  Present(u)' \/ Gone(t, u)'
  <2>1. t \in Sockets /\ t \in room' \cap conn /\ Node[t] \in Nodes
    BY VideoRoomAssumption DEF Open
  <2>2. u \in before[t] \/ (e.ev = "peer_joined" /\ u = Owner[s])
    BY <2>1 DEF HeardAt, Learn
  <2>3. CASE e.ev = "peer_joined" /\ u = Owner[s]
    BY <2>3 DEF Present
  <2>4. CASE u \in before[t]
    <3>1. t \in Open /\ u \in known[t]
      BY <2>1, <2>4
    <3>2. CASE Gone(t, u)
      BY <2>1, <3>2, GoneKept
    <3>3. CASE Present(u) /\ (e.ev \notin Leaving \/ u # Owner[s])
      BY <3>3 DEF Present
    <3>4. CASE e.ev \in Leaving /\ u = Owner[s] /\ Node[t] = Node[s]
      <4>1. known'[t] = Learn(before[t], e)
        BY <2>1, <3>4 DEF HeardAt
      <4> QED
        BY <3>4, <4>1 DEF Learn, Leaving
    <3>5. CASE e.ev \in Leaving /\ u = Owner[s] /\ Node[t] # Node[s]
      <4> DEFINE n == Node[t]
      <4>1. /\ Len(channel'[n]) = Len(channel[n]) + 1
            /\ channel'[n][Len(channel[n]) + 1] = e
        BY <2>1, <3>5 DEF Published
      <4>2. Len(channel[n]) + 1 \in 1 .. Len(channel'[n])
        BY <1>1, <2>1, <4>1
      <4> HIDE DEF n
      <4> QED
        BY <3>5, <4>1, <4>2 DEF Gone, n
    <3> QED
      BY <3>1, <3>2, <3>3, <3>4, <3>5 DEF Believed
  <2> QED
    BY <2>2, <2>3, <2>4
<1>3. ASSUME NEW n \in Nodes, NEW i \in 1 .. Len(channel'[n]),
             channel'[n][i].ev = "peer_joined"
      PROVE  \/ channel'[n][i].from \in room'
             \/ \E j \in i + 1 .. Len(channel'[n]) :
                  Leaves(channel'[n][j], channel'[n][i].from)
  <2>1. CASE ~ i \in 1 .. Len(channel[n])
    BY <1>3, <2>1, PublishedEvent
  <2>2. CASE i \in 1 .. Len(channel[n])
    <3> DEFINE r == channel[n][i].from
    <3>1. channel'[n][i].from = r /\ channel[n][i].ev = "peer_joined"
      BY <1>3, <2>2 DEF Published, Prefix
    <3>2. Node[r] # n
      BY <2>2, SeqRange
    <3>3. Len(channel'[n]) \in {Len(channel[n]), Len(channel[n]) + 1}
      BY DEF Published
    <3>4. ASSUME NEW j \in i + 1 .. Len(channel[n]), Leaves(channel[n][j], r)
          PROVE  j \in i + 1 .. Len(channel'[n]) /\ Leaves(channel'[n][j], r)
      <4>1. j \in 1 .. Len(channel[n]) /\ j \in i + 1 .. Len(channel'[n])
        BY <1>1, <2>2, <3>3
      <4> QED
        BY <3>4, <4>1 DEF Leaves, Published, Prefix
    <3>5. CASE r \in room /\ r \notin room'
      <4>1. e.ev \in Leaving /\ r = s
        BY <3>5
      <4>2. /\ Len(channel'[n]) = Len(channel[n]) + 1
            /\ channel'[n][Len(channel[n]) + 1] = e
        BY <3>2, <4>1 DEF Published
      <4>3. Len(channel[n]) + 1 \in i + 1 .. Len(channel'[n])
        BY <1>1, <2>2, <4>2
      <4> HIDE DEF r
      <4> QED
        BY <3>1, <4>1, <4>2, <4>3 DEF Leaves
    <3> HIDE DEF r
    <3>6. r \in room \/ \E j \in i + 1 .. Len(channel[n]) :
                          Leaves(channel[n][j], r)
      BY <2>2, <3>1 DEF Believed, r
    <3> QED
      BY <3>1, <3>4, <3>5, <3>6
  <2> QED
    BY <2>1, <2>2
<1> QED
  BY <1>2, <1>3 DEF Believed

LEMMA BelievedDelivery ==
  ASSUME TypeOK, Believed, NEW n \in Nodes, Deliver(n)
  PROVE  Believed'
<1> DEFINE q == channel[n]
<1>1. UNCHANGED <<conn, room>>
  BY DEF Deliver
<1>2. /\ Len(q) \in Nat \ {0} /\ Len(channel'[n]) = Len(q) - 1
      /\ \A i \in 1 .. Len(channel'[n]) : channel'[n][i] = q[i + 1]
      /\ \A m \in Nodes \ {n} : channel'[m] = channel[m]
  BY DeliverShape
<1>3. ASSUME NEW s \in Open, NEW u \in known'[s]
      PROVE  Present(u) \/ Gone(s, u)'
  <2>1. s \in Sockets /\ Node[s] \in Nodes
    BY VideoRoomAssumption DEF Open, TypeOK
  <2>2. CASE Node[s] # n
    <3>1. known'[s] = known[s] /\ channel'[Node[s]] = channel[Node[s]]
      BY <1>2, <2>1, <2>2, DeliverShape
    <3> QED
      BY <1>3, <3>1 DEF Believed, Gone
  <2>3. CASE Node[s] = n
    <3>1. /\ q[1].ev # "receive_offer" => known'[s] = Learn(known[s], q[1])
          /\ q[1].ev = "receive_offer" => known'[s] = known[s]
      BY <2>1, <2>3, DeliverShape
    <3>2. \/ u \in known[s] /\ ~ (q[1].ev \in Leaving /\ u = Owner[q[1].from])
          \/ q[1].ev = "peer_joined" /\ u = Owner[q[1].from]
      <4>1. q[1].ev \in {"peer_joined", "receive_offer"} \cup Leaving
        BY DeliverShape DEF Events, Leaving
      <4> HIDE DEF q
      <4> QED
        BY <1>3, <3>1, <4>1 DEF Learn, Leaving
    <3>3. ASSUME NEW i \in 2 .. Len(q), q[i].ev \in Leaving,
                 Owner[q[i].from] = u
          PROVE  Gone(s, u)'
      <4>1. i - 1 \in 1 .. Len(channel'[n]) /\ (i - 1) + 1 = i
        BY <1>2
      <4>2. channel'[n][i - 1] = q[i]
        BY <1>2, <4>1
      <4> HIDE DEF q
      <4> QED
        BY <2>3, <3>3, <4>1, <4>2 DEF Gone
    <3>4. CASE q[1].ev = "peer_joined" /\ u = Owner[q[1].from]
      <4>1. 1 \in 1 .. Len(q)
        BY <1>2
      <4>2. \/ q[1].from \in room
            \/ \E j \in 1 + 1 .. Len(q) : Leaves(q[j], q[1].from)
        BY <3>4, <4>1 DEF Believed
      <4>3. ASSUME NEW j \in 1 + 1 .. Len(q), Leaves(q[j], q[1].from)
            PROVE  Gone(s, u)'
        <5>1. j \in 2 .. Len(q)
          OBVIOUS
        <5> QED
          BY <3>3, <3>4, <4>3, <5>1 DEF Leaves
      <4> QED
        BY <3>4, <4>2, <4>3 DEF Present
    <3>5. CASE u \in known[s] /\ ~ (q[1].ev \in Leaving
                                    /\ u = Owner[q[1].from])
      <4>1. Present(u) \/ Gone(s, u)
        BY <3>5 DEF Believed
      <4>2. ASSUME Gone(s, u)
            PROVE  Gone(s, u)'
        <5>1. PICK i \in 1 .. Len(q) : q[i].ev \in Leaving
                                       /\ Owner[q[i].from] = u
          BY <2>3, <4>2 DEF Gone
        <5>2. i \in 2 .. Len(q)
          <6>1. i # 1
            BY <3>5, <5>1
          <6> QED
            BY <1>2, <6>1
        <5> QED
          BY <3>3, <5>1, <5>2
      <4> QED
        BY <4>1, <4>2
    <3> QED
      BY <3>2, <3>4, <3>5
  <2> QED
    BY <2>2, <2>3
<1>4. ASSUME NEW m \in Nodes, NEW i \in 1 .. Len(channel'[m]),
             channel'[m][i].ev = "peer_joined"
      PROVE  \/ channel'[m][i].from \in room
             \/ \E j \in i + 1 .. Len(channel'[m]) :
                  Leaves(channel'[m][j], channel'[m][i].from)
  <2>1. CASE m # n
    BY <1>2, <1>4, <2>1 DEF Believed
  <2>2. CASE m = n
    <3>1. i + 1 \in 1 .. Len(q) /\ channel'[n][i] = q[i + 1]
      BY <1>2, <2>2
    <3>2. \/ q[i + 1].from \in room
          \/ \E j \in (i + 1) + 1 .. Len(q) : Leaves(q[j], q[i + 1].from)
      BY <1>4, <2>2, <3>1 DEF Believed
    <3>3. ASSUME NEW j \in (i + 1) + 1 .. Len(q), Leaves(q[j], q[i + 1].from)
          PROVE  \E l \in i + 1 .. Len(channel'[n]) :
                   Leaves(channel'[n][l], channel'[n][i].from)
      <4>1. j - 1 \in i + 1 .. Len(channel'[n])
            /\ j - 1 \in 1 .. Len(channel'[n]) /\ (j - 1) + 1 = j
        BY <1>2, <2>2
      <4>2. channel'[n][j - 1] = q[j]
        BY <1>2, <4>1
      <4> HIDE DEF q
      <4> QED
        BY <3>1, <3>3, <4>1, <4>2
    <3> QED
      BY <2>2, <3>1, <3>2, <3>3
  <2> QED
    BY <2>1, <2>2
<1> QED
  BY <1>1, <1>3, <1>4 DEF Believed, Open, Present

LEMMA BelievedStep ==
  ASSUME TypeOK, Placed, Believed, [Next]_vars
  PROVE  Believed'
<1>1. ASSUME NEW s \in Sockets, Acting(s)
      PROVE  Believed'
  <2>1. PICK e \in Events, before \in [Sockets -> SUBSET Users] :
          \/ Joining(s, e, before)
          \/ Parting(s, e, before)
          \/ Offering(s, e, before)
    BY <1>1 DEF Acting
  <2>2. Tells(s, e, before)
    BY <2>1 DEF Joining, Parting, Offering
  <2>3. CASE Joining(s, e, before)
    BY <2>2, <2>3, BelievedTells, TypeStep
       DEF Joining, Open, Leaving, TypeOK
  <2>4. CASE Parting(s, e, before)
    BY <2>2, <2>4, BelievedTells DEF Parting, Open, Leaving, TypeOK
  <2>5. CASE Offering(s, e, before)
    BY <2>2, <2>5, BelievedTells DEF Offering, Open, Leaving, TypeOK
  <2> QED
    BY <2>1, <2>3, <2>4, <2>5
<1>2. ASSUME NEW s \in Sockets, Connecting(s)
      PROVE  Believed'
  <2>1. Open' = Open /\ UNCHANGED <<room, channel>>
    BY <1>2 DEF Connecting, Open
  <2>2. \A t \in Open : known'[t] = known[t]
    BY <1>2 DEF Connecting, Open, TypeOK
  <2> QED
    BY <2>1, <2>2 DEF Believed, Present, Gone
<1>3. CASE Resting
  BY <1>3 DEF Resting, Believed, Present, Gone, Open
<1> QED
  BY <1>1, <1>2, <1>3, BelievedDelivery, EveryStep

LEMMA StartsBelieved == Init => Believed
  BY EmptySeq DEF Init, Believed, Open

LEMMA GhostFree == TypeOK /\ Placed /\ Believed => NoGhosts
<1> SUFFICES ASSUME TypeOK, Placed, Believed, Settled,
                    NEW s \in Members, NEW u \in known[s], u \notin Lapsed
             PROVE  \E t \in Members : Owner[t] = u
  BY DEF NoGhosts
<1>1. s \in Open /\ s \in Sockets /\ Node[s] \in Nodes
  BY VideoRoomAssumption DEF Members, Open, TypeOK
<1>2. Len(channel[Node[s]]) = 0
  BY <1>1 DEF Settled
<1>3. ~ Gone(s, u)
  BY <1>2 DEF Gone
<1>4. PICK t \in room : Owner[t] = u
  BY <1>1, <1>3 DEF Believed, Present
<1>5. t \in conn
  BY <1>4 DEF Placed
<1> QED
  BY <1>4, <1>5 DEF Members

\* Nobody is left in a call with a user who is gone: once the events have
\* arrived, whoever a client believes to be in the room is, on whichever
\* processes the two are and in whatever order they join, leave and close,
\* with any number of tabs.
THEOREM GhostsLeave == Spec => []NoGhosts
<1>1. Init => TypeOK /\ Placed /\ Believed
  BY StartsTyped, StartsBelieved
<1>2. (TypeOK /\ Placed /\ Believed) /\ [Next]_vars
        => (TypeOK /\ Placed /\ Believed)'
  BY TypeStep, PlacedStep, BelievedStep
<1>3. TypeOK /\ Placed /\ Believed => NoGhosts
  BY GhostFree
<1> QED
  BY <1>1, <1>2, <1>3, PTL DEF Spec

-------------------------------------------------------------------------------
(***************************************************************************)
(* What a client will have heard.                                          *)
(***************************************************************************)

\* The same events, for a client that knows no less of t.
LEMMA HearsSame ==
  ASSUME NEW q, NEW p, NEW k, NEW k2, NEW t, NEW i \in Nat,
         Hears(q, k, t, i), Owner[t] \in k => Owner[t] \in k2,
         \A j \in 1 .. i - 1 : p[j].ev = q[j].ev /\ p[j].from = q[j].from
  PROVE  Hears(p, k2, t, i)
<1>1. \A j \in 1 .. i - 1 : /\ Joins(p[j], t) <=> Joins(q[j], t)
                            /\ Leaves(p[j], t) <=> Leaves(q[j], t)
  BY DEF Joins, Leaves
<1>2. \A j \in 1 .. i - 1 : \A l \in j + 1 .. i - 1 : l \in 1 .. i - 1
  OBVIOUS
<1> QED
  BY <1>1, <1>2 DEF Hears

\* One event more.
LEMMA HearsMore ==
  ASSUME NEW q, NEW k, NEW t, NEW i \in Nat \ {0},
         \/ Hears(q, k, t, i) /\ ~ Leaves(q[i], t)
         \/ Joins(q[i], t)
  PROVE  Hears(q, k, t, i + 1)
<1>1. (i + 1) - 1 = i /\ i \in 1 .. i
  OBVIOUS
<1>2. CASE Joins(q[i], t)
  <2>1. \A l \in i + 1 .. i : FALSE
    OBVIOUS
  <2> QED
    BY <1>1, <1>2, <2>1 DEF Hears
<1>3. CASE Hears(q, k, t, i) /\ ~ Leaves(q[i], t)
  <2>1. \A j \in 1 .. i : j \in 1 .. i - 1 \/ j = i
    OBVIOUS
  <2>2. \A j \in 1 .. i - 1 : /\ j \in 1 .. i
                              /\ \A l \in j + 1 .. i :
                                   l \in j + 1 .. i - 1 \/ l = i
    OBVIOUS
  <2> QED
    BY <1>1, <1>3, <2>1, <2>2 DEF Hears
<1> QED
  BY <1>2, <1>3

\* The first event has been heard.
LEMMA HearsNext ==
  ASSUME NEW q, NEW p, NEW k, NEW k2, NEW t, NEW i \in Nat \ {0},
         \A j \in 1 .. i - 1 : p[j] = q[j + 1],
         Owner[t] \in k /\ ~ Leaves(q[1], t) => Owner[t] \in k2,
         Joins(q[1], t) => Owner[t] \in k2,
         Hears(q, k, t, i + 1)
  PROVE  Hears(p, k2, t, i)
<1>1. (i + 1) - 1 = i /\ 1 \in 1 .. i
  OBVIOUS
<1>2. \A j \in 1 .. i - 1 : j + 1 \in 1 .. i
  OBVIOUS
<1>3. CASE Owner[t] \in k /\ \A j \in 1 .. i : ~ Leaves(q[j], t)
  BY <1>1, <1>2, <1>3 DEF Hears
<1>4. ASSUME NEW j \in 1 .. i, Joins(q[j], t),
             \A l \in j + 1 .. i : ~ Leaves(q[l], t)
      PROVE  Hears(p, k2, t, i)
  <2>1. CASE j = 1
    <3>1. \A l \in 1 .. i - 1 : l + 1 \in j + 1 .. i
      BY <2>1
    <3> QED
      BY <1>4, <2>1, <3>1 DEF Hears
  <2>2. CASE j # 1
    <3>1. j - 1 \in 1 .. i - 1 /\ (j - 1) + 1 = j
      BY <2>2
    <3>2. \A l \in (j - 1) + 1 .. i - 1 : /\ l \in 1 .. i - 1
                                          /\ l + 1 \in j + 1 .. i
      OBVIOUS
    <3> QED
      BY <1>4, <3>1, <3>2 DEF Hears
  <2> QED
    BY <2>1, <2>2
<1> QED
  BY <1>1, <1>3, <1>4 DEF Hears

\* An emission by s takes nothing away from what x will have heard of others.
LEMMA StillHears ==
  ASSUME OneEach, TypeOK, NEW s \in Sockets, NEW e \in Events,
         NEW before \in [Sockets -> SUBSET Users], Tells(s, e, before),
         NEW x \in Sockets, before[x] = known[x], NEW t \in Sockets,
         NEW i \in 1 .. Len(channel[Node[x]]) + 1,
         Hears(channel[Node[x]], known[x], t, i),
         \/ t # s
         \/ Node[x] # Node[s]
         \/ e.ev = "receive_offer"
  PROVE  Hears(channel'[Node[x]], known'[x], t, i)
<1> DEFINE q == channel[Node[x]]
           p == channel'[Node[x]]
<1>1. Node[x] \in Nodes /\ Len(q) \in Nat
  BY VideoRoomAssumption, SeqRange
<1>2. i \in Nat /\ \A j \in 1 .. i - 1 : j \in 1 .. Len(q)
  BY <1>1
<1>3. \A j \in 1 .. i - 1 : p[j].ev = q[j].ev /\ p[j].from = q[j].from
  BY <1>1, <1>2 DEF Tells, Published, Prefix
<1>4. Owner[t] \in known[x] => Owner[t] \in known'[x]
  <2>1. e.from = s
    BY DEF Tells
  <2>2. /\ Node[x] # Node[s] => known'[x] = known[x]
        /\ known'[x] \in {known[x], Learn(known[x], e)}
    BY <2>1 DEF Tells, HeardAt
  <2>3. t # s => Owner[t] # Owner[s]
    BY DEF OneEach
  <2> QED
    BY <2>1, <2>2, <2>3 DEF Learn
<1> HIDE DEF p, q
<1>5. Hears(p, known'[x], t, i)
  BY <1>2, <1>3, <1>4, HearsSame DEF q
<1> QED
  BY <1>5 DEF p

LEMMA StillTold ==
  ASSUME OneEach, TypeOK, NEW s \in Sockets, NEW e \in Events,
         NEW before \in [Sockets -> SUBSET Users], Tells(s, e, before),
         NEW x \in Sockets, before[x] = known[x], NEW t \in Sockets,
         Told(x, t), t # s \/ e.ev = "receive_offer"
  PROVE  Told(x, t)'
<1> DEFINE q == channel[Node[x]]
           p == channel'[Node[x]]
           i == Len(q) + 1
<1>1. Node[x] \in Nodes /\ Len(q) \in Nat
  BY VideoRoomAssumption, SeqRange
<1>2. i \in 1 .. Len(q) + 1 /\ i \in Nat \ {0}
  BY <1>1
<1>3. Hears(p, known'[x], t, i)
  BY <1>2, StillHears DEF Told
<1>4. e.from = s /\ Published(e)
  BY DEF Tells
<1>5. CASE Node[x] = Node[s]
  <2>1. Len(p) = Len(q)
    BY <1>1, <1>4, <1>5 DEF Published
  <2> QED
    BY <1>3, <2>1 DEF Told
<1>6. CASE Node[x] # Node[s]
  <2>1. Len(p) = i /\ p[i] = e
    BY <1>1, <1>4, <1>6 DEF Published
  <2>2. ~ Leaves(p[i], t)
    BY <1>4, <2>1 DEF Leaves, Leaving
  <2> HIDE DEF p, q, i
  <2>3. Hears(p, known'[x], t, i + 1)
    BY <1>2, <1>3, <2>2, HearsMore
  <2> QED
    BY <2>1, <2>3 DEF Told, p
<1> QED
  BY <1>5, <1>6

\* Everybody in the room will know of the one who joins.
LEMMA JoinIsTold ==
  ASSUME TypeOK, NEW s \in Sockets, NEW e \in Events,
         NEW before \in [Sockets -> SUBSET Users], Joining(s, e, before),
         NEW x \in Sockets, x \in Open'
  PROVE  Told(x, s)'
<1> DEFINE q == channel[Node[x]]
           p == channel'[Node[x]]
<1>1. Node[x] \in Nodes /\ Len(q) \in Nat
  BY VideoRoomAssumption, SeqRange
<1>2. e.from = s /\ e.ev = "peer_joined" /\ Published(e)
      /\ HeardAt(e, room', before)
  BY DEF Joining, Tells
<1>3. x \in room' \cap conn
  BY DEF Open, Joining
<1>4. CASE Node[x] = Node[s]
  <2>1. known'[x] = Learn(before[x], e)
    BY <1>2, <1>3, <1>4 DEF HeardAt
  <2>2. Owner[s] \in known'[x]
    BY <1>2, <2>1 DEF Learn
  <2>3. Len(p) = Len(q)
    BY <1>1, <1>2, <1>4 DEF Published
  <2>4. \A j \in 1 .. Len(q) : p[j].from # s
    BY <1>1, <1>2, <1>4, SeqRange DEF Published, Prefix
  <2>5. \A j \in 1 .. (Len(p) + 1) - 1 : ~ Leaves(p[j], s)
    BY <1>1, <2>3, <2>4 DEF Leaves
  <2> QED
    BY <2>2, <2>5 DEF Told, Hears
<1>5. CASE Node[x] # Node[s]
  <2>1. Len(p) = Len(q) + 1 /\ p[Len(p)] = e
    BY <1>1, <1>2, <1>5 DEF Published
  <2>2. Joins(p[Len(p)], s) /\ Len(p) \in Nat \ {0}
    BY <1>1, <1>2, <2>1 DEF Joins
  <2> HIDE DEF p, q
  <2>3. Hears(p, known'[x], s, Len(p) + 1)
    BY <2>2, HearsMore
  <2> QED
    BY <2>3 DEF Told, p
<1> QED
  BY <1>4, <1>5

\* A delivery leaves what the sockets will have heard as it is.
LEMMA DeliveredHears ==
  ASSUME OneEach, TypeOK, NEW n \in Nodes, Deliver(n),
         NEW x \in Open, NEW t \in Sockets
  PROVE  /\ Node[x] # n => /\ channel'[Node[x]] = channel[Node[x]]
                           /\ known'[x] = known[x]
         /\ Node[x] = n =>
              \A i \in 1 .. Len(channel'[n]) + 1 :
                Hears(channel[n], known[x], t, i + 1)
                  => Hears(channel'[n], known'[x], t, i)
         /\ Told(x, t) => Told(x, t)'
<1> DEFINE q == channel[n]
           p == channel'[n]
<1>1. x \in Sockets /\ Node[x] \in Nodes
  BY VideoRoomAssumption DEF Open, TypeOK
<1>2. Node[x] # n => /\ channel'[Node[x]] = channel[Node[x]]
                     /\ known'[x] = known[x]
  BY <1>1, DeliverShape
<1>3. /\ Len(q) \in Nat \ {0} /\ Len(p) = Len(q) - 1
      /\ \A i \in 1 .. Len(p) : p[i] = q[i + 1]
      /\ q[1] \in Events
  BY DeliverShape
<1>4. ASSUME Node[x] = n, NEW i \in 1 .. Len(p) + 1,
             Hears(q, known[x], t, i + 1)
      PROVE  Hears(p, known'[x], t, i)
  <2>1. /\ q[1].ev # "receive_offer" => known'[x] = Learn(known[x], q[1])
        /\ q[1].ev = "receive_offer" => known'[x] = known[x]
    BY <1>1, <1>4, DeliverShape
  <2>2. q[1].from \in Sockets
    BY <1>3 DEF Events
  <2>3. Owner[q[1].from] = Owner[t] => q[1].from = t
    BY <2>2 DEF OneEach
  <2>4. i \in Nat \ {0} /\ \A j \in 1 .. i - 1 : j \in 1 .. Len(p)
    BY <1>3
  <2> HIDE DEF p, q
  <2>5. Owner[t] \in known[x] /\ ~ Leaves(q[1], t) => Owner[t] \in known'[x]
    <3>1. q[1].ev \in {"peer_joined", "receive_offer"} \cup Leaving
      BY <1>3 DEF Events, Leaving
    <3> QED
      BY <2>1, <2>3, <3>1 DEF Learn, Leaves, Leaving
  <2>6. Joins(q[1], t) => Owner[t] \in known'[x]
    BY <2>1 DEF Learn, Joins
  <2> QED
    BY <1>3, <1>4, <2>4, <2>5, <2>6, HearsNext
<1>5. Told(x, t) => Told(x, t)'
  <2>1. CASE Node[x] # n
    BY <1>2, <2>1 DEF Told
  <2>2. CASE Node[x] = n
    <3>1. Len(p) + 1 \in 1 .. Len(p) + 1 /\ (Len(p) + 1) + 1 = Len(q) + 1
      BY <1>3
    <3> HIDE DEF p, q
    <3>2. Hears(q, known[x], t, Len(q) + 1)
            => Hears(p, known'[x], t, Len(p) + 1)
      BY <1>4, <2>2, <3>1
    <3> QED
      BY <2>2, <3>2 DEF Told, p, q
  <2> QED
    BY <2>1, <2>2
<1> QED
  BY <1>2, <1>4, <1>5

-------------------------------------------------------------------------------
(***************************************************************************)
(* Of two sockets in the room one will know of the other, and an offer     *)
(* comes after the event that announces its sender.                        *)
(***************************************************************************)

\* The sockets but s that are in the room after a step of s were before.
LEMMA OthersOpen ==
  ASSUME TypeOK, NEW s \in Sockets, NEW e, NEW before,
         \/ Joining(s, e, before)
         \/ Parting(s, e, before)
         \/ Offering(s, e, before),
         NEW x \in Open'
  PROVE  /\ x \in Sockets /\ Tells(s, e, before)
         /\ x # s => /\ x \in Open
                     /\ before[x] = known[x] /\ older'[x] = older[x]
         /\ ~ (x = s /\ Parting(s, e, before))
         /\ x = s /\ x \in room =>
              /\ x \in Open
              /\ before[x] = known[x] /\ older'[x] = older[x]
<1>1. x \in Sockets /\ Tells(s, e, before)
  BY DEF Joining, Parting, Offering, Open, TypeOK
<1>2. x # s => x \in Open
  BY DEF Joining, Parting, Offering, Open
<1>3. ~ (x = s /\ Parting(s, e, before))
  BY DEF Parting, Open
<1>4. x = s /\ x \in room => /\ x \in Open
                             /\ before[x] = known[x] /\ older'[x] = older[x]
  BY <1>3 DEF Joining, Offering, Open
<1> QED
  BY <1>1, <1>2, <1>3, <1>4 DEF Tells

LEMMA ConnectingKeeps ==
  ASSUME TypeOK, NEW s \in Sockets, Connecting(s)
  PROVE  /\ Open' = Open /\ Open \subseteq Sockets
         /\ UNCHANGED <<room, channel>>
         /\ \A x \in Open : known'[x] = known[x] /\ older'[x] = older[x]
  BY DEF Connecting, Open, TypeOK

LEMMA MutualStep ==
  ASSUME OneEach, TypeOK, Placed, Mutual, [Next]_vars
  PROVE  Mutual'
<1>1. ASSUME NEW s \in Sockets, Acting(s), NEW x \in Open', NEW y \in Open',
             x # y
      PROVE  Told(x, y)' \/ Told(y, x)'
  <2>1. PICK e \in Events, before \in [Sockets -> SUBSET Users] :
          \/ Joining(s, e, before)
          \/ Parting(s, e, before)
          \/ Offering(s, e, before)
    BY <1>1 DEF Acting
  <2>2. /\ x \in Sockets /\ y \in Sockets /\ Tells(s, e, before)
        /\ x # s => x \in Open /\ before[x] = known[x]
        /\ y # s => y \in Open /\ before[y] = known[y]
    BY <2>1, OthersOpen
  <2>3. CASE x # s /\ y # s
    BY <1>1, <2>2, <2>3, StillTold DEF Mutual
  <2>4. CASE x = s \/ y = s
    <3>1. ~ Parting(s, e, before)
      BY <2>1, <2>4, OthersOpen
    <3>2. CASE Joining(s, e, before)
      BY <2>2, <2>4, <3>2, JoinIsTold
    <3>3. CASE Offering(s, e, before)
      <4>1. Open' = Open /\ before = known /\ e.ev = "receive_offer"
        BY <3>3 DEF Offering, Open
      <4> QED
        BY <1>1, <2>2, <4>1, StillTold DEF Mutual
    <3> QED
      BY <2>1, <3>1, <3>2, <3>3
  <2> QED
    BY <2>3, <2>4
<1>2. ASSUME NEW n \in Nodes, Deliver(n)
      PROVE  Mutual'
  <2>1. Open' = Open /\ Open \subseteq Sockets
    BY <1>2 DEF Deliver, Open, TypeOK
  <2> QED
    BY <1>2, <2>1, DeliveredHears DEF Mutual
<1>3. ASSUME NEW s \in Sockets, Connecting(s)
      PROVE  Mutual'
  BY <1>3, ConnectingKeeps DEF Mutual, Told
<1>4. CASE Resting
  BY <1>4 DEF Resting, Mutual, Told, Open
<1>5. ASSUME NEW s \in Sockets, Acting(s)
      PROVE  Mutual'
  BY <1>1, <1>5 DEF Mutual
<1> QED
  BY <1>2, <1>3, <1>4, <1>5, EveryStep

LEMMA FollowedActing ==
  ASSUME OneEach, TypeOK, Placed, Followed, NEW s \in Sockets, Acting(s)
  PROVE  Followed'
<1>1. PICK e \in Events, before \in [Sockets -> SUBSET Users] :
        \/ Joining(s, e, before)
        \/ Parting(s, e, before)
        \/ Offering(s, e, before)
  BY DEF Acting
<1>2. ASSUME NEW x \in Open', NEW t \in room', x # t
      PROVE  Owner[t] \in older'[x] \/ Told(x, t)'
  <2>1. /\ x \in Sockets /\ Tells(s, e, before)
        /\ x # s => /\ x \in Open
                    /\ before[x] = known[x] /\ older'[x] = older[x]
        /\ ~ (x = s /\ Parting(s, e, before))
        /\ x = s /\ x \in room =>
             /\ x \in Open
             /\ before[x] = known[x] /\ older'[x] = older[x]
    BY <1>1, OthersOpen
  <2>2. t \in Sockets /\ (t # s => t \in room)
    BY <1>1 DEF Joining, Parting, Offering, TypeOK
  <2>3. CASE x = s /\ x \notin room
    <3>1. Joining(s, e, before)
      BY <1>1, <2>1, <2>3 DEF Offering, Open
    <3>2. older'[s] = {Owner[r] : r \in room} /\ t \in room
      BY <1>2, <2>2, <2>3, <3>1 DEF Joining
    <3> QED
      BY <2>3, <3>2
  <2>4. CASE x # s \/ x \in room
    <3>1. x \in Open /\ before[x] = known[x] /\ older'[x] = older[x]
      BY <2>1, <2>4
    <3>2. CASE t # s
      BY <1>2, <2>1, <2>2, <3>1, <3>2, StillTold DEF Followed
    <3>3. CASE t = s
      <4>1. ~ Parting(s, e, before)
        BY <1>2, <3>3 DEF Parting
      <4>2. CASE Joining(s, e, before)
        BY <2>1, <3>3, <4>2, JoinIsTold
      <4>3. CASE Offering(s, e, before)
        <5>1. t \in room /\ e.ev = "receive_offer"
          BY <1>2, <4>3 DEF Offering
        <5> QED
          BY <1>2, <2>1, <2>2, <3>1, <5>1, StillTold DEF Followed
      <4> QED
        BY <1>1, <4>1, <4>2, <4>3
    <3> QED
      BY <3>2, <3>3
  <2> QED
    BY <2>3, <2>4
<1>3. ASSUME NEW x \in Open', NEW i \in 1 .. Len(channel'[Node[x]]),
             x \in channel'[Node[x]][i].for,
             Owner[channel'[Node[x]][i].from] \notin Lapsed
      PROVE  \/ Owner[channel'[Node[x]][i].from] \in older'[x]
             \/ Hears(channel'[Node[x]], known'[x],
                      channel'[Node[x]][i].from, i)
  <2> DEFINE q == channel[Node[x]]
             p == channel'[Node[x]]
  <2>1. /\ x \in Sockets /\ Tells(s, e, before)
        /\ x # s => /\ x \in Open
                    /\ before[x] = known[x] /\ older'[x] = older[x]
        /\ x = s /\ x \in room =>
             /\ x \in Open
             /\ before[x] = known[x] /\ older'[x] = older[x]
    BY <1>1, OthersOpen
  <2>2. Node[x] \in Nodes /\ Len(q) \in Nat /\ Published(e) /\ e.from = s
    BY <2>1, VideoRoomAssumption, SeqRange DEF Tells
  <2>3. \/ /\ i \in 1 .. Len(q) /\ p[i].from = q[i].from
           /\ p[i].for \subseteq q[i].for
        \/ Node[x] # Node[s] /\ i = Len(q) + 1 /\ p[i] = e
    BY <2>2, PublishedEvent
  <2>4. CASE /\ i \in 1 .. Len(q) /\ p[i].from = q[i].from
             /\ p[i].for \subseteq q[i].for
    <3>1. x \in q[i].for /\ x \in room
      BY <1>3, <2>2, <2>4 DEF Placed
    <3>2. x \in Open /\ before[x] = known[x] /\ older'[x] = older[x]
      BY <2>1, <3>1
    <3>3. q[i].from \in Sockets /\ Node[q[i].from] # Node[x]
      BY <2>2, <2>4, SeqRange
    <3>4. Owner[q[i].from] \in older[x] \/ Hears(q, known[x], q[i].from, i)
      BY <1>3, <2>4, <3>1, <3>2 DEF Followed
    <3>5. i \in 1 .. Len(q) + 1
      BY <2>2, <2>4
    <3>6. Hears(q, known[x], q[i].from, i)
            => Hears(p, known'[x], q[i].from, i)
      BY <2>1, <3>2, <3>3, <3>5, StillHears
    <3> QED
      BY <2>4, <3>2, <3>4, <3>6
  <2>5. CASE Node[x] # Node[s] /\ i = Len(q) + 1 /\ p[i] = e
    <3>1. Offering(s, e, before)
      BY <1>1, <1>3, <2>5 DEF Joining, Parting
    <3>2. /\ x \in room /\ s \in room /\ before = known
          /\ older'[x] = older[x] /\ x \in Open /\ e.ev = "receive_offer"
      BY <1>3, <2>2, <2>5, <3>1 DEF Offering, Open
    <3>3. Owner[s] \in older[x] \/ Hears(q, known[x], s, i)
      BY <2>5, <3>2 DEF Followed, Told
    <3>4. i \in 1 .. Len(q) + 1
      BY <2>2, <2>5
    <3>5. Hears(q, known[x], s, i) => Hears(p, known'[x], s, i)
      BY <2>1, <3>2, <3>4, StillHears
    <3> QED
      BY <2>2, <2>5, <3>2, <3>3, <3>5
  <2> QED
    BY <2>3, <2>4, <2>5
<1> QED
  BY <1>2, <1>3 DEF Followed

LEMMA FollowedDelivery ==
  ASSUME OneEach, TypeOK, Placed, Followed, NEW n \in Nodes, Deliver(n)
  PROVE  Followed'
<1>1. Open' = Open /\ Open \subseteq Sockets /\ UNCHANGED <<room, older>>
  BY DEF Deliver, Open, TypeOK
<1>2. ASSUME NEW x \in Open, NEW t \in room, x # t
      PROVE  Owner[t] \in older[x] \/ Told(x, t)'
  BY <1>2, DeliveredHears DEF Followed, TypeOK
<1>3. ASSUME NEW x \in Open, NEW i \in 1 .. Len(channel'[Node[x]]),
             x \in channel'[Node[x]][i].for,
             Owner[channel'[Node[x]][i].from] \notin Lapsed
      PROVE  \/ Owner[channel'[Node[x]][i].from] \in older[x]
             \/ Hears(channel'[Node[x]], known'[x],
                      channel'[Node[x]][i].from, i)
  <2> DEFINE q == channel[n]
             p == channel'[n]
  <2>1. x \in Sockets /\ Node[x] \in Nodes
    BY <1>1, VideoRoomAssumption
  <2>2. CASE Node[x] # n
    <3>1. channel'[Node[x]] = channel[Node[x]] /\ known'[x] = known[x]
      BY <2>1, <2>2, DeliverShape
    <3> QED
      BY <1>3, <3>1 DEF Followed
  <2>3. CASE Node[x] = n
    <3>1. i \in 1 .. Len(p) + 1 /\ i + 1 \in 1 .. Len(q) /\ p[i] = q[i + 1]
      BY <2>3, DeliverShape
    <3>2. q[i + 1].from \in Sockets
      BY <3>1, SeqRange
    <3>3. \/ Owner[q[i + 1].from] \in older[x]
          \/ Hears(q, known[x], q[i + 1].from, i + 1)
      BY <1>3, <2>3, <3>1 DEF Followed
    <3>4. Hears(q, known[x], q[i + 1].from, i + 1)
            => Hears(p, known'[x], q[i + 1].from, i)
      BY <2>3, <3>1, <3>2, DeliveredHears
    <3> QED
      BY <2>3, <3>1, <3>3, <3>4
  <2> QED
    BY <2>2, <2>3
<1> QED
  BY <1>1, <1>2, <1>3 DEF Followed

LEMMA FollowedStep ==
  ASSUME OneEach, TypeOK, Placed, Followed, [Next]_vars
  PROVE  Followed'
<1>1. ASSUME NEW s \in Sockets, Connecting(s)
      PROVE  Followed'
  BY <1>1, ConnectingKeeps DEF Followed, Told
<1>2. CASE Resting
  BY <1>2 DEF Resting, Followed, Told, Open
<1> QED
  BY <1>1, <1>2, FollowedActing, FollowedDelivery, EveryStep

LEMMA NoStranger ==
  ASSUME OneEach, TypeOK, Placed, Followed, NoStrangers, [Next]_vars
  PROVE  NoStrangers'
<1>1. ASSUME NEW s \in Sockets, Acting(s)
      PROVE  strangers' = {}
  <2>1. PICK e \in Events, before \in [Sockets -> SUBSET Users] :
          \/ Joining(s, e, before)
          \/ Parting(s, e, before)
          \/ Offering(s, e, before)
    BY <1>1 DEF Acting
  <2>2. CASE Joining(s, e, before) \/ Parting(s, e, before)
    BY <2>2 DEF Joining, Parting, NoStrangers
  <2>3. CASE Offering(s, e, before)
    <3>1. /\ e.from = s /\ e.for = room /\ e.ev = "receive_offer"
          /\ Owner[s] \notin Lapsed => s \in room
          /\ Hear(e, room, {x \in Sockets : Node[x] = Node[s]}, known)
      BY <2>3 DEF Offering, Tells, Emit
    <3>2. ASSUME NEW r \in Audience(e, room, {x \in Sockets :
                                                Node[x] = Node[s]}),
                 Owner[s] \notin Lapsed
          PROVE  Owner[s] \in known[r] \cup older[r]
      <4>1. /\ r \in Sockets /\ Node[r] = Node[s] /\ r \in Open
            /\ r # s /\ s \in room
        BY <3>1, <3>2 DEF Audience, Open
      <4>2. Node[r] \in Nodes /\ Len(channel[Node[r]]) \in Nat
        BY <4>1, VideoRoomAssumption, SeqRange
      <4>3. CASE Told(r, s)
        <5>1. \A j \in 1 .. Len(channel[Node[r]]) :
                ~ Joins(channel[Node[r]][j], s)
          BY <4>1, <4>2, SeqRange DEF Joins
        <5>2. (Len(channel[Node[r]]) + 1) - 1 = Len(channel[Node[r]])
          BY <4>2
        <5> QED
          BY <4>3, <5>1, <5>2 DEF Told, Hears
      <4> QED
        BY <4>1, <4>3 DEF Followed
    <3> QED
      BY <3>1, <3>2 DEF Hear, NoStrangers
  <2> QED
    BY <2>1, <2>2, <2>3
<1>2. ASSUME NEW n \in Nodes, Deliver(n)
      PROVE  strangers' = {}
  <2> DEFINE e == channel[n][1]
  <2>1. channel[n] # << >> /\ Len(channel[n]) \in Nat \ {0}
        /\ Head(channel[n]) = e
    BY <1>2, EmptySeq, DeliverShape DEF Deliver, TypeOK
  <2>2. Hear(e, room, {x \in Sockets : Node[x] = n}, known)
    BY <1>2, <2>1 DEF Deliver
  <2>3. ASSUME NEW r \in Audience(e, room, {x \in Sockets : Node[x] = n}),
               r \in e.for, Owner[e.from] \notin Lapsed
        PROVE  Owner[e.from] \in known[r] \cup older[r]
    <3>1. r \in Sockets /\ Node[r] = n /\ r \in conn
      BY <2>3 DEF Audience
    <3>2. 1 \in 1 .. Len(channel[n])
      BY <2>1
    <3>3. r \in Open
      BY <2>3, <3>1, <3>2 DEF Placed, Open
    <3>4. Owner[e.from] \in older[r] \/ Hears(channel[n], known[r], e.from, 1)
      BY <2>3, <3>1, <3>2, <3>3 DEF Followed
    <3> QED
      BY <3>4 DEF Hears
  <2> HIDE DEF e
  <2> QED
    BY <2>2, <2>3 DEF Hear, NoStrangers
<1>3. ASSUME NEW s \in Sockets, Connecting(s)
      PROVE  strangers' = {}
  BY <1>3 DEF Connecting, NoStrangers
<1>4. CASE Resting
  BY <1>4 DEF Resting, NoStrangers
<1> QED
  BY <1>1, <1>2, <1>3, <1>4, EveryStep DEF NoStrangers

LEMMA CallStarts == TypeOK /\ Mutual => OneKnowsTheOther
<1> SUFFICES ASSUME TypeOK, Mutual, Settled, NEW s \in Members,
                    NEW t \in Members, Owner[s] # Owner[t]
             PROVE  Owner[t] \in known[s] \/ Owner[s] \in known[t]
  BY DEF OneKnowsTheOther
<1>1. s \in Open /\ t \in Open /\ s # t
  BY DEF Members, Open
<1>2. \A x \in Open : Len(channel[Node[x]]) = 0
  BY VideoRoomAssumption DEF Settled, Open, TypeOK
<1>3. \A x \in Open, y \in Open : Told(x, y) => Owner[y] \in known[x]
  BY <1>2 DEF Told, Hears
<1> QED
  BY <1>1, <1>3 DEF Mutual

LEMMA StartsFollowed == Init => Mutual /\ Followed /\ NoStrangers
  BY DEF Init, Mutual, Followed, Open, NoStrangers

\* A call can start: of two users in the room, one at least was told of the
\* other, on whichever processes and in whatever order they join.  This is for
\* users with one socket each: the leaving of one tab is announced as the
\* user's.
THEOREM CallsStart == OneEach /\ Spec => []OneKnowsTheOther
<1>1. OneEach /\ Init => OneEach /\ TypeOK /\ Placed /\ Mutual
  BY StartsTyped, StartsFollowed
<1>2. (OneEach /\ TypeOK /\ Placed /\ Mutual) /\ [Next]_vars
        => (OneEach /\ TypeOK /\ Placed /\ Mutual)'
  <2>1. OneEach => OneEach'
    BY DEF OneEach
  <2> QED
    BY <2>1, TypeStep, PlacedStep, MutualStep
<1>3. OneEach /\ TypeOK /\ Placed /\ Mutual => OneKnowsTheOther
  BY CallStarts
<1> QED
  BY <1>1, <1>2, <1>3, PTL DEF Spec

\* An offer does not overtake the event that announces its sender, though the
\* members of the room are looked up when it arrives.  For users with one
\* socket each.
THEOREM OffersAnnounced == OneEach /\ Spec => []NoStrangers
<1>1. OneEach /\ Init => OneEach /\ TypeOK /\ Placed /\ Followed /\ NoStrangers
  BY StartsTyped, StartsFollowed
<1>2. (OneEach /\ TypeOK /\ Placed /\ Followed /\ NoStrangers) /\ [Next]_vars
        => (OneEach /\ TypeOK /\ Placed /\ Followed /\ NoStrangers)'
  <2>1. OneEach => OneEach'
    BY DEF OneEach
  <2> QED
    BY <2>1, TypeStep, PlacedStep, FollowedStep, NoStranger
<1> QED
  BY <1>1, <1>2, PTL DEF Spec

===============================================================================

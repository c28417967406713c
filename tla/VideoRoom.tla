------------------------------ MODULE VideoRoom -------------------------------
(***************************************************************************)
(* The video chat gateway (backend/src/modules/video-chat) and one of its  *)
(* rooms, on several server processes joined by the Redis adapter.         *)
(*                                                                         *)
(* A handler runs to its end at once: the guard before it awaits nothing,  *)
(* except for a user whose suspension has run out, when it waits for the   *)
(* database.  An event reaches the sockets of the handler's own process    *)
(* when it is emitted; the other processes receive it through Redis, in    *)
(* order, and look up the room's members when it arrives.                  *)
(***************************************************************************)
EXTENDS Naturals, Sequences

CONSTANTS
  Users,        \* accounts
  Sockets,      \* clients; each has one WebSocket connection at a time
  Owner,        \* the user a socket authenticated as
  Nodes,        \* server processes
  Node,         \* the process that a socket connects to
  Lapsed,       \* users whose suspension had run out when they connected
  MaxInFlight   \* bound on the events on their way to one process

ASSUME VideoRoomAssumption ==
  /\ Owner \in [Sockets -> Users]
  /\ Node \in [Sockets -> Nodes]
  /\ Lapsed \subseteq Users
  /\ MaxInFlight \in Nat

VARIABLES
  conn,      \* the sockets that are open
  room,      \* the sockets that are in the room
  channel,   \* per process, the events on their way to it
  waiting,   \* requests of lapsed users that the guard holds
  known,     \* per socket, the users its client was told are in the room
  older,     \* (history) per socket, the users in the room when it joined
  strangers  \* (history) the offers sent to a socket in the room, by a user
             \* its client could not know of and who is not lapsed: pairs
             \* of the two

vars == <<conn, room, channel, waiting, known, older, strangers>>

\* An event, its sender, and (a history field) whom an offer is meant for: the
\* sockets that have been in the room since it was sent.
Events == [ev : {"peer_joined", "peer_left", "peer_disconnected",
                 "receive_offer"},
           from : Sockets, for : SUBSET Sockets]

Event(ev, s) == [ev |-> ev, from |-> s,
                 for |-> IF ev = "receive_offer" THEN room ELSE {}]

Init ==
  /\ conn      = {}
  /\ room      = {}
  /\ channel   = [n \in Nodes |-> << >>]
  /\ waiting   = {}
  /\ known     = [s \in Sockets |-> {}]
  /\ older     = [s \in Sockets |-> {}]
  /\ strangers = {}

-------------------------------------------------------------------------------
(***************************************************************************)
(* Emitting and hearing.                                                   *)
(***************************************************************************)

\* Who hears an event among the sockets At, while the room's members are R:
\* server.to(room) addresses the room, client.to(room) the room without the
\* sender, client.broadcast the namespace without the sender.
Audience(e, R, At) ==
  {s \in At :
     /\ s \in conn
     /\ e.ev # "peer_disconnected" => s \in R
     /\ e.ev \in {"peer_disconnected", "receive_offer"} => s # e.from}

\* What a client makes of an event, which names a user.
Learn(K, e) ==
  CASE e.ev = "peer_joined"   -> K \cup {Owner[e.from]}
    [] e.ev = "receive_offer" -> K
    [] OTHER                  -> K \ {Owner[e.from]}

\* The sockets At hear e; before holds what their clients knew.
Hear(e, R, At, before) ==
  LET A == Audience(e, R, At) IN
  /\ known' = [s \in Sockets |-> IF s \in A THEN Learn(before[s], e)
                                           ELSE before[s]]
  /\ strangers' = strangers \cup
       {<<s, Owner[e.from]>> : s \in
          {r \in A : /\ r \in e.for
                     /\ Owner[e.from] \notin Lapsed
                     /\ Owner[e.from] \notin before[r] \cup older[r]}}

\* The events in flight; one who leaves is no longer meant.
InFlight(e) ==
  [m \in Nodes |-> [i \in DOMAIN channel[m] |->
     IF e.ev \in {"peer_left", "peer_disconnected"}
       THEN [channel[m][i] EXCEPT !.for = @ \ {e.from}]
       ELSE channel[m][i]]]

\* (mutant of Emit) The sender's own process receives the event back as well.
EmitToAll(e, R, before) ==
  /\ \A m \in Nodes : Len(channel[m]) < MaxInFlight
  /\ channel' = [m \in Nodes |-> Append(InFlight(e)[m], e)]
  /\ Hear(e, R, {s \in Sockets : Node[s] = Node[e.from]}, before)

\* The process of the sender delivers e to its own sockets and publishes it.
Emit(e, R, before) ==
  LET n == Node[e.from] IN
  /\ \A m \in Nodes \ {n} : Len(channel[m]) < MaxInFlight
  /\ channel' = [m \in Nodes |-> IF m = n THEN InFlight(e)[m]
                                         ELSE Append(InFlight(e)[m], e)]
  /\ Hear(e, R, {s \in Sockets : Node[s] = n}, before)

\* A process receives an event that another one published.
Deliver(n) ==
  /\ channel[n] # << >>
  /\ channel' = [channel EXCEPT ![n] = Tail(@)]
  /\ Hear(Head(channel[n]), room, {s \in Sockets : Node[s] = n}, known)
  /\ UNCHANGED <<conn, room, waiting, older>>

-------------------------------------------------------------------------------
(***************************************************************************)
(* The handlers.                                                           *)
(***************************************************************************)

\* (mutant of HandleJoinRoom) Only the sockets of this process are told.
TellLocally(s) ==
  /\ room'  = room \cup {s}
  /\ older' = [older EXCEPT ![s] = {Owner[r] : r \in room \ {s}}]
  /\ Hear(Event("peer_joined", s), room', {t \in Sockets : Node[t] = Node[s]},
          [known EXCEPT ![s] = {}])
  /\ UNCHANGED channel

\* join, then peer_joined to the room.  A client that was not in the room
\* starts from nothing.
HandleJoinRoom(s) ==
  /\ room' = room \cup {s}
  /\ IF s \in room
       THEN UNCHANGED older /\ Emit(Event("peer_joined", s), room, known)
       ELSE /\ older' = [older EXCEPT ![s] = {Owner[r] : r \in room}]
            /\ Emit(Event("peer_joined", s), room',
                    [known EXCEPT ![s] = {}])

\* leave, then peer_left to the room, whether the socket was in it or not.
HandleLeaveRoom(s) ==
  /\ room'  = room \ {s}
  /\ older' = [older EXCEPT ![s] = {}]
  /\ Emit(Event("peer_left", s), room', [known EXCEPT ![s] = {}])

\* Offers, answers, candidates and messages are relayed to the other sockets
\* of the room, all in the same way.
HandleSendOffer(s) ==
  /\ Emit(Event("receive_offer", s), room, known)
  /\ UNCHANGED <<room, older>>

Handle(s, request) ==
  \/ request = "join_room"  /\ HandleJoinRoom(s)
  \/ request = "leave_room" /\ HandleLeaveRoom(s)
  \/ request = "send_offer" /\ HandleSendOffer(s)

\* A client's message passes the guard, and is handled, at once; a lapsed
\* user's waits.  Clients relay while they are in the room, and send nothing
\* while a request of theirs waits.
Receive(s, request) ==
  /\ s \in conn
  /\ request = "send_offer" => s \in room
  /\ ~ \E p \in waiting : p[1] = s
  /\ IF Owner[s] \in Lapsed
       THEN /\ waiting' = waiting \cup {<<s, request>>}
            /\ UNCHANGED <<room, channel, known, older, strangers>>
       ELSE Handle(s, request) /\ UNCHANGED waiting
  /\ UNCHANGED conn

\* unsuspendUser has returned; the socket may be closed by now.
PassGuard(s, request) ==
  /\ <<s, request>> \in waiting
  /\ waiting' = waiting \ {<<s, request>>}
  /\ Handle(s, request)
  /\ UNCHANGED conn

-------------------------------------------------------------------------------
\* The client connects, or connects again; its new socket is in no room.
Connect(s) ==
  /\ s \notin conn \cup room
  /\ ~ \E p \in waiting : p[1] = s
  /\ conn'  = conn \cup {s}
  /\ known' = [known EXCEPT ![s] = {}]
  /\ older' = [older EXCEPT ![s] = {}]
  /\ UNCHANGED <<room, channel, waiting, strangers>>

\* (mutant of HandleDisconnect) Nobody is told.
CloseSilently(s) ==
  /\ s \in conn
  /\ conn' = conn \ {s}
  /\ room' = room \ {s}
  /\ UNCHANGED <<channel, waiting, known, older, strangers>>

\* Socket.IO has taken the socket out of its rooms when handleDisconnect runs.
HandleDisconnect(s) ==
  /\ s \in conn
  /\ conn' = conn \ {s}
  /\ room' = room \ {s}
  /\ Emit(Event("peer_disconnected", s), room', known)
  /\ UNCHANGED <<waiting, older>>

Requests == {"join_room", "leave_room", "send_offer"}

Next ==
  \/ \E n \in Nodes : Deliver(n)
  \/ \E s \in Sockets : \/ Connect(s)
                        \/ HandleDisconnect(s)
                        \/ \E r \in Requests : Receive(s, r) \/ PassGuard(s, r)

Spec == Init /\ [][Next]_vars

-------------------------------------------------------------------------------
\* Every variable has its type, and the events of a process's own sockets
\* never reach it a second time through Redis.
TypeOK ==
  /\ conn \subseteq Sockets
  /\ room \subseteq Sockets
  /\ channel \in [Nodes -> Seq(Events)]
  /\ waiting \subseteq Sockets \X Requests
  /\ known \in [Sockets -> SUBSET Users]
  /\ older \in [Sockets -> SUBSET Users]
  /\ strangers \subseteq Sockets \X Users
  /\ \A n \in Nodes :
       \A i \in 1 .. Len(channel[n]) : Node[channel[n][i].from] # n

\* The sockets of clients in the room whose users the guard does not delay.
Members == {s \in room \cap conn : Owner[s] \notin Lapsed}
Settled == waiting = {} /\ \A n \in Nodes : channel[n] = << >>

\* A call can start: of two users in a room, at least one was told of the
\* other and can send the offer, even when they joined on two processes at the
\* same time and neither heard of the other before.
OneKnowsTheOther ==
  Settled => \A s, t \in Members :
    Owner[s] # Owner[t] => Owner[t] \in known[s] \/ Owner[s] \in known[t]

\* Nobody is left in a call with a user who is gone: once all events have
\* arrived, whoever a client believes to be in the room is.
NoGhosts ==
  Settled => \A s \in Members :
    known[s] \subseteq Lapsed \cup {Owner[t] : t \in Members}

\* An offer does not overtake the event that announces its sender: a client
\* that was in the room when it was sent has been told of the sender, or joined
\* after it.  (A client that joined later may get an offer of a user who is
\* gone.)
NoStrangers == strangers = {}
===============================================================================

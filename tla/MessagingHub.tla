---- MODULE MessagingHub ----
\* The WebSocket fan-out of the messaging-service (services/
\* messaging-service/internal/websocket): the Hub and its connections.
\* The presence keys its pumps write in Redis are left out.
\*
\* The Hub's goroutine Run takes registrations, unregistrations and
\* conversation broadcasts from buffered channels and writes to the send
\* channel of each connection.  Every connection has a read pump and a
\* write pump, and every arrival or last departure of a user starts a
\* goroutine that announces it by calling the Hub's delivery code itself.
\* Run and those goroutines are the DELIVERERS below; a goroutine parked
\* on a full channel is one whose next action is not enabled.
\*
\* A step ends where another goroutine could observe or disturb it.  The
\* contents of a send channel are abstracted to their number; heard[c]
\* remembers the order in which broadcasts were put into it.
EXTENDS Integers, Sequences, FiniteSets

CONSTANTS
    Users,
    Conns,              \* connections, each opened once (bounds the reconnects)
    Owner,              \* Owner[c]: the authenticated user of connection c
    Convs,              \* conversations
    OpeningMembers,     \* OpeningMembers[k]: participants stored for k at first
    Changes,            \* <<u, k>> whose participation may change (bounds it)
    PageSize,           \* conversations read for a connection: a page of 50
    Pingers, Typists,   \* clients that send ping frames, and frames to relay
    Lossy,              \* clients whose network connection may break
    MayRestart,         \* whether the process is restarted
    Posts,              \* bound on the number of events broadcast
    SendBufferSize,     \* capacity of Client.send
    RegisterCap, UnregisterCap, BroadcastCap,   \* capacities of Hub's channels
    Hub, Nobody         \* the goroutine Run, and "no user", "no client"

ASSUME ConnAssumption ==
    /\ Owner \in [Conns -> Users] /\ Hub \notin Conns
    /\ Pingers \cup Typists \cup Lossy \subseteq Conns
ASSUME NobodyAssumption == Nobody \notin Users /\ Nobody \notin Conns
ASSUME MemberAssumption ==
    OpeningMembers \in [Convs -> SUBSET Users] /\ Changes \subseteq Users \X Convs
ASSUME CapAssumption ==
    /\ {RegisterCap, UnregisterCap, BroadcastCap, SendBufferSize} \subseteq Nat \ {0}
    /\ Posts \in Nat /\ MayRestart \in BOOLEAN /\ PageSize \in Nat \ {0}

VARIABLES
    process,        \* "up", "stopped" (closeAll ran) or why it panicked
    members,        \* conversation participants in the database
    clients,        \* Hub.clients; a user without entry has the empty set
    subscribers,    \* Hub.conversationClients
    registerQ, unregisterQ, broadcastQ,     \* Hub's channels
    convIDs,        \* Client.conversationIDs, read when the client connected
    buffered,       \* number of events in Client.send
    closed,         \* connections whose Client.send has been closed
    wire,           \* open network connections
    reader,         \* what the read pump of a connection does
    job,            \* what a deliverer is doing
    posted,         \* number of events broadcast so far
    heard,          \* broadcasts put into Client.send, in order
    dropped         \* connections an event was dropped for

hubVars == <<clients, subscribers>>
queueVars == <<registerQ, unregisterQ, broadcastQ>>
sendVars == <<buffered, closed, heard, dropped>>
pumpVars == <<convIDs, wire, reader>>
vars == <<process, members, hubVars, queueVars, sendVars, pumpVars, job, posted>>

Panics == {"doubleClose", "sendOnClosed", "mapRace"}
ReaderSteps == {"new", "reading", "gone"}
JobSteps == {"idle", "gather", "convs", "users", "range", "send", "drop"}

Run == <<Hub, "run">>
Announcer(c, change) == <<c, change>>
Announcers == Conns \X {"online", "offline"}
Deliverers == {Run} \cup Announcers

--------
Events == [id : 1..Posts, conv : Convs, exclude : Users \cup {Nobody}]

Jobs == [step : JobSteps, event : Events \cup {Nobody}, convs : SUBSET Convs,
         users : SUBSET Users, user : Users \cup {Nobody}, left : SUBSET Conns,
         client : Conns \cup {Nobody}]
IdleJob == [step |-> "idle", event |-> Nobody, convs |-> {}, users |-> {},
            user |-> Nobody, left |-> {}, client |-> Nobody]

Up == process = "up"
Running == process \in {"up", "stopped"}
Set(d, new) == job' = [job EXCEPT ![d] = new]
HubIsIdle == Up /\ job[Run].step = "idle"

\* Goroutines inside `for client := range conns` of user u.
Ranging(u) == {d \in Announcers : job[d].step \in {"range", "send", "drop"}
                                    /\ job[d].user = u}

Init ==
    /\ process = "up"
    /\ members = OpeningMembers
    /\ clients = [u \in Users |-> {}]
    /\ subscribers = [k \in Convs |-> {}]
    /\ registerQ = <<>> /\ unregisterQ = <<>> /\ broadcastQ = <<>>
    /\ convIDs = [c \in Conns |-> {}]
    /\ buffered = [c \in Conns |-> 0]
    /\ closed = {}
    /\ wire = {}
    /\ reader = [c \in Conns |-> "new"]
    /\ job = [d \in Deliverers |-> IdleJob]
    /\ posted = 0
    /\ heard = [c \in Conns |-> <<>>]
    /\ dropped = {}

--------
\* The connection's handler and pumps.

\* resolveConversationIDs: the first page of the user's conversations, by when something was
\* last said in them, which is not modelled: any of that size.
FirstPages(u) ==
    LET mine == {k \in Convs : u \in members[k]}
    IN {page \in SUBSET mine :
           Cardinality(page) = IF Cardinality(mine) < PageSize THEN Cardinality(mine) ELSE PageSize}

\* ServeWS and NewClient: the conversations are resolved once and for all, and
\* the pumps start once the client is in the register channel, which is not yet
\* to say in the hub.
Connect(c) ==
    /\ Up /\ reader[c] = "new"
    /\ Len(registerQ) < RegisterCap
    /\ registerQ' = Append(registerQ, c)
    /\ \E page \in FirstPages(Owner[c]) : convIDs' = [convIDs EXCEPT ![c] = page]
    /\ wire' = wire \cup {c}
    /\ reader' = [reader EXCEPT ![c] = "reading"]
    /\ UNCHANGED <<process, members, hubVars, unregisterQ, broadcastQ, sendVars, job, posted>>

\* The peer goes away, misses a pong, or a write to it fails or times out, which
\* also ends the write pump.
LoseConnection(c) ==
    /\ Running /\ c \in Lossy \cap wire
    /\ wire' = wire \ {c}
    /\ UNCHANGED <<process, members, hubVars, queueVars, sendVars, convIDs, reader, job, posted>>

\* readPump's read fails and its deferred function unregisters the client.
Unregister(c) ==
    /\ Running /\ reader[c] = "reading" /\ c \notin wire
    /\ Len(unregisterQ) < UnregisterCap
    /\ unregisterQ' = Append(unregisterQ, c)
    /\ reader' = [reader EXCEPT ![c] = "gone"]
    /\ UNCHANGED <<process, members, hubVars, registerQ, broadcastQ, sendVars,
                   convIDs, wire, job, posted>>

\* A ping frame of the client is answered with a pong unless the buffer is full.
Pong(c) ==
    /\ Running /\ c \in Pingers /\ reader[c] = "reading" /\ c \in wire
    /\ \/ c \in closed /\ process' = "sendOnClosed" /\ UNCHANGED buffered
       \/ /\ c \notin closed /\ buffered[c] < SendBufferSize
          /\ buffered' = [buffered EXCEPT ![c] = @ + 1]
          /\ UNCHANGED process
    /\ UNCHANGED <<members, hubVars, queueVars, closed, heard, dropped, pumpVars, job, posted>>

\* writePump; the events it takes in one go leave one by one.
Write(c) ==
    /\ Running /\ c \in wire /\ buffered[c] > 0
    /\ buffered' = [buffered EXCEPT ![c] = @ - 1]
    /\ UNCHANGED <<process, members, hubVars, queueVars, closed, heard, dropped,
                   pumpVars, job, posted>>

\* writePump finds its channel closed, says goodbye and closes the connection.
WriteClose(c) ==
    /\ Running /\ c \in wire /\ c \in closed /\ buffered[c] = 0
    /\ wire' = wire \ {c}
    /\ UNCHANGED <<process, members, hubVars, queueVars, sendVars, convIDs, reader, job, posted>>

--------
\* Producers of broadcasts, and the participants they concern.

Broadcast(k, exclude) ==
    /\ posted < Posts
    /\ Len(broadcastQ) < BroadcastCap
    /\ broadcastQ' = Append(broadcastQ, [id |-> posted + 1, conv |-> k, exclude |-> exclude])
    /\ posted' = posted + 1
    /\ UNCHANGED <<process, members, hubVars, registerQ, unregisterQ, sendVars, pumpVars, job>>

\* SendMessage and MarkRead exclude the caller, DeleteMessage nobody.
PostMessage(u, k) ==
    /\ Up /\ u \in members[k]
    /\ Broadcast(k, u) \/ Broadcast(k, Nobody)

\* A typing or mark_read frame, relayed by the read pump.
RelayFrame(c, k) ==
    /\ Running /\ c \in Typists /\ reader[c] = "reading" /\ c \in wire
    /\ Broadcast(k, Owner[c])

\* CreateConversation, CreateGroup, AddGroupMembers / RemoveGroupMember.
ChangeMembership(u, k) ==
    /\ Up /\ <<u, k>> \in Changes
    /\ \/ u \notin members[k] /\ members' = [members EXCEPT ![k] = @ \cup {u}]
       \/ u \in members[k] /\ members' = [members EXCEPT ![k] = @ \ {u}]
    /\ UNCHANGED <<process, hubVars, queueVars, sendVars, pumpVars, job, posted>>

--------
\* The Hub's goroutine.

Spawned(change, c) == [job EXCEPT ![Announcer(c, change)] = [IdleJob EXCEPT !.step = "gather"]]

\* handleRegister.  A goroutine that is ranging over the same map may or may not
\* come across the new entry.
HandleRegister ==
    /\ HubIsIdle /\ registerQ # <<>>
    /\ LET c == Head(registerQ)
           u == Owner[c]
       IN  /\ clients' = [clients EXCEPT ![u] = @ \cup {c}]
           /\ subscribers' = [k \in Convs |-> IF k \in convIDs[c]
                                              THEN subscribers[k] \cup {u}
                                              ELSE subscribers[k]]
           /\ \E seen \in SUBSET (IF clients[u] = {} THEN {} ELSE Ranging(u)) :
                 job' = [d \in Deliverers |->
                           IF d \in seen THEN [job[d] EXCEPT !.left = @ \cup {c}]
                                         ELSE Spawned("online", c)[d]]
    /\ registerQ' = Tail(registerQ)
    /\ UNCHANGED <<process, members, unregisterQ, broadcastQ, sendVars, pumpVars, posted>>

\* Mutant: the subscriptions go with the first connection that goes.
SubscribersWithoutUser(c) == [k \in Convs |-> subscribers[k] \ {Owner[c]}]

\* A user unsubscribes from everything with the last connection.
SubscribersWithout(c) ==
    IF clients[Owner[c]] = {c} THEN [k \in Convs |-> subscribers[k] \ {Owner[c]}]
                               ELSE subscribers

\* handleUnregister: whether c is one of the user's connections is not looked at.
HandleUnregister ==
    /\ HubIsIdle /\ unregisterQ # <<>>
    /\ unregisterQ' = Tail(unregisterQ)
    /\ LET c == Head(unregisterQ)
           u == Owner[c]
       IN  \/ clients[u] = {} /\ UNCHANGED <<process, hubVars, closed, job>>
           \/ /\ clients[u] # {} /\ c \in closed
              /\ process' = "doubleClose"
              /\ UNCHANGED <<hubVars, closed, job>>
           \/ /\ clients[u] # {} /\ c \notin closed
              /\ closed' = closed \cup {c}
              /\ clients' = [clients EXCEPT ![u] = @ \ {c}]
              /\ subscribers' = SubscribersWithout(c)
              /\ job' = IF clients[u] = {c} THEN Spawned("offline", c) ELSE job
              /\ UNCHANGED process
    /\ UNCHANGED <<members, registerQ, broadcastQ, buffered, heard, dropped, pumpVars, posted>>

\* Mutant: broadcasts are dispatched in any order, as by a goroutine each.
DispatchAny ==
    /\ HubIsIdle
    /\ \E i \in 1..Len(broadcastQ) :
          /\ Set(Run, [IdleJob EXCEPT !.step = "users", !.event = broadcastQ[i],
                        !.users = subscribers[broadcastQ[i].conv] \ {broadcastQ[i].exclude}])
          /\ broadcastQ' = SubSeq(broadcastQ, 1, i - 1) \o SubSeq(broadcastQ, i + 1, Len(broadcastQ))
    /\ UNCHANGED <<process, members, hubVars, registerQ, unregisterQ, sendVars,
                   pumpVars, posted>>

\* deliverToConversation: the targets are copied under the read lock.
Dispatch ==
    /\ HubIsIdle /\ broadcastQ # <<>>
    /\ LET e == Head(broadcastQ)
       IN  Set(Run, [IdleJob EXCEPT !.step = "users", !.event = e,
                                    !.users = subscribers[e.conv] \ {e.exclude}])
    /\ broadcastQ' = Tail(broadcastQ)
    /\ UNCHANGED <<process, members, hubVars, registerQ, unregisterQ, sendVars,
                   pumpVars, posted>>

\* Run writes to a user's map in the instant a goroutine's range reads it: the
\* runtime kills the process when it notices.
MapRace ==
    /\ HubIsIdle
    /\ \E c \in Conns : /\ c \in {Head(q) : q \in {registerQ, unregisterQ} \ {<<>>}}
                        /\ clients[Owner[c]] # {}
                        /\ \E d \in Ranging(Owner[c]) : job[d].step = "range"
    /\ process' = "mapRace"
    /\ UNCHANGED <<members, hubVars, queueVars, sendVars, pumpVars, job, posted>>

\* closeAll, once main has closed `done`.
CloseAll ==
    /\ HubIsIdle
    /\ LET open == UNION {clients[u] : u \in Users}
       IN  /\ process' = IF open \cap closed = {} THEN "stopped" ELSE "doubleClose"
           /\ closed' = closed \cup open
    /\ clients' = [u \in Users |-> {}]
    /\ subscribers' = [k \in Convs |-> {}]
    /\ UNCHANGED <<members, queueVars, buffered, heard, dropped, pumpVars, job, posted>>

--------
\* Delivery, by Run or by an announcing goroutine d.

\* Where d goes on when nothing is left of what it was doing.
Onward(d, j) == IF d # Run /\ j.users = {} /\ j.convs = {} THEN IdleJob
                ELSE IF d # Run /\ j.users = {} THEN [j EXCEPT !.step = "convs"]
                ELSE [j EXCEPT !.step = "users"]

LeaveRange(d) == Onward(d, [job[d] EXCEPT !.user = Nobody, !.left = {}, !.client = Nobody])

\* broadcastPresenceChange collects the user's conversations.
Gather(d) ==
    /\ Running /\ job[d].step = "gather"
    /\ Set(d, Onward(d, [job[d] EXCEPT !.convs = {k \in Convs : Owner[d[1]] \in subscribers[k]}]))
    /\ UNCHANGED <<process, members, hubVars, queueVars, sendVars, pumpVars, posted>>

NextConversation(d) ==
    /\ Running /\ job[d].step = "convs"
    /\ \E k \in job[d].convs :
          Set(d, Onward(d, [job[d] EXCEPT !.convs = @ \ {k},
                                          !.users = subscribers[k] \ {Owner[d[1]]}]))
    /\ UNCHANGED <<process, members, hubVars, queueVars, sendVars, pumpVars, posted>>

\* Mutant: only one of the user's connections is delivered to.
OneTab(u) == {CHOOSE c \in clients[u] : TRUE}
Tabs(u) == clients[u]

\* deliverToUser looks the user's connections up.
NextUser(d) ==
    /\ Running /\ job[d].step = "users"
    /\ \E u \in job[d].users :
          LET j == [job[d] EXCEPT !.users = @ \ {u}]
          IN  Set(d, IF clients[u] = {} THEN Onward(d, j)
                     ELSE [j EXCEPT !.step = "range", !.user = u, !.left = Tabs(u)])
    /\ UNCHANGED <<process, members, hubVars, queueVars, sendVars, pumpVars, posted>>

\* The range produces the next entry; one deleted before it is reached is not.
NextClient(d) ==
    /\ Running /\ job[d].step = "range"
    /\ LET present == job[d].left \cap clients[job[d].user]
       IN  \/ \E c \in present :
                 Set(d, [job[d] EXCEPT !.step = "send", !.left = @ \ {c}, !.client = c])
           \/ present = {} /\ Set(d, LeaveRange(d))
    /\ UNCHANGED <<process, members, hubVars, queueVars, sendVars, pumpVars, posted>>

BackToRange(d) == IF job[d].left \cap clients[job[d].user] = {} THEN LeaveRange(d)
                  ELSE [job[d] EXCEPT !.step = "range", !.client = Nobody]

\* Mutant: the send waits for room.
SendOrWait(d) ==
    /\ Running /\ job[d].step = "send"
    /\ LET c == job[d].client
       IN  \/ c \in closed /\ process' = "sendOnClosed" /\ UNCHANGED <<sendVars, job>>
           \/ /\ c \notin closed /\ buffered[c] < SendBufferSize
              /\ buffered' = [buffered EXCEPT ![c] = @ + 1]
              /\ heard' = IF d = Run THEN [heard EXCEPT ![c] = Append(@, job[d].event.id)]
                                     ELSE heard
              /\ Set(d, BackToRange(d))
              /\ UNCHANGED <<process, closed, dropped>>
    /\ UNCHANGED <<members, hubVars, queueVars, pumpVars, posted>>

\* A full buffer makes the select take its default branch.
Send(d) ==
    /\ Running /\ job[d].step = "send"
    /\ LET c == job[d].client
       IN  \/ c \in closed /\ process' = "sendOnClosed" /\ UNCHANGED <<sendVars, job>>
           \/ /\ c \notin closed /\ buffered[c] < SendBufferSize
              /\ buffered' = [buffered EXCEPT ![c] = @ + 1]
              /\ heard' = IF d = Run THEN [heard EXCEPT ![c] = Append(@, job[d].event.id)]
                                     ELSE heard
              /\ Set(d, BackToRange(d))
              /\ UNCHANGED <<process, closed, dropped>>
           \/ /\ c \notin closed /\ buffered[c] = SendBufferSize
              /\ dropped' = dropped \cup {c}
              /\ Set(d, [job[d] EXCEPT !.step = "drop"])
              /\ UNCHANGED <<process, buffered, closed, heard>>
    /\ UNCHANGED <<members, hubVars, queueVars, pumpVars, posted>>

\* Mutants: the slow client is not unregistered, or without a look at the capacity.
DropSilently(d) ==
    /\ Running /\ job[d].step = "drop"
    /\ Set(d, BackToRange(d))
    /\ UNCHANGED <<process, members, hubVars, queueVars, sendVars, pumpVars, posted>>
DropUnbounded(d) ==
    /\ Running /\ job[d].step = "drop"
    /\ unregisterQ' = Append(unregisterQ, job[d].client)
    /\ Set(d, BackToRange(d))
    /\ UNCHANGED <<process, members, hubVars, registerQ, broadcastQ, sendVars,
                   pumpVars, posted>>

\* h.unregister <- client: when the channel is full Run waits for itself.
Drop(d) ==
    /\ Running /\ job[d].step = "drop"
    /\ Len(unregisterQ) < UnregisterCap
    /\ unregisterQ' = Append(unregisterQ, job[d].client)
    /\ Set(d, BackToRange(d))
    /\ UNCHANGED <<process, members, hubVars, registerQ, broadcastQ, sendVars,
                   pumpVars, posted>>

\* Run is done with a broadcast and selects again.
Select ==
    /\ Running /\ job[Run].step = "users" /\ job[Run].users = {}
    /\ Set(Run, IdleJob)
    /\ UNCHANGED <<process, members, hubVars, queueVars, sendVars, pumpVars, posted>>

Deliver(d) == \/ Gather(d) \/ NextConversation(d) \/ NextUser(d)
              \/ NextClient(d) \/ Send(d) \/ Drop(d)

--------
\* The process dies, of a panic or not, and a new one starts: what is in Redis
\* and the database stays.
Restart ==
    /\ MayRestart
    /\ process' = "up"
    /\ clients' = [u \in Users |-> {}]
    /\ subscribers' = [k \in Convs |-> {}]
    /\ registerQ' = <<>> /\ unregisterQ' = <<>> /\ broadcastQ' = <<>>
    /\ buffered' = [c \in Conns |-> 0]
    /\ closed' = {}
    /\ wire' = {}
    /\ reader' = [c \in Conns |-> IF reader[c] = "new" THEN "new" ELSE "gone"]
    /\ job' = [d \in Deliverers |-> IdleJob]
    /\ UNCHANGED <<members, convIDs, heard, dropped, posted>>

RunStep == HandleRegister \/ HandleUnregister \/ Dispatch \/ Select

Next ==
    \/ \E c \in Conns : \/ Connect(c) \/ LoseConnection(c) \/ Unregister(c) \/ Pong(c)
                        \/ Write(c) \/ WriteClose(c)
                        \/ \E k \in Convs : RelayFrame(c, k)
    \/ \E u \in Users, k \in Convs : PostMessage(u, k) \/ ChangeMembership(u, k)
    \/ RunStep
    \/ \E d \in Deliverers : Deliver(d)
    \/ MapRace
    \/ CloseAll
    \/ Restart

Spec == Init /\ [][Next]_vars

\* Goroutines that are not blocked run on.  Write is left out: how fast the peer
\* takes what is sent to it is not the program's to say.
FairSpec == /\ Spec
            /\ WF_vars(RunStep)
            /\ \A c \in Conns : WF_vars(Unregister(c)) /\ WF_vars(WriteClose(c))
            /\ \A d \in Deliverers : WF_vars(Deliver(d))

--------
\* Properties.

\* Every variable, and every goroutine's local state, has its type.
TypeOK ==
    /\ process \in {"up", "stopped"} \cup Panics
    /\ members \in [Convs -> SUBSET Users]
    /\ clients \in [Users -> SUBSET Conns]
    /\ subscribers \in [Convs -> SUBSET Users]
    /\ registerQ \in Seq(Conns) /\ Len(registerQ) <= RegisterCap
    /\ unregisterQ \in Seq(Conns) /\ Len(unregisterQ) <= UnregisterCap
    /\ broadcastQ \in Seq(Events) /\ Len(broadcastQ) <= BroadcastCap
    /\ convIDs \in [Conns -> SUBSET Convs]
    /\ buffered \in [Conns -> 0..SendBufferSize]
    /\ closed \subseteq Conns /\ wire \subseteq Conns /\ dropped \subseteq Conns
    /\ reader \in [Conns -> ReaderSteps]
    /\ job \in [Deliverers -> Jobs]
    /\ posted \in 0..Posts
    /\ heard \in [Conns -> Seq(1..Posts)]

\* The two routing tables agree: whoever is subscribed has a connection to
\* deliver to (handleUnregister, closeAll).
SubscribersAreConnected ==
    \A k \in Convs : \A u \in subscribers[k] : clients[u] # {}

\* ... and every registered connection is reached by the conversations it was
\* opened with, whichever of the user's other connections came or went.
ConnectionsAreRouted ==
    \A u \in Users : \A c \in clients[u] :
        Owner[c] = u /\ \A k \in convIDs[c] : u \in subscribers[k]

\* ... and nobody else is: whoever is subscribed to a conversation found it on the page of one
\* of their connections.
SubscribersFoundIt ==
    \A k \in Convs : \A u \in subscribers[k] : \E c \in Conns : Owner[c] = u /\ k \in convIDs[c]

\* The tables route a broadcast to those, and only those, who have a connection and found its
\* conversation on the page of one.  A participant whose page did not reach it is not routed,
\* and one who has left since is.
RoutesAgree == SubscribersAreConnected /\ ConnectionsAreRouted /\ SubscribersFoundIt

\* No connection is sent two broadcasts out of the order they were queued in,
\* or one of them twice, by however many producers and deliverers.
HeardInOrderOnce ==
    \A c \in Conns : \A i, j \in 1..Len(heard[c]) : i < j => heard[c][i] < heard[c][j]

\* Nobody who is subscribed is missed (deliverToConversation, deliverToUser): if
\* Run is done with a broadcast, it was put into the send channel of every
\* registered connection of the other subscribers, or that connection was full.
SubscribersAreServed ==
    (job[Run].step = "users" /\ job[Run].users = {}) =>
        \A u \in subscribers[job[Run].event.conv] \ {job[Run].event.exclude} :
            \A c \in clients[u] : c \in dropped \/ \E i \in 1..Len(heard[c]) :
                                                  heard[c][i] = job[Run].event.id

\* A connection that was too slow once does not stay registered.
SlowClientsAreRemoved ==
    \A c \in Conns : (c \in dropped) ~> (~Up \/ c \notin clients[Owner[c]])

\* A connection whose network end is gone is torn down: its read pump ends.
LostConnectionsEnd ==
    \A c \in Conns : (c \notin wire /\ reader[c] # "new") ~> (~Up \/ reader[c] = "gone")

\* Connections end, the slow ones and the lost ones.
ConnectionsEnd == SlowClientsAreRemoved /\ LostConnectionsEnd

\* Nothing stays in the broadcast channel.
BroadcastsAreTaken == (broadcastQ # <<>>) ~> (~Up \/ broadcastQ = <<>>)

--------
\* What the code's comments say and the code does not do.

\* hub.go:96: "Unregister removes a client from the hub. Safe to call from any
\* goroutine."  Calling it twice for a client closes its channel twice.
UnregisterIsSafe == [][HandleUnregister => Up']_vars

=====

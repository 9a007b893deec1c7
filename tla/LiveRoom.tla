---- MODULE LiveRoom ----
\* The room of one live stream: the WebSocket hub of the livestream-service
\* (handlers/ws_handler.go).
\*
\* A connection registers, chats and unregisters; each of these takes the
\* hub's lock, then a room's lock, then a read lock to broadcast, and lets
\* go of one before it takes the next.  Rooms are named because a
\* goroutine can hold a room that the hub has dropped.  What a message
\* says is left out; the joins and leaves that the hub has recorded are in
\* LiveStreams.
EXTENDS Integers, FiniteSets

CONSTANTS
    Viewers,          \* connections; each is used once
    Rooms,            \* Room objects (bounds how often a room is made)
    SendBuffer,       \* capacity of a connection's channel (512 in ServeWS)
    MaxChats,         \* messages sent by clients (bounds them)
    MayEnd            \* the host ends the stream

Host == "host"
NoRoom == "no_room"

ASSUME RoomAssumption ==
    /\ SendBuffer \in Nat \ {0} /\ MaxChats \in Nat /\ MayEnd \in BOOLEAN
    /\ IsFiniteSet(Viewers) /\ Host \notin Viewers /\ NoRoom \notin Rooms

Threads == Viewers \cup {Host}

VARIABLES
    room,             \* hub.rooms[streamID]
    inRoom,           \* room.clients
    buffered,         \* messages in each connection's channel
    sendClosed,       \* connections whose channel is closed
    thread,           \* what each connection's goroutine, or the host's request, does
    chats,
    broken,           \* a closed channel was closed again or sent to
    crowded,          \* two broadcasts were in one room when a slow client was dropped
    detached          \* rooms dropped by the hub while somebody was about to enter

hubVars == <<room, inRoom, buffered, sendClosed, chats, broken, crowded, detached>>
roomVars == <<hubVars, thread>>

ThreadSteps == {"new", "insert", "cast_in", "here", "cast_chat", "leave", "remove", "tidy",
                "cast_out", "gone", "cast", "drop", "delete",
                "idle", "cast_end", "close_room", "done"}
\* in: the room held; todo: members still to be sent to; then: what follows the broadcast.
ThreadRecords == [step : ThreadSteps, in : Rooms \cup {NoRoom}, todo : SUBSET Viewers,
                  target : Viewers \cup {Host}, then : ThreadSteps]

RoomInit ==
    /\ room = NoRoom /\ inRoom = [r \in Rooms |-> {}]
    /\ buffered = [c \in Viewers |-> 0] /\ sendClosed = {} /\ chats = 0
    /\ thread = [t \in Threads |-> [step |-> IF t = Host THEN "idle" ELSE "new", in |-> NoRoom,
                                    todo |-> {}, target |-> Host, then |-> "idle"]]
    /\ broken = FALSE /\ crowded = FALSE /\ detached = {}

--------
\* The hub.

At(t, step) == ~broken /\ thread[t].step = step
ThreadGoes(t, step) == thread' = [thread EXCEPT ![t].step = step]
Readers(r) == {t \in Threads : thread[t].step \in {"cast", "drop", "delete"} /\ thread[t].in = r}

\* register, under the hub's lock: the room is found or made.
EnterHub(c) ==
    /\ At(c, "new")
    /\ \E r \in Rooms :
          /\ \/ room = r
             \/ room = NoRoom /\ inRoom[r] = {} /\ r \notin detached
                /\ \A t \in Threads : thread[t].in # r
          /\ room' = r
          /\ thread' = [thread EXCEPT ![c].step = "insert", ![c].in = r]
    /\ UNCHANGED <<inRoom, buffered, sendClosed, chats, broken, crowded, detached>>

\* register, under the room's lock.
EnterRoom(c) ==
    /\ At(c, "insert") /\ Readers(thread[c].in) = {}
    /\ inRoom' = [inRoom EXCEPT ![thread[c].in] = @ \cup {c}]
    /\ ThreadGoes(c, "cast_in")
    /\ UNCHANGED <<room, buffered, sendClosed, chats, broken, crowded, detached>>

Chat(c) ==
    /\ At(c, "here") /\ chats < MaxChats
    /\ chats' = chats + 1 /\ ThreadGoes(c, "cast_chat")
    /\ UNCHANGED <<room, inRoom, buffered, sendClosed, broken, crowded, detached>>

\* The connection breaks, or its write pump closed it.
ReadFails(c) ==
    /\ At(c, "here") /\ ThreadGoes(c, "leave")
    /\ UNCHANGED hubVars

\* unregister, under the hub's read lock.  Without a room it returns at once.
FindRoom(c) ==
    /\ At(c, "leave")
    /\ thread' = [thread EXCEPT ![c].step = IF room = NoRoom THEN "gone" ELSE "remove",
                                ![c].in = room]
    /\ UNCHANGED hubVars

\* unregister, under the room's lock.  A client that was dropped is not in it any more.
LeaveRoom(c) ==
    /\ At(c, "remove") /\ Readers(thread[c].in) = {}
    /\ LET r == thread[c].in IN
          /\ inRoom' = [inRoom EXCEPT ![r] = @ \ {c}]
          /\ IF c \in inRoom[r]
             THEN broken' = (c \in sendClosed) /\ sendClosed' = sendClosed \cup {c}
             ELSE UNCHANGED <<broken, sendClosed>>
          /\ ThreadGoes(c, IF inRoom'[r] = {} THEN "tidy" ELSE "cast_out")
    /\ UNCHANGED <<room, buffered, chats, crowded, detached>>

\* Rooms somebody is about to enter.
Expected == {thread[t].in : t \in {t \in Threads : thread[t].step = "insert"}}
DropRoom == room' = NoRoom /\ detached' = detached \cup ({room} \cap Expected)

\* Mutant: the room is dropped without another look.
TidyBlindly(c) ==
    /\ At(c, "tidy") /\ Readers(room) = {}
    /\ DropRoom
    /\ ThreadGoes(c, "cast_out")
    /\ UNCHANGED <<inRoom, buffered, sendClosed, chats, broken, crowded>>

\* unregister, under both locks: "another goroutine might have re-added a client".
Tidy(c) ==
    /\ At(c, "tidy")
    /\ IF room # NoRoom /\ inRoom[room] = {} THEN DropRoom ELSE UNCHANGED <<room, detached>>
    /\ ThreadGoes(c, "cast_out")
    /\ UNCHANGED <<inRoom, buffered, sendClosed, chats, broken, crowded>>

\* broadcastRaw: the room the hub has now, then its members one by one.
After(step) == CASE step = "cast_in" -> "here" [] step = "cast_chat" -> "here"
                 [] step = "cast_out" -> "gone" [] step = "cast_end" -> "close_room"
BeginCast(t) ==
    /\ ~broken /\ thread[t].step \in {"cast_in", "cast_chat", "cast_out", "cast_end"}
    /\ LET next == After(thread[t].step) IN
          thread' = [thread EXCEPT ![t] =
              [step |-> "cast", in |-> room, target |-> Host, then |-> next,
               todo |-> IF room = NoRoom THEN {} ELSE inRoom[room]]]
    /\ crowded' = (crowded \/ \E s \in Readers(room) : thread[s].step \in {"drop", "delete"})
    /\ UNCHANGED <<room, inRoom, buffered, sendClosed, chats, broken, detached>>

\* A client with a full channel is dropped.
Deliver(t, c) ==
    /\ At(t, "cast") /\ c \in thread[t].todo /\ c \in inRoom[thread[t].in]
    /\ IF c \in sendClosed THEN broken' = TRUE /\ UNCHANGED <<buffered, thread, crowded>>
       ELSE IF buffered[c] < SendBuffer
       THEN /\ buffered' = [buffered EXCEPT ![c] = @ + 1]
            /\ thread' = [thread EXCEPT ![t].todo = @ \ {c}]
            /\ UNCHANGED <<broken, crowded>>
       ELSE /\ thread' = [thread EXCEPT ![t].step = "drop", ![t].target = c, ![t].todo = @ \ {c}]
            /\ crowded' = (crowded \/ Cardinality(Readers(thread[t].in)) > 1)
            /\ UNCHANGED <<buffered, broken>>
    /\ UNCHANGED <<room, inRoom, sendClosed, chats, detached>>

CloseSlow(t) ==
    /\ At(t, "drop")
    /\ broken' = (thread[t].target \in sendClosed)
    /\ sendClosed' = sendClosed \cup {thread[t].target}
    /\ ThreadGoes(t, "delete")
    /\ UNCHANGED <<room, inRoom, buffered, chats, crowded, detached>>

DeleteSlow(t) ==
    /\ At(t, "delete")
    /\ inRoom' = [inRoom EXCEPT ![thread[t].in] = @ \ {thread[t].target}]
    /\ ThreadGoes(t, "cast")
    /\ UNCHANGED <<room, buffered, sendClosed, chats, broken, crowded, detached>>

\* The broadcast is over.
EndCast(t) ==
    /\ At(t, "cast")
    /\ thread[t].in # NoRoom => thread[t].todo \cap inRoom[thread[t].in] = {}
    /\ thread' = [thread EXCEPT ![t] = [step |-> thread[t].then, in |-> NoRoom, todo |-> {},
                                        target |-> Host, then |-> "idle"]]
    /\ UNCHANGED hubVars

\* writePump empties the channel; a slow client's does so late or never.
Drain(c) ==
    /\ ~broken /\ buffered[c] > 0
    /\ buffered' = [buffered EXCEPT ![c] = 0]
    /\ UNCHANGED <<room, inRoom, sendClosed, chats, broken, crowded, detached, thread>>

--------
\* The host ends the stream.

AnnounceEnd ==
    /\ At(Host, "idle") /\ MayEnd /\ ThreadGoes(Host, "cast_end")
    /\ UNCHANGED hubVars

\* Hub.EndStream: the room is dropped with everybody in it; no channel is closed.
CloseRoom ==
    /\ At(Host, "close_room") /\ ThreadGoes(Host, "done")
    /\ IF room = NoRoom THEN UNCHANGED <<room, detached>> ELSE DropRoom
    /\ UNCHANGED <<inRoom, buffered, sendClosed, chats, broken, crowded>>

RoomNext ==
    \/ \E c \in Viewers :
          \/ EnterHub(c) \/ EnterRoom(c) \/ Chat(c) \/ ReadFails(c)
          \/ FindRoom(c) \/ LeaveRoom(c) \/ Tidy(c) \/ Drain(c)
    \/ \E t \in Threads :
          \/ BeginCast(t) \/ CloseSlow(t) \/ DeleteSlow(t) \/ EndCast(t)
          \/ \E c \in Viewers : Deliver(t, c)
    \/ AnnounceEnd \/ CloseRoom

RoomSpec == RoomInit /\ [][RoomNext]_roomVars

--------
\* Properties.

\* A connection whose channel is closed is in no room, save while it is being dropped.
RoomTypeOK ==
    /\ room \in Rooms \cup {NoRoom} /\ inRoom \in [Rooms -> SUBSET Viewers]
    /\ buffered \in [Viewers -> 0..SendBuffer] /\ sendClosed \subseteq Viewers
    /\ thread \in [Threads -> ThreadRecords] /\ chats \in 0..MaxChats
    /\ \A r \in Rooms : \A c \in inRoom[r] \cap sendClosed :
           broken \/ \E t \in Threads : thread[t].step = "delete" /\ thread[t].target = c

\* No channel is closed twice, nor sent to after it was closed, unless two broadcasts were
\* in the room while one of them dropped a slow client.
ChannelsCloseOnce == broken => crowded

\* A connection that was announced and not dropped hears what is broadcast: it is in the
\* room the hub knows, unless that room was dropped while somebody was about to enter it,
\* or the stream has ended.
NobodyIsStranded ==
    \A c \in Viewers :
        thread[c].step \in {"cast_in", "here", "cast_chat"} /\ c \notin sendClosed /\ thread[Host].step # "done" =>
            detached # {} \/ (room # NoRoom /\ c \in inRoom[room])

\* However broadcasts, arrivals and departures overlap, the hub's room serves who is in it.
RoomsServeTheirViewers == ChannelsCloseOnce /\ NobodyIsStranded

=====

---- MODULE BackendProofs ----
\* Proofs about the components MCBackend checks: the room of a live stream
\* (LiveRoom), the chats of the deployed backend (DirectMessages), a
\* stream and those who watch it (LiveStreams), the conversations of the
\* messaging-service (Conversations) and the deployed backend's follows,
\* likes, comments and notices (Engagement).  MCBackend runs one of them
\* at a time, so each has an invariant of its own and they are put
\* together at the end.
\*
\* None of the properties is inductive.  That no channel is closed twice
\* needs who is between closing a client and taking it out of the room;
\* that Redis says what the row says, who is about to write it; the unread
\* counts, what a message being written will carry; that a counter is the
\* number of its rows, that it is never lowered at the floor.
EXTENDS MCBackend, FiniteSetTheorems, WellFoundedInduction, TLAPS

--------
\* The room of a live stream.

RoomTypes ==
    /\ room \in Rooms \cup {NoRoom} /\ inRoom \in [Rooms -> SUBSET Viewers]
    /\ buffered \in [Viewers -> 0..SendBuffer] /\ sendClosed \subseteq Viewers
    /\ thread \in [Threads -> ThreadRecords] /\ chats \in 0..MaxChats
    /\ broken \in BOOLEAN /\ crowded \in BOOLEAN

Dropping == {"drop", "delete"}
Casting == {"cast"} \cup Dropping

\* A goroutine that needs a room has one, and one that drops a client has that one.
HasRoom(w) ==
    /\ w.step \in {"insert", "remove"} \cup Dropping => w.in \in Rooms
    /\ w.step \in Casting => /\ w.then \in {"here", "gone", "close_room"}
                             /\ w.in = NoRoom => w.todo = {}
    /\ w.step \in Dropping => w.target \in Viewers
ThreadsFit ==
    \A t \in Threads :
        /\ HasRoom(thread[t])
        /\ thread[t].step \in Dropping =>
              /\ thread[thread[t].target].step \notin {"new", "insert"}
              /\ \A r \in Rooms : thread[t].target \in inRoom[r] => r = thread[t].in
        /\ thread[t].step = "delete" => thread[t].target \in sendClosed

\* A connection is in one room at most, and before it enters it is in none and open.
OneRoomEach ==
    /\ \A c \in Viewers : thread[c].step \in {"new", "insert"} =>
           c \notin sendClosed /\ \A r \in Rooms : c \notin inRoom[r]
    /\ \A r, q \in Rooms : \A c \in inRoom[r] \cap inRoom[q] : r = q

\* A closed connection that is still in a room is being taken out of that room.
ClosedAreLeaving ==
    broken \/ \A r \in Rooms : \A c \in inRoom[r] \cap sendClosed :
                  \E t \in Threads : /\ thread[t].step = "delete"
                                     /\ thread[t].target = c /\ thread[t].in = r

\* Unless broadcasts crowded, whoever drops a client is alone in its room and the client in it.
DropsAreAlone ==
    crowded \/ \A t \in Threads : thread[t].step \in Dropping =>
                   /\ Readers(thread[t].in) = {t}
                   /\ thread[t].target \in inRoom[thread[t].in]

\* Whoever is about to enter a room, or has entered, finds it to be the hub's.
IsPresent(w) == \/ w.step \in {"cast_in", "here", "cast_chat"}
                \/ w.step \in Casting /\ w.then = "here"
Present(c) == IsPresent(thread[c])
EntrantsAreExpected ==
    \A c \in Viewers : thread[c].step = "insert" => detached # {} \/ room = thread[c].in
MembersAreServed ==
    \A c \in Viewers : Present(c) =>
        \/ c \in sendClosed \/ detached # {} \/ thread[Host].step = "done"
        \/ room # NoRoom /\ c \in inRoom[room]

RoomInv == /\ RoomTypes /\ ThreadsFit /\ OneRoomEach /\ ClosedAreLeaving /\ DropsAreAlone
           /\ EntrantsAreExpected /\ MembersAreServed /\ ChannelsCloseOnce

\* Nobody has entered anything.
LEMMA InitRoom == RoomInit => RoomInv
<1> SUFFICES ASSUME RoomInit PROVE RoomInv  OBVIOUS
<1>1. \A t \in Threads : /\ thread[t] \in ThreadRecords
                         /\ thread[t].step \in {"idle", "new"} /\ thread[t].then = "idle"
  BY DEF RoomInit, ThreadRecords, ThreadSteps, Threads
<1>2. RoomTypes
  <2>1. thread \in [Threads -> ThreadRecords]  BY <1>1 DEF RoomInit
  <2>2. /\ inRoom \in [Rooms -> SUBSET Viewers] /\ buffered \in [Viewers -> 0..SendBuffer]
        /\ chats \in 0..MaxChats
    BY RoomAssumption DEF RoomInit
  <2>3. room \in Rooms \cup {NoRoom} /\ sendClosed \subseteq Viewers  BY DEF RoomInit
  <2>4. broken \in BOOLEAN /\ crowded \in BOOLEAN  BY DEF RoomInit
  <2>5. QED BY <2>1, <2>2, <2>3, <2>4 DEF RoomTypes
<1>3. ThreadsFit  BY <1>1 DEF ThreadsFit, HasRoom, Dropping, Casting
<1>4. OneRoomEach /\ ClosedAreLeaving  BY DEF RoomInit, OneRoomEach, ClosedAreLeaving
<1>5. DropsAreAlone  BY <1>1 DEF DropsAreAlone, Dropping
<1>6. EntrantsAreExpected /\ MembersAreServed
  BY <1>1 DEF EntrantsAreExpected, MembersAreServed, Present, IsPresent, Casting, Dropping, Threads
<1>7. ChannelsCloseOnce  BY DEF RoomInit, ChannelsCloseOnce
<1>8. QED BY <1>2, <1>3, <1>4, <1>5, <1>6, <1>7 DEF RoomInv

\* What the types say of a goroutine.
LEMMA ThreadTypes ==
    ASSUME RoomInv, NEW t \in Threads
    PROVE  /\ thread \in [Threads -> ThreadRecords] /\ thread[t] \in ThreadRecords
           /\ thread[t].step \in ThreadSteps /\ thread[t].in \in Rooms \cup {NoRoom}
           /\ thread[t].todo \subseteq Viewers /\ thread[t].target \in Viewers \cup {Host}
           /\ thread[t].then \in ThreadSteps
           /\ HasRoom(thread[t])
BY DEF RoomInv, RoomTypes, ThreadsFit, ThreadRecords

\* Nobody who drops a client loses what it needs when goroutine t goes on to w.
LEMMA FitsAfter ==
    ASSUME RoomInv, NEW t \in Threads, NEW w \in ThreadRecords,
           thread' = [thread EXCEPT ![t] = w], HasRoom(w), sendClosed \subseteq sendClosed',
           \A r \in Rooms : \A d \in Viewers :
               d \in inRoom'[r] => d \in inRoom[r] \/ thread[d].step \in {"new", "insert"},
           w.step \in {"new", "insert"} => thread[t].step \in {"new", "insert"},
           w.step \in Dropping =>
               /\ thread[w.target].step \notin {"new", "insert"}
               /\ \A r \in Rooms : w.target \in inRoom[r] => r = w.in,
           w.step = "delete" => w.target \in sendClosed'
    PROVE  ThreadsFit'
<1>1. /\ \A s \in Threads : thread'[s] = IF s = t THEN w ELSE thread[s]
      /\ Viewers \subseteq Threads
  BY ThreadTypes DEF Threads
<1>2. \A s \in Threads : thread[s].step \notin {"new", "insert"} =>
                            thread'[s].step \notin {"new", "insert"}
  BY <1>1
<1>3. SUFFICES ASSUME NEW s \in Threads
               PROVE  /\ HasRoom(thread'[s])
                      /\ thread'[s].step \in Dropping =>
                            /\ thread'[thread'[s].target].step \notin {"new", "insert"}
                            /\ \A r \in Rooms : thread'[s].target \in inRoom'[r] => r = thread'[s].in
                      /\ thread'[s].step = "delete" => thread'[s].target \in sendClosed'
  BY DEF ThreadsFit, HasRoom
<1>4. thread'[s].step \in Dropping => thread'[s].target \in Viewers  BY <1>1, ThreadTypes DEF HasRoom
<1>5. CASE s = t  BY <1>1, <1>2, <1>4, <1>5
<1>6. CASE s # t  BY <1>1, <1>2, <1>4, <1>6 DEF RoomInv, ThreadsFit
<1>7. QED BY <1>5, <1>6

\* A goroutine that goes on without a broadcast, or with the one it is at.
LEMMA ThreadMoves ==
    ASSUME RoomInv, NEW t \in Threads, NEW w \in ThreadRecords,
           thread' = [thread EXCEPT ![t] = w],
           UNCHANGED <<room, inRoom, sendClosed, broken, crowded, detached>>,
           buffered' \in [Viewers -> 0..SendBuffer], chats' \in 0..MaxChats,
           thread[t].step \notin Dropping \cup {"new", "insert", "done"},
           w.step \notin Dropping \cup {"new", "insert"}, HasRoom(w),
           w.step = "cast" => thread[t].step = "cast" /\ w.in = thread[t].in,
           IsPresent(w) => Present(t)
    PROVE  RoomInv'
<1>1. \A s \in Threads : thread'[s] = IF s = t THEN w ELSE thread[s]  BY ThreadTypes
<1>2. Host \in Threads /\ Viewers \subseteq Threads  BY DEF Threads
<1>3. RoomTypes'  BY DEF RoomInv, RoomTypes
<1>4. ThreadsFit'  BY FitsAfter DEF Dropping
<1>5. OneRoomEach'  BY <1>1, <1>2 DEF RoomInv, OneRoomEach
<1>6. ClosedAreLeaving'  BY <1>1 DEF RoomInv, ClosedAreLeaving, Dropping
<1>7. DropsAreAlone'  BY <1>1 DEF DropsAreAlone, Readers, RoomInv, Dropping
<1>8. EntrantsAreExpected'  BY <1>1, <1>2 DEF RoomInv, EntrantsAreExpected
<1>9. MembersAreServed'  BY <1>1, <1>2 DEF RoomInv, MembersAreServed, Present
<1>10. ChannelsCloseOnce'  BY DEF RoomInv, ChannelsCloseOnce
<1>11. QED BY <1>3, <1>4, <1>5, <1>6, <1>7, <1>8, <1>9, <1>10 DEF RoomInv

\* The record of a goroutine that goes on to another step.
LEMMA StepRecord ==
    ASSUME RoomInv, NEW t \in Threads, NEW step \in ThreadSteps
    PROVE  /\ [thread[t] EXCEPT !.step = step] \in ThreadRecords
           /\ [thread[t] EXCEPT !.step = step].step = step
           /\ [thread[t] EXCEPT !.step = step].in = thread[t].in
           /\ [thread[t] EXCEPT !.step = step].todo = thread[t].todo
           /\ [thread[t] EXCEPT !.step = step].target = thread[t].target
           /\ [thread[t] EXCEPT !.step = step].then = thread[t].then
BY ThreadTypes DEF ThreadRecords

\* Chats and reads that fail: one goroutine goes on.
LEMMA QuietRoom ==
    ASSUME RoomInv, NEW c \in Viewers, Chat(c) \/ ReadFails(c) \/ FindRoom(c)
    PROVE  RoomInv'
<1>1. c \in Threads /\ Host \in Threads  BY DEF Threads
<1>2. CASE Chat(c)
  <2>1. thread' = [thread EXCEPT ![c] = [thread[c] EXCEPT !.step = "cast_chat"]]  BY <1>2 DEF Chat, ThreadGoes
  <2>2. "cast_chat" \in ThreadSteps  BY DEF ThreadSteps
  <2>3. chats' \in 0..MaxChats  BY <1>2, RoomAssumption DEF Chat, RoomInv, RoomTypes
  <2> DEFINE w == [thread[c] EXCEPT !.step = "cast_chat"]
  <2>4. w \in ThreadRecords /\ w.step = "cast_chat"  BY <1>1, <2>2, StepRecord
  <2> HIDE DEF w
  <2>5. HasRoom(w) /\ Present(c) /\ thread[c].step = "here"
    BY <1>2, <2>4 DEF Chat, At, HasRoom, Dropping, Casting, Present, IsPresent
  <2>6. buffered' \in [Viewers -> 0..SendBuffer]  BY <1>2 DEF Chat, RoomInv, RoomTypes
  <2>7. QED BY <1>1, <1>2, <2>1, <2>3, <2>4, <2>5, <2>6, ThreadMoves DEF Chat, Dropping, w
<1>3. CASE ReadFails(c)
  <2> DEFINE w == [thread[c] EXCEPT !.step = "leave"]
  <2>1. thread' = [thread EXCEPT ![c] = w]  BY <1>3 DEF ReadFails, ThreadGoes
  <2>2. w \in ThreadRecords /\ w.step = "leave"  BY <1>1, StepRecord DEF ThreadSteps
  <2> HIDE DEF w
  <2>3. HasRoom(w) /\ ~IsPresent(w) /\ thread[c].step = "here"
    BY <1>3, <2>2 DEF ReadFails, At, HasRoom, Dropping, Casting, IsPresent
  <2>4. buffered' \in [Viewers -> 0..SendBuffer] /\ chats' \in 0..MaxChats
    BY <1>3 DEF ReadFails, hubVars, RoomInv, RoomTypes
  <2>5. QED BY <1>1, <1>3, <2>1, <2>2, <2>3, <2>4, ThreadMoves DEF ReadFails, hubVars, Dropping
<1>4. CASE FindRoom(c)
  <2> DEFINE w == [thread[c] EXCEPT !.step = IF room = NoRoom THEN "gone" ELSE "remove", !.in = room]
  <2>1. thread' = [thread EXCEPT ![c] = w]  BY <1>1, <1>4, ThreadTypes DEF FindRoom
  <2>2. room \in Rooms \cup {NoRoom}  BY DEF RoomInv, RoomTypes
  <2>3. /\ w \in ThreadRecords /\ w.in = room
        /\ w.step = IF room = NoRoom THEN "gone" ELSE "remove"
    <3> DEFINE step == IF room = NoRoom THEN "gone" ELSE "remove"
    <3>1. step \in ThreadSteps  BY DEF ThreadSteps
    <3>2. w = [thread[c] EXCEPT !.step = step, !.in = room]  OBVIOUS
    <3> HIDE DEF step
    <3>3. w \in ThreadRecords /\ w.in = room /\ w.step = step
      BY <1>1, <2>2, <3>1, <3>2, ThreadTypes DEF ThreadRecords
    <3>4. QED BY <3>3 DEF step
  <2> HIDE DEF w
  <2>4. HasRoom(w) /\ ~IsPresent(w) /\ thread[c].step = "leave"
    BY <1>4, <2>2, <2>3 DEF FindRoom, At, HasRoom, Dropping, Casting, IsPresent
  <2>5. buffered' \in [Viewers -> 0..SendBuffer] /\ chats' \in 0..MaxChats
    BY <1>4 DEF FindRoom, hubVars, RoomInv, RoomTypes
  <2>6. w.step \in {"gone", "remove"}  BY <2>3
  <2>7. QED BY <1>1, <1>4, <2>1, <2>3, <2>4, <2>5, <2>6, ThreadMoves DEF FindRoom, hubVars, Dropping
<1>5. QED BY <1>2, <1>3, <1>4

\* The end of a broadcast.
LEMMA EndCastRoom == ASSUME RoomInv, NEW t \in Threads, EndCast(t) PROVE RoomInv'
<1> DEFINE w == [step |-> thread[t].then, in |-> NoRoom, todo |-> {}, target |-> Host, then |-> "idle"]
<1>1. thread' = [thread EXCEPT ![t] = w] /\ thread[t].step = "cast" /\ UNCHANGED hubVars  BY DEF EndCast, At
<1>2. thread[t].then \in {"here", "gone", "close_room"}  BY <1>1, ThreadTypes DEF HasRoom, Casting
<1>3. w \in ThreadRecords /\ w.step = thread[t].then  BY <1>2 DEF ThreadRecords, ThreadSteps
<1> HIDE DEF w
<1>4. HasRoom(w) /\ (IsPresent(w) => Present(t))
  BY <1>1, <1>2, <1>3 DEF HasRoom, Dropping, Casting, IsPresent, Present
<1>5. buffered' \in [Viewers -> 0..SendBuffer] /\ chats' \in 0..MaxChats
  BY <1>1 DEF hubVars, RoomInv, RoomTypes
<1>6. QED BY <1>1, <1>2, <1>3, <1>4, <1>5, ThreadMoves DEF hubVars, Dropping

\* The channel of a connection is emptied.
LEMMA DrainRoom == ASSUME RoomInv, NEW c \in Viewers, Drain(c) PROVE RoomInv'
<1>1. buffered' \in [Viewers -> 0..SendBuffer]  BY RoomAssumption DEF Drain, RoomInv, RoomTypes
<1>2. UNCHANGED <<room, inRoom, sendClosed, chats, broken, crowded, detached, thread>>  BY DEF Drain
<1>3. RoomTypes'  BY <1>1, <1>2 DEF RoomInv, RoomTypes
<1>4. ThreadsFit' /\ OneRoomEach' /\ ClosedAreLeaving' /\ ChannelsCloseOnce'
  BY <1>2 DEF RoomInv, ThreadsFit, HasRoom, OneRoomEach, ClosedAreLeaving, ChannelsCloseOnce
<1>5. DropsAreAlone' /\ EntrantsAreExpected' /\ MembersAreServed'
  BY <1>2 DEF RoomInv, DropsAreAlone, Readers, EntrantsAreExpected, MembersAreServed, Present, IsPresent
<1>6. QED BY <1>3, <1>4, <1>5 DEF RoomInv

\* The host announces the end.
LEMMA AnnounceEndRoom == ASSUME RoomInv, AnnounceEnd PROVE RoomInv'
<1> DEFINE w == [thread[Host] EXCEPT !.step = "cast_end"]
<1>1. Host \in Threads  BY DEF Threads
<1>2. thread' = [thread EXCEPT ![Host] = w]  BY DEF AnnounceEnd, ThreadGoes
<1>3. w \in ThreadRecords /\ w.step = "cast_end"  BY <1>1, StepRecord DEF ThreadSteps
<1> HIDE DEF w
<1>4. HasRoom(w) /\ ~IsPresent(w) /\ thread[Host].step = "idle"
  BY <1>3 DEF AnnounceEnd, At, HasRoom, Dropping, Casting, IsPresent
<1>5. buffered' \in [Viewers -> 0..SendBuffer] /\ chats' \in 0..MaxChats
  BY DEF AnnounceEnd, hubVars, RoomInv, RoomTypes
<1>6. QED BY <1>1, <1>2, <1>3, <1>4, <1>5, ThreadMoves DEF AnnounceEnd, hubVars, Dropping

\* Others that drop a client stay alone when t is no new reader of their room.
LEMMA AloneAfter ==
    ASSUME RoomInv, NEW t \in Threads, NEW w \in ThreadRecords,
           thread' = [thread EXCEPT ![t] = w], crowded => crowded',
           ~crowded' => \A s \in Threads \ {t} : thread[s].step \in Dropping =>
               /\ thread[s].target \in inRoom'[thread[s].in]
               /\ w.step \in Casting => w.in # thread[s].in,
           ~crowded' /\ w.step \in Dropping =>
               /\ \A s \in Threads \ {t} : thread[s].step \in Casting => thread[s].in # w.in
               /\ w.target \in inRoom'[w.in]
    PROVE  DropsAreAlone'
<1>1. \A s \in Threads : thread'[s] = IF s = t THEN w ELSE thread[s]  BY ThreadTypes
<1>2. SUFFICES ASSUME ~crowded', NEW s \in Threads, thread'[s].step \in Dropping
               PROVE  /\ \A q \in Threads :
                            q = s <=> /\ thread'[q].step \in {"cast", "drop", "delete"}
                                      /\ thread'[q].in = thread'[s].in
                      /\ thread'[s].target \in inRoom'[thread'[s].in]
  BY DEF DropsAreAlone, Readers
<1>3. CASE s = t  BY <1>1, <1>2, <1>3 DEF Casting, Dropping
<1>4. CASE s # t  BY <1>1, <1>2, <1>4 DEF RoomInv, DropsAreAlone, Readers, Casting, Dropping
<1>5. QED BY <1>3, <1>4

\* Whoever drops a client has a room, and unless broadcasts crowded finds it there alone.
LEMMA Dropper ==
    ASSUME RoomInv, NEW t \in Threads, thread[t].step \in Dropping
    PROVE  /\ thread[t].in \in Rooms /\ thread[t].target \in Viewers
           /\ thread[t].then \in {"here", "gone", "close_room"}
           /\ thread[thread[t].target].step \notin {"new", "insert"}
           /\ \A q \in Rooms : thread[t].target \in inRoom[q] => q = thread[t].in
           /\ ~crowded => /\ thread[t].target \in inRoom[thread[t].in]
                          /\ \A s \in Threads : thread[s].step \in Casting /\ thread[s].in = thread[t].in
                                                    => s = t
<1>1. /\ thread[t].in \in Rooms /\ thread[t].target \in Viewers
      /\ thread[t].then \in {"here", "gone", "close_room"}
  BY ThreadTypes DEF HasRoom, Casting
<1>2. /\ thread[thread[t].target].step \notin {"new", "insert"}
      /\ \A q \in Rooms : thread[t].target \in inRoom[q] => q = thread[t].in
  BY DEF RoomInv, ThreadsFit
<1>3. ~crowded => Readers(thread[t].in) = {t} /\ thread[t].target \in inRoom[thread[t].in]
  BY DEF RoomInv, DropsAreAlone
<1>4. QED BY <1>1, <1>2, <1>3 DEF Readers, Casting, Dropping

\* A client finds the hub's room, or makes one.
LEMMA EnterHubRoom == ASSUME RoomInv, NEW c \in Viewers, EnterHub(c) PROVE RoomInv'
<1>1. PICK r \in Rooms :
          /\ \/ room = r
             \/ room = NoRoom /\ inRoom[r] = {}
          /\ room' = r
          /\ thread' = [thread EXCEPT ![c].step = "insert", ![c].in = r]
  BY DEF EnterHub
<1> DEFINE w == [thread[c] EXCEPT !.step = "insert", !.in = r]
<1>2. c \in Threads /\ Viewers \subseteq Threads /\ Host \in Threads /\ c # Host
  BY RoomAssumption DEF Threads
<1>3. /\ thread' = [thread EXCEPT ![c] = w] /\ thread[c].step = "new"
      /\ UNCHANGED <<inRoom, buffered, sendClosed, chats, broken, crowded, detached>>
  BY <1>1, <1>2, ThreadTypes DEF EnterHub, At
<1>4. w \in ThreadRecords /\ w.step = "insert" /\ w.in = r
  <2>1. thread[c] \in ThreadRecords /\ "insert" \in ThreadSteps  BY <1>2, ThreadTypes DEF ThreadSteps
  <2>2. QED BY <1>1, <2>1 DEF ThreadRecords
<1> HIDE DEF w
<1>5. \A s \in Threads : thread'[s] = IF s = c THEN w ELSE thread[s]  BY <1>3, ThreadTypes
<1>6. HasRoom(w)  BY <1>4 DEF HasRoom, Casting, Dropping
<1>7. RoomTypes'  BY <1>1, <1>2, <1>3, <1>4 DEF RoomInv, RoomTypes
<1>8. ThreadsFit'  BY <1>2, <1>3, <1>4, <1>6, FitsAfter DEF Dropping
<1>9. OneRoomEach'  BY <1>2, <1>3, <1>5 DEF RoomInv, OneRoomEach
<1>10. ClosedAreLeaving' /\ ChannelsCloseOnce'  BY <1>3, <1>5 DEF RoomInv, ClosedAreLeaving, ChannelsCloseOnce
<1>11. DropsAreAlone'  BY <1>2, <1>3, <1>4, Dropper, AloneAfter DEF Dropping, Casting
<1>12. room # NoRoom => room' = room  BY <1>1
<1>13. EntrantsAreExpected'
  BY <1>2, ThreadTypes, RoomAssumption, <1>1, <1>3, <1>4, <1>5, <1>12 DEF HasRoom, RoomInv, EntrantsAreExpected
<1>14. MembersAreServed'
  <2>1. ~IsPresent(w)  BY <1>4 DEF IsPresent, Casting, Dropping
  <2>2. QED BY <1>2, <1>3, <1>5, <1>12, <2>1 DEF RoomInv, MembersAreServed, Present
<1>15. QED BY <1>7, <1>8, <1>9, <1>10, <1>11, <1>13, <1>14 DEF RoomInv

\* A client enters the room that was found for it.
LEMMA EnterRoomRoom == ASSUME RoomInv, NEW c \in Viewers, EnterRoom(c) PROVE RoomInv'
<1> DEFINE w == [thread[c] EXCEPT !.step = "cast_in"]
           r == thread[c].in
<1>1. c \in Threads /\ Viewers \subseteq Threads /\ Host \in Threads /\ c # Host
  BY RoomAssumption DEF Threads
<1>2. /\ thread' = [thread EXCEPT ![c] = w] /\ thread[c].step = "insert"
      /\ inRoom' = [inRoom EXCEPT ![r] = @ \cup {c}]
      /\ UNCHANGED <<room, buffered, sendClosed, chats, broken, crowded, detached>>
  BY DEF EnterRoom, At, ThreadGoes
<1>3. w \in ThreadRecords /\ w.step = "cast_in" /\ w.in = r /\ r \in Rooms
  <2>1. "cast_in" \in ThreadSteps  BY DEF ThreadSteps
  <2>2. r \in Rooms  BY <1>1, <1>2, ThreadTypes DEF HasRoom
  <2>3. QED BY <1>1, <2>1, <2>2, StepRecord
<1>4. inRoom \in [Rooms -> SUBSET Viewers]  BY DEF RoomInv, RoomTypes
<1> HIDE DEF w, r
<1>5. /\ \A s \in Threads : thread'[s] = IF s = c THEN w ELSE thread[s]
      /\ \A q \in Rooms : inRoom'[q] = IF q = r THEN inRoom[r] \cup {c} ELSE inRoom[q]
  BY <1>2, <1>3, <1>4, ThreadTypes
<1>6. HasRoom(w)  BY <1>3 DEF HasRoom, Casting, Dropping
<1>7. c \notin sendClosed /\ \A q \in Rooms : c \notin inRoom[q]  BY <1>2 DEF RoomInv, OneRoomEach
<1>8. RoomTypes'  BY <1>1, <1>2, <1>3, <1>4 DEF RoomInv, RoomTypes
<1>9. ThreadsFit'
  <2>1. \A q \in Rooms : \A d \in Viewers :
            d \in inRoom'[q] => d \in inRoom[q] \/ thread[d].step \in {"new", "insert"}
    BY <1>2, <1>5
  <2>2. QED BY <1>1, <1>2, <1>3, <1>6, <2>1, FitsAfter DEF Dropping
<1>10. OneRoomEach'  BY <1>5, <1>1, <1>3, <1>4, <1>2, <1>7 DEF RoomInv, OneRoomEach
<1>11. ClosedAreLeaving'  BY <1>5, <1>7, <1>2 DEF RoomInv, ClosedAreLeaving
<1>12. DropsAreAlone'
  <2>1. \A s \in Threads \ {c} : thread[s].step \in Dropping /\ ~crowded =>
            thread[s].target \in inRoom'[thread[s].in]
    BY <1>5, Dropper
  <2>2. QED BY <1>1, <1>2, <1>3, <2>1, AloneAfter DEF Dropping, Casting
<1>13. EntrantsAreExpected'  BY <1>1, <1>2, <1>3, <1>5 DEF RoomInv, EntrantsAreExpected
<1>14. MembersAreServed'
  BY <1>1, <1>2, <1>5, <1>3, RoomAssumption DEF MembersAreServed, RoomInv, EntrantsAreExpected, r, Present,
     RoomTypes
<1>15. QED BY <1>2, <1>8, <1>9, <1>10, <1>11, <1>12, <1>13, <1>14 DEF RoomInv, ChannelsCloseOnce

\* A client leaves its room; nobody broadcasts in it meanwhile.
LEMMA LeaveRoomRoom == ASSUME RoomInv, NEW c \in Viewers, LeaveRoom(c) PROVE RoomInv'
<1> DEFINE r == thread[c].in
           step == IF inRoom'[r] = {} THEN "tidy" ELSE "cast_out"
           w == [thread[c] EXCEPT !.step = step]
<1>1. c \in Threads /\ Viewers \subseteq Threads /\ Host \in Threads /\ c # Host
  BY RoomAssumption DEF Threads
<1>2. /\ thread' = [thread EXCEPT ![c] = w] /\ thread[c].step = "remove" /\ ~broken
      /\ inRoom' = [inRoom EXCEPT ![r] = @ \ {c}] /\ Readers(r) = {}
      /\ IF c \in inRoom[r]
         THEN broken' = (c \in sendClosed) /\ sendClosed' = sendClosed \cup {c}
         ELSE UNCHANGED <<broken, sendClosed>>
      /\ UNCHANGED <<room, buffered, chats, crowded, detached>>
  BY DEF LeaveRoom, At, ThreadGoes
<1>3. step \in {"tidy", "cast_out"} /\ step \in ThreadSteps  BY DEF ThreadSteps
<1> HIDE DEF step
<1>4. w \in ThreadRecords /\ w.step = step /\ w.in = r /\ r \in Rooms
  BY <1>1, <1>2, <1>3, StepRecord, ThreadTypes DEF HasRoom
<1>5. inRoom \in [Rooms -> SUBSET Viewers]  BY DEF RoomInv, RoomTypes
<1> HIDE DEF w, r
<1>6. /\ \A s \in Threads : thread'[s] = IF s = c THEN w ELSE thread[s]
      /\ \A q \in Rooms : inRoom'[q] = IF q = r THEN inRoom[r] \ {c} ELSE inRoom[q]
  BY <1>2, <1>4, <1>5, ThreadTypes
<1>7. ~(c \in inRoom[r] /\ c \in sendClosed)  BY <1>2, <1>4 DEF RoomInv, ClosedAreLeaving, Readers
<1>8. ~broken' /\ sendClosed \subseteq sendClosed' /\ sendClosed' \subseteq sendClosed \cup {c}  BY <1>2, <1>7
<1>9. RoomTypes'
  <2>1. inRoom' \in [Rooms -> SUBSET Viewers]  BY <1>2, <1>5
  <2>2. sendClosed' \subseteq Viewers  BY <1>8 DEF RoomInv, RoomTypes
  <2>5. broken' \in BOOLEAN
    <3>1. broken \in BOOLEAN  BY DEF RoomInv, RoomTypes
    <3>2. broken' = (c \in sendClosed) \/ broken' = broken  BY <1>2
    <3>3. CASE broken' = (c \in sendClosed)  BY <3>3
    <3>4. CASE broken' = broken  BY <3>1, <3>4
    <3>5. QED BY <3>2, <3>3, <3>4
  <2>3. thread' \in [Threads -> ThreadRecords]  BY <1>2, <1>4, ThreadTypes, <1>1
  <2>4. QED BY <1>2, <2>1, <2>2, <2>3, <2>5 DEF RoomInv, RoomTypes
<1>10. HasRoom(w)  BY <1>3, <1>4 DEF HasRoom, Casting, Dropping
<1>11. ThreadsFit'
  <2>1. \A q \in Rooms : \A d \in Viewers :
            d \in inRoom'[q] => d \in inRoom[q] \/ thread[d].step \in {"new", "insert"}
    BY <1>6
  <2>2. QED BY <1>1, <1>2, <1>3, <1>4, <1>8, <1>10, <2>1, FitsAfter DEF Dropping
<1>12. OneRoomEach'  BY <1>6, <1>1, <1>3, <1>4, <1>8 DEF RoomInv, OneRoomEach
<1>13. ClosedAreLeaving'
  <2>1. SUFFICES ASSUME NEW q \in Rooms, NEW d \in inRoom'[q] \cap sendClosed'
                 PROVE  \E t \in Threads : /\ thread'[t].step = "delete"
                                           /\ thread'[t].target = d /\ thread'[t].in = q
    BY DEF ClosedAreLeaving
  <2>2. d \in inRoom[q]  BY <1>6, <2>1
  <2>3. d \in sendClosed
    <3>1. CASE c \in inRoom[r]
      <4>1. d # c  BY <1>4, <1>6, <2>1, <2>2, <3>1 DEF RoomInv, OneRoomEach
      <4>2. QED BY <1>8, <2>1, <4>1
    <3>2. CASE c \notin inRoom[r]  BY <1>2, <2>1, <3>2
    <3>3. QED BY <3>1, <3>2
  <2>4. PICK t \in Threads : thread[t].step = "delete" /\ thread[t].target = d /\ thread[t].in = q
    BY <1>2, <2>2, <2>3 DEF RoomInv, ClosedAreLeaving
  <2>5. thread'[t] = thread[t]  BY <1>2, <1>6, <2>4
  <2>6. QED BY <2>4, <2>5
<1>14. DropsAreAlone'
  <2>1. \A s \in Threads : thread[s].step \in Dropping => thread[s].in # r /\ thread[s].in \in Rooms
    BY <1>2, Dropper DEF Readers, Dropping
  <2>2. \A s \in Threads : thread[s].step \in Dropping /\ ~crowded =>
            thread[s].target \in inRoom'[thread[s].in]
    BY <1>6, <2>1, Dropper
  <2>3. w.step \notin Casting  BY <1>3, <1>4 DEF Casting, Dropping
  <2>4. QED BY <1>1, <1>2, <1>4, <2>2, <2>3, AloneAfter DEF Dropping, Casting
<1>15. EntrantsAreExpected'  BY <1>1, <1>2, <1>3, <1>4, <1>6 DEF RoomInv, EntrantsAreExpected
<1>16. MembersAreServed'
  <2>1. ~IsPresent(w)  BY <1>3, <1>4 DEF IsPresent, Casting, Dropping
  <2>2. SUFFICES ASSUME NEW d \in Viewers, Present(d)'
                 PROVE  \/ d \in sendClosed' \/ detached # {} \/ thread[Host].step = "done"
                        \/ room # NoRoom /\ d \in inRoom'[room]
    BY <1>1, <1>2, <1>6 DEF MembersAreServed
  <2>3. d # c /\ Present(d)  BY <1>1, <1>6, <2>1, <2>2 DEF Present
  <2>4. room # NoRoom => room \in Rooms  BY DEF RoomInv, RoomTypes
  <2>5. QED BY <1>6, <1>8, <2>3, <2>4 DEF RoomInv, MembersAreServed
<1>17. QED BY <1>8, <1>9, <1>11, <1>12, <1>13, <1>14, <1>15, <1>16 DEF RoomInv, ChannelsCloseOnce

\* The hub forgets a room that is empty, or whose stream has ended.
LEMMA DropRoomRoom ==
    ASSUME RoomInv, NEW t \in Threads, NEW step \in {"cast_out", "done"},
           thread[t].step \in {"tidy", "close_room"}, ThreadGoes(t, step),
           UNCHANGED <<inRoom, buffered, sendClosed, chats, broken, crowded>>,
           \/ UNCHANGED <<room, detached>>
           \/ DropRoom /\ (inRoom[room] = {} \/ (t = Host /\ step = "done")),
           thread[t].step # "done"
    PROVE  RoomInv'
<1> DEFINE w == [thread[t] EXCEPT !.step = step]
<1>1. thread' = [thread EXCEPT ![t] = w] /\ Host \in Threads /\ Viewers \subseteq Threads
  BY DEF ThreadGoes, Threads
<1>2. w \in ThreadRecords /\ w.step = step
  <2>1. step \in ThreadSteps  BY DEF ThreadSteps
  <2>2. QED BY <2>1, StepRecord
<1> HIDE DEF w
<1>3. \A s \in Threads : thread'[s] = IF s = t THEN w ELSE thread[s]  BY <1>1, ThreadTypes
<1>4. HasRoom(w) /\ ~IsPresent(w)  BY <1>2 DEF HasRoom, IsPresent, Casting, Dropping
<1>5. RoomTypes'  BY <1>1, <1>2 DEF DropRoom, RoomInv, RoomTypes
<1>6. ThreadsFit'  BY <1>1, <1>2, <1>4, FitsAfter DEF Dropping
<1>7. OneRoomEach'  BY <1>1, <1>2, <1>3 DEF RoomInv, OneRoomEach
<1>8. ClosedAreLeaving' /\ ChannelsCloseOnce'  BY <1>3 DEF RoomInv, ClosedAreLeaving, ChannelsCloseOnce
<1>9. DropsAreAlone'  BY <1>1, <1>2, Dropper, AloneAfter DEF Dropping, Casting
<1>10. EntrantsAreExpected'  BY <1>1, <1>2, <1>3 DEF EntrantsAreExpected, RoomInv, Expected, DropRoom
<1>11. MembersAreServed'  BY <1>1, <1>3, <1>4, <1>2 DEF MembersAreServed, Present, RoomInv, DropRoom
<1>12. QED BY <1>5, <1>6, <1>7, <1>8, <1>9, <1>10, <1>11 DEF RoomInv

\* A broadcast begins: the room the hub has now gets a reader more.
LEMMA BeginCastRoom == ASSUME RoomInv, NEW t \in Threads, BeginCast(t) PROVE RoomInv'
<1> DEFINE next == After(thread[t].step)
           present == IF room = NoRoom THEN {} ELSE inRoom[room]
           w == [step |-> "cast", in |-> room, target |-> Host, then |-> next, todo |-> present]
<1>1. Host \in Threads /\ Viewers \subseteq Threads  BY DEF Threads
<1>2. /\ thread[t].step \in {"cast_in", "cast_chat", "cast_out", "cast_end"}
      /\ thread' = [thread EXCEPT ![t] = w]
      /\ crowded' = (crowded \/ \E s \in Readers(room) : thread[s].step \in {"drop", "delete"})
      /\ UNCHANGED <<room, inRoom, buffered, sendClosed, chats, broken, detached>>
  BY DEF BeginCast
<1>3. /\ next \in {"here", "gone", "close_room"}
      /\ next = "here" => thread[t].step \in {"cast_in", "cast_chat"}
  BY <1>2 DEF After
<1>4. room \in Rooms \cup {NoRoom} /\ present \subseteq Viewers  BY DEF RoomInv, RoomTypes
<1> HIDE DEF next
<1>5. /\ w.step = "cast" /\ w.in = room /\ w.then = next
      /\ w.in = NoRoom => w.todo = {}
  OBVIOUS
<1> HIDE DEF present
<1>6. w \in ThreadRecords  BY <1>3, <1>4 DEF ThreadRecords, ThreadSteps
<1> HIDE DEF w
<1>7. \A s \in Threads : thread'[s] = IF s = t THEN w ELSE thread[s]  BY <1>2, ThreadTypes
<1>8. HasRoom(w) /\ (IsPresent(w) => Present(t))
  BY <1>3, <1>5 DEF HasRoom, IsPresent, Present, Casting, Dropping
<1>9. RoomTypes'
  <2>1. crowded' \in BOOLEAN  BY <1>2
  <2>2. QED BY <1>2, <1>6, <2>1 DEF RoomInv, RoomTypes
<1>10. ThreadsFit'  BY <1>2, <1>5, <1>6, <1>8, FitsAfter DEF Dropping
<1>11. OneRoomEach'  BY <1>1, <1>2, <1>5, <1>7 DEF RoomInv, OneRoomEach
<1>12. ClosedAreLeaving' /\ ChannelsCloseOnce'
  <2>1. crowded => crowded'  BY <1>2, Zenon
  <2>2. \A s \in Threads : thread[s].step = "delete" => thread'[s] = thread[s]  BY <1>2, <1>7
  <2>3. ClosedAreLeaving'  BY <1>2, <2>2 DEF RoomInv, ClosedAreLeaving
  <2>4. ChannelsCloseOnce'  BY <1>2, <2>1 DEF RoomInv, ChannelsCloseOnce
  <2>5. QED BY <2>3, <2>4
<1>13. DropsAreAlone'  BY <1>2, <1>5, Dropper, <1>6, AloneAfter DEF Dropping, Readers
<1>14. EntrantsAreExpected'  BY <1>1, <1>2, <1>5, <1>7 DEF RoomInv, EntrantsAreExpected
<1>15. MembersAreServed'  BY <1>1, <1>7, <1>8, <1>2 DEF Present, RoomInv, MembersAreServed
<1>16. QED BY <1>9, <1>10, <1>11, <1>12, <1>13, <1>14, <1>15 DEF RoomInv

\* A channel that is written to or closed after it was closed: two broadcasts were in the room.
LEMMA BreakRoom ==
    ASSUME RoomInv, NEW t \in Threads, thread[t].step \in {"cast", "drop"}, NEW c \in Viewers,
           thread[t].in \in Rooms, c \in inRoom[thread[t].in], c \in sendClosed, ~broken
    PROVE  crowded
<1>1. PICK s \in Threads : thread[s].step = "delete" /\ thread[s].in = thread[t].in
  BY DEF RoomInv, ClosedAreLeaving
<1>2. ~crowded => s = t  BY <1>1, Dropper DEF Dropping, Casting
<1>3. QED BY <1>1, <1>2

\* A message is put into a member's channel, or the member's channel is full.
LEMMA DeliverRoom == ASSUME RoomInv, NEW t \in Threads, NEW c \in Viewers, Deliver(t, c) PROVE RoomInv'
<1>1. Host \in Threads /\ Viewers \subseteq Threads  BY DEF Threads
<1>2. /\ thread[t].step = "cast" /\ ~broken /\ c \in thread[t].todo /\ c \in inRoom[thread[t].in]
      /\ UNCHANGED <<room, inRoom, sendClosed, chats, detached>>
  BY DEF Deliver, At
<1>3. thread[t].in \in Rooms /\ thread[t].then \in {"here", "gone", "close_room"}
  BY <1>2, ThreadTypes DEF HasRoom, Casting
<1>4. CASE c \in sendClosed /\ broken' = TRUE /\ UNCHANGED <<buffered, thread, crowded>>
  <2>1. crowded  BY <1>2, <1>3, <1>4, BreakRoom
  <2>2. RoomTypes'  BY <1>2, <1>4 DEF RoomInv, RoomTypes
  <2>3. ThreadsFit' /\ OneRoomEach'  BY <1>2, <1>4 DEF RoomInv, ThreadsFit, HasRoom, OneRoomEach
  <2>4. ClosedAreLeaving' /\ DropsAreAlone' /\ ChannelsCloseOnce'
    BY <1>4, <2>1 DEF ClosedAreLeaving, DropsAreAlone, ChannelsCloseOnce
  <2>5. EntrantsAreExpected' /\ MembersAreServed'
    BY <1>2, <1>4 DEF RoomInv, EntrantsAreExpected, MembersAreServed, Present, IsPresent
  <2>6. QED BY <2>2, <2>3, <2>4, <2>5 DEF RoomInv
<1>5. CASE /\ buffered[c] < SendBuffer /\ buffered' = [buffered EXCEPT ![c] = @ + 1]
           /\ thread' = [thread EXCEPT ![t].todo = @ \ {c}] /\ UNCHANGED <<broken, crowded>>
  <2> DEFINE w == [thread[t] EXCEPT !.todo = @ \ {c}]
  <2>1. thread' = [thread EXCEPT ![t] = w]  BY <1>5
  <2>2. /\ w \in ThreadRecords /\ w.step = "cast" /\ w.in = thread[t].in
        /\ w.then = thread[t].then  BY ThreadTypes, <1>2 DEF ThreadRecords
  <2> HIDE DEF w
  <2>3. HasRoom(w) /\ (IsPresent(w) => Present(t))
    BY <1>2, <1>3, <2>2, RoomAssumption DEF HasRoom, IsPresent, Present, Casting, Dropping
  <2>4. buffered' \in [Viewers -> 0..SendBuffer]  BY <1>5, RoomAssumption DEF RoomInv, RoomTypes
  <2>5. chats' \in 0..MaxChats  BY <1>2 DEF RoomInv, RoomTypes
  <2>6. QED BY <1>2, <1>5, <2>1, <2>2, <2>3, <2>4, <2>5, ThreadMoves DEF Dropping
<1>6. CASE /\ thread' = [thread EXCEPT ![t].step = "drop", ![t].target = c, ![t].todo = @ \ {c}]
           /\ crowded' = (crowded \/ Cardinality(Readers(thread[t].in)) > 1)
           /\ UNCHANGED <<buffered, broken>>
  <2> DEFINE w == [thread[t] EXCEPT !.step = "drop", !.target = c, !.todo = @ \ {c}]
  <2>1. thread' = [thread EXCEPT ![t] = w]  BY <1>6, ThreadTypes
  <2>2. /\ w \in ThreadRecords /\ w.step = "drop" /\ w.in = thread[t].in
        /\ w.then = thread[t].then /\ w.target = c  BY ThreadTypes, <1>2 DEF ThreadSteps, ThreadRecords
  <2> HIDE DEF w
  <2>3. \A s \in Threads : thread'[s] = IF s = t THEN w ELSE thread[s]  BY <2>1, ThreadTypes
  <2>4. HasRoom(w) /\ (IsPresent(w) => Present(t))
    BY <1>2, <1>3, <2>2, RoomAssumption DEF HasRoom, IsPresent, Present, Casting, Dropping
  <2>5. thread[c].step \notin {"new", "insert"}  BY <1>2, <1>3 DEF RoomInv, OneRoomEach
  <2>6. RoomTypes'
    <3>1. crowded' \in BOOLEAN  BY <1>6
    <3>2. thread' \in [Threads -> ThreadRecords]  BY <2>1, <2>2 DEF RoomInv, RoomTypes
    <3>3. QED BY <1>2, <1>6, <3>1, <3>2 DEF RoomInv, RoomTypes
  <2>7. ThreadsFit'  BY <1>2, <1>3, <2>1, <2>2, <2>4, <2>5, FitsAfter DEF RoomInv, OneRoomEach, Dropping
  <2>8. OneRoomEach'  BY <1>1, <1>2, <2>2, <2>3 DEF RoomInv, OneRoomEach
  <2>9. ClosedAreLeaving' /\ ChannelsCloseOnce'
    <3>1. crowded => crowded'  BY <1>6, Zenon
    <3>2. \A s \in Threads : thread[s].step = "delete" => thread'[s] = thread[s]  BY <1>2, <2>3
    <3>3. ClosedAreLeaving'
      <4>1. broken' = broken /\ ClosedAreLeaving  BY <1>6 DEF RoomInv
      <4>2. QED BY <1>2, <3>2, <4>1 DEF ClosedAreLeaving
    <3>4. ChannelsCloseOnce'  BY <1>6, <3>1 DEF RoomInv, ChannelsCloseOnce
    <3>5. QED BY <3>3, <3>4
  <2>10. DropsAreAlone'
    <3>1. ASSUME ~crowded', NEW s \in Threads \ {t}
          PROVE  ~(thread[s].step \in Casting /\ thread[s].in = thread[t].in)
      <4>1. ~(Cardinality(Readers(thread[t].in)) > 1)  BY <1>6, <3>1
      <4>2. IsFiniteSet(Readers(thread[t].in))
        <5>1. IsFiniteSet(Threads)  BY RoomAssumption, FS_Singleton, FS_Union DEF Threads
        <5>2. QED BY <5>1, FS_Subset DEF Readers
      <4>3. t \in Readers(thread[t].in)  BY <1>2 DEF Readers
      <4>4. ASSUME s \in Readers(thread[t].in) PROVE FALSE
        <5>1. {s, t} \subseteq Readers(thread[t].in) /\ IsFiniteSet({s, t})  BY <4>2, <4>3, <4>4, FS_Subset
        <5>2. Cardinality({s, t}) <= Cardinality(Readers(thread[t].in))  BY <4>2, <5>1, FS_Subset
        <5>3. Cardinality({s, t}) = 2
          <6>1. IsFiniteSet({s}) /\ Cardinality({s}) = 1  BY FS_Singleton
          <6>2. {s, t} = {s} \cup {t} /\ t \notin {s}  BY <3>1
          <6>3. Cardinality({s} \cup {t}) = Cardinality({s}) + 1
            BY <6>1, <6>2, FS_AddElement
          <6>4. QED BY <6>1, <6>2, <6>3
        <5>4. Cardinality(Readers(thread[t].in)) \in Nat  BY <4>2, FS_CardinalityType
        <5>5. QED BY <4>1, <5>2, <5>3, <5>4
      <4>5. QED BY <4>4 DEF Readers, Casting, Dropping
    <3>2. (crowded => crowded') /\ c \in inRoom'[w.in]  BY <1>2, <1>6, <2>2
    <3>3. ASSUME ~crowded', NEW s \in Threads \ {t}, thread[s].step \in Dropping
          PROVE  thread[s].target \in inRoom'[thread[s].in] /\ w.in # thread[s].in
      BY <1>2, <2>2, <3>1, <3>2, <3>3, Dropper DEF Casting
    <3>4. QED BY <2>1, <2>2, <3>1, <3>2, <3>3, AloneAfter
  <2>11. EntrantsAreExpected'  BY <1>1, <1>2, <2>2, <2>3 DEF RoomInv, EntrantsAreExpected
  <2>12. MembersAreServed'  BY <1>1, <2>3, <2>4, <1>2 DEF Present, RoomInv, MembersAreServed
  <2>13. QED BY <2>6, <2>7, <2>8, <2>9, <2>10, <2>11, <2>12 DEF RoomInv
<1>7. QED BY <1>4, <1>5, <1>6 DEF Deliver

\* The channel of the slow client is closed.
LEMMA CloseSlowRoom == ASSUME RoomInv, NEW t \in Threads, CloseSlow(t) PROVE RoomInv'
<1> DEFINE w == [thread[t] EXCEPT !.step = "delete"]
           c == thread[t].target
           r == thread[t].in
<1>1. Host \in Threads /\ Viewers \subseteq Threads  BY DEF Threads
<1>2. /\ thread' = [thread EXCEPT ![t] = w] /\ thread[t].step = "drop" /\ ~broken
      /\ broken' = (c \in sendClosed) /\ sendClosed' = sendClosed \cup {c}
      /\ UNCHANGED <<room, inRoom, buffered, chats, crowded, detached>>
  BY DEF CloseSlow, At, ThreadGoes
<1>3. /\ r \in Rooms /\ c \in Viewers /\ thread[t].then \in {"here", "gone", "close_room"}
      /\ thread[c].step \notin {"new", "insert"} /\ (~crowded => c \in inRoom[r])
      /\ \A q \in Rooms : c \in inRoom[q] => q = r
  BY <1>2, Dropper DEF Dropping
<1>4. /\ w \in ThreadRecords /\ w.step = "delete" /\ w.in = r /\ w.target = c
      /\ w.then = thread[t].then
  BY StepRecord DEF ThreadSteps
<1> HIDE DEF w
<1>5. \A s \in Threads : thread'[s] = IF s = t THEN w ELSE thread[s]  BY <1>2, ThreadTypes
<1>6. HasRoom(w) /\ (IsPresent(w) => Present(t))
  BY <1>2, <1>3, <1>4, RoomAssumption DEF HasRoom, IsPresent, Present, Casting, Dropping
<1>7. RoomTypes'  BY <1>2, <1>3, <1>4 DEF RoomInv, RoomTypes
<1>8. ThreadsFit'  BY <1>2, <1>3, <1>4, <1>6, FitsAfter DEF Dropping
<1>9. OneRoomEach'  BY <1>1, <1>2, <1>3, <1>4, <1>5 DEF RoomInv, OneRoomEach
<1>10. ChannelsCloseOnce'  BY <1>2, <1>3, BreakRoom DEF ChannelsCloseOnce
<1>11. ClosedAreLeaving'
  <2>1. SUFFICES ASSUME ~broken', NEW q \in Rooms, NEW d \in inRoom[q] \cap sendClosed'
                 PROVE  \E s \in Threads : /\ thread'[s].step = "delete"
                                           /\ thread'[s].target = d /\ thread'[s].in = q
    BY <1>2 DEF ClosedAreLeaving
  <2>2. CASE d = c
    <3>1. q = r  BY <1>3, <2>1, <2>2
    <3>2. QED BY <1>4, <1>5, <2>2, <3>1
  <2>3. CASE d # c  BY <1>2, <2>1, <2>3, <1>5 DEF RoomInv, ClosedAreLeaving
  <2>4. QED BY <2>2, <2>3
<1>12. DropsAreAlone'
  <2>1. ASSUME ~crowded, NEW s \in Threads \ {t}, thread[s].step \in Casting
        PROVE  thread[s].in # r
    BY <1>2, <2>1, Dropper DEF Dropping
  <2>2. ASSUME ~crowded, NEW s \in Threads \ {t}, thread[s].step \in Dropping
        PROVE  thread[s].target \in inRoom'[thread[s].in]
    BY <1>2, <2>2, Dropper
  <2>3. \A s \in Threads : thread[s].step \in Dropping => thread[s].step \in Casting  BY DEF Casting
  <2>4. QED BY <1>2, <1>3, <1>4, <2>1, <2>2, <2>3, AloneAfter
<1>13. EntrantsAreExpected'  BY <1>1, <1>2, <1>4, <1>5 DEF RoomInv, EntrantsAreExpected
<1>14. MembersAreServed'  BY <1>1, <1>5, <1>6, <1>2 DEF Present, RoomInv, MembersAreServed
<1>15. QED BY <1>7, <1>8, <1>9, <1>10, <1>11, <1>12, <1>13, <1>14 DEF RoomInv

\* The slow client is taken out of the room.
LEMMA DeleteSlowRoom == ASSUME RoomInv, NEW t \in Threads, DeleteSlow(t) PROVE RoomInv'
<1> DEFINE w == [thread[t] EXCEPT !.step = "cast"]
           c == thread[t].target
           r == thread[t].in
<1>1. Host \in Threads /\ Viewers \subseteq Threads  BY DEF Threads
<1>2. /\ thread' = [thread EXCEPT ![t] = w] /\ thread[t].step = "delete"
      /\ inRoom' = [inRoom EXCEPT ![r] = @ \ {c}]
      /\ UNCHANGED <<room, buffered, sendClosed, chats, broken, crowded, detached>>
  BY DEF DeleteSlow, At, ThreadGoes
<1>3. /\ r \in Rooms /\ c \in Viewers /\ thread[t].then \in {"here", "gone", "close_room"}
  BY <1>2, Dropper DEF Dropping
<1>4. /\ w \in ThreadRecords /\ w.step = "cast" /\ w.in = r /\ w.then = thread[t].then
  BY StepRecord DEF ThreadSteps
<1>5. c \in sendClosed  BY <1>2 DEF RoomInv, ThreadsFit
<1>6. inRoom \in [Rooms -> SUBSET Viewers]  BY DEF RoomInv, RoomTypes
<1> HIDE DEF w, r, c
<1>7. /\ \A s \in Threads : thread'[s] = IF s = t THEN w ELSE thread[s]
      /\ \A q \in Rooms : inRoom'[q] = IF q = r THEN inRoom[r] \ {c} ELSE inRoom[q]
  BY <1>2, <1>3, <1>6, ThreadTypes
<1>8. HasRoom(w) /\ (IsPresent(w) => Present(t))
  BY <1>2, <1>3, <1>4, RoomAssumption DEF HasRoom, IsPresent, Present, Casting, Dropping
<1>9. RoomTypes'  BY <1>2, <1>4, <1>6 DEF RoomInv, RoomTypes
<1>10. ThreadsFit'
  <2>1. \A q \in Rooms : \A d \in Viewers : d \in inRoom'[q] => d \in inRoom[q]  BY <1>7
  <2>2. QED BY <1>2, <1>4, <1>8, <2>1, FitsAfter DEF Dropping
<1>11. OneRoomEach'  BY <1>7, <1>1, <1>4, <1>2 DEF RoomInv, OneRoomEach
<1>12. ClosedAreLeaving'  BY <1>2, <1>7 DEF ClosedAreLeaving, RoomInv, c, r
<1>13. DropsAreAlone'
  <2>1. ASSUME ~crowded, NEW s \in Threads \ {t}, thread[s].step \in Dropping
        PROVE  thread[s].target \in inRoom'[thread[s].in] /\ thread[s].in # r
    BY <1>2, <2>1, Dropper, <1>7 DEF Dropping, Casting, r
  <2>2. QED BY <1>2, <1>4, <2>1, AloneAfter DEF Dropping
<1>14. EntrantsAreExpected'  BY <1>1, <1>2, <1>4, <1>7 DEF RoomInv, EntrantsAreExpected
<1>15. MembersAreServed'  BY <1>2, <1>1, <1>7, <1>8, <1>5 DEF MembersAreServed, Present, RoomInv, RoomTypes
<1>16. QED BY <1>2, <1>9, <1>10, <1>11, <1>12, <1>13, <1>14, <1>15 DEF RoomInv, ChannelsCloseOnce

\* Every step of the room's goroutines keeps the invariant.
LEMMA NextRoom == ASSUME RoomInv, [RoomNext]_roomVars PROVE RoomInv'
<1>1. CASE \E c \in Viewers : Tidy(c)  BY <1>1, DropRoomRoom DEF Tidy, At, Threads
<1>2. CASE CloseRoom  BY <1>2, DropRoomRoom DEF CloseRoom, At, Threads
<1>3. CASE \E c \in Viewers : \/ EnterHub(c) \/ EnterRoom(c) \/ LeaveRoom(c) \/ Drain(c)
  BY <1>3, EnterHubRoom, EnterRoomRoom, LeaveRoomRoom, DrainRoom
<1>4. CASE AnnounceEnd \/ \E c \in Viewers : Chat(c) \/ ReadFails(c) \/ FindRoom(c)
  <2>1. CASE AnnounceEnd  BY <2>1, AnnounceEndRoom
  <2>2. QED BY <1>4, <2>1, QuietRoom
<1>5. CASE \E t \in Threads : \/ BeginCast(t) \/ CloseSlow(t) \/ DeleteSlow(t) \/ EndCast(t)
                              \/ \E c \in Viewers : Deliver(t, c)
  BY <1>5, BeginCastRoom, CloseSlowRoom, DeleteSlowRoom, EndCastRoom, DeliverRoom
<1>6. CASE UNCHANGED roomVars
  <2>1. UNCHANGED <<room, inRoom, buffered, sendClosed, chats, broken, crowded, detached, thread>>
    BY <1>6 DEF roomVars, hubVars
  <2>2. RoomTypes' /\ ThreadsFit' /\ OneRoomEach' /\ ClosedAreLeaving' /\ ChannelsCloseOnce'
    BY <2>1 DEF RoomInv, RoomTypes, ThreadsFit, HasRoom, OneRoomEach, ClosedAreLeaving, ChannelsCloseOnce
  <2>3. DropsAreAlone' /\ EntrantsAreExpected' /\ MembersAreServed'
    BY <2>1 DEF RoomInv, DropsAreAlone, Readers, EntrantsAreExpected, MembersAreServed, Present, IsPresent
  <2>4. QED BY <2>2, <2>3 DEF RoomInv
<1>7. QED BY <1>1, <1>2, <1>3, <1>4, <1>5, <1>6 DEF RoomNext

\* The room's invariant is inductive.
LEMMA RoomInductive == RoomSpec => []RoomInv
BY InitRoom, NextRoom, PTL DEF RoomSpec

\* The room's variables keep their types, and a closed connection that is still in a room
\* is being taken out of it, for any viewers and rooms and any length of the channels.
THEOREM RoomTypesHold == RoomSpec => []RoomTypeOK
<1>1. RoomInv => RoomTypeOK  BY DEF RoomInv, RoomTypes, ClosedAreLeaving, RoomTypeOK
<1>2. QED BY <1>1, RoomInductive, PTL

\* No channel is closed twice or sent to after it was closed unless two broadcasts crowded
\* in a room, and nobody who was announced sits in a room the hub does not know.
THEOREM RoomsAlwaysServe == RoomSpec => []RoomsServeTheirViewers
<1>1. ASSUME RoomInv PROVE NobodyIsStranded
  BY <1>1 DEF Present, IsPresent, RoomInv, MembersAreServed, NobodyIsStranded
<1>2. RoomInv => RoomsServeTheirViewers  BY <1>1 DEF RoomInv, RoomsServeTheirViewers
<1>3. QED BY <1>2, RoomInductive, PTL

--------
\* The conversations of the deployed backend (DirectMessages).

DMTypes ==
    /\ tap \in [Taps -> TapRecords] /\ talks \subseteq Talks
    /\ members \in [Talks -> SUBSET Folks]
    /\ messages \subseteq [id : Taps, talk : Talks, by : Folks]
    /\ dmFaults \in 0..MaxDMFaults

\* What a request has in hand: somebody to talk to, a conversation still without members, one it
\* was given, or one its user is in.
Seeking(q) == tap[q].step \in {"create", "join"}
Seated(q) == tap[q].step \in {"send", "read", "sent", "shown"}
TapsFit ==
    \A q \in Taps :
        /\ Seeking(q) => tap[q].by \in Folks /\ tap[q].with \in Folks /\ tap[q].by # tap[q].with
        /\ tap[q].step = "join" => tap[q].talk \in talks /\ members[tap[q].talk] = {}
        /\ Seated(q) => tap[q].talk \in Talks /\ tap[q].by \in members[tap[q].talk]
        /\ tap[q].step = "handed" /\ dmFaults = 0 =>
              tap[q].talk \in Talks /\ members[tap[q].talk] = Parties(q)

\* A conversation has no members or two, one request inserts them ...
TalksFit ==
    /\ \A k \in Talks : members[k] # {} =>
          k \in talks /\ \E u, w \in Folks : u # w /\ members[k] = {u, w}
    /\ \A p, q \in Taps : tap[p].step = "join" /\ tap[q].step = "join" /\ tap[p].talk = tap[q].talk
          => p = q
    /\ \A n \in messages : n.by \in members[n.talk]

\* ... and whoever seeks one for a pair that did not race is alone, and the pair has none yet.
PairsFit ==
    /\ \A p, q \in Taps : Seeking(p) /\ Seeking(q) /\ Parties(p) = Parties(q) =>
          p = q \/ Parties(q) \in pairsRaced
    /\ \A q \in Taps : Seeking(q) /\ Parties(q) \notin pairsRaced =>
          \A k \in Talks : members[k] # Parties(q)
    /\ \A k, l \in Talks : members[k] = members[l] /\ members[k] # {} =>
          k = l \/ members[k] \in pairsRaced

DMInv == DMTypes /\ TapsFit /\ TalksFit /\ PairsFit

\* The conversations fit at first.
LEMMA InitDM == DMInit => DMInv
  <1> SUFFICES ASSUME DMInit PROVE DMInv  OBVIOUS
  <1>1. IdleTap \in TapRecords /\ IdleTap.step = "idle"  BY DEF IdleTap, TapRecords, TapSteps
  <1>2. DMTypes  BY <1>1, DirectMessagesAssumption DEF DMInit, DMTypes
  <1>3. \A q \in Taps : tap[q].step = "idle"  BY <1>1 DEF DMInit
  <1>4. \A k \in Talks : members[k] = {}  BY DEF DMInit
  <1>5. messages = {}  BY DEF DMInit
  <1> QED BY <1>2, <1>3, <1>4, <1>5 DEF DMInv, TapsFit, TalksFit, PairsFit, Seeking, Seated

\* A request that finds, or enters, or goes on, while conversations and members stay.
LEMMA TapMoves ==
    ASSUME DMInv, NEW q \in Taps, NEW new \in TapRecords, tap' = [tap EXCEPT ![q] = new],
           UNCHANGED <<talks, members>>, dmFaults' \in 0..MaxDMFaults, dmFaults <= dmFaults',
           messages' \subseteq [id : Taps, talk : Talks, by : Folks],
           \A n \in messages' : n.by \in members[n.talk],
           pairsRaced \subseteq pairsRaced',
           new.step # "join",
           new.step \in {"send", "read", "sent", "shown"}
              => new.talk \in Talks /\ new.by \in members[new.talk],
           new.step = "handed" /\ dmFaults' = 0 =>
              new.talk \in Talks /\ members[new.talk] = {new.by, new.with},
           new.step = "create" =>
              /\ new.by \in Folks /\ new.with \in Folks /\ new.by # new.with
              /\ \A p \in Taps \ {q} : Seeking(p) /\ Parties(p) = {new.by, new.with}
                    => Parties(p) \in pairsRaced'
              /\ \A k \in Talks : members[k] = {new.by, new.with} => members[k] \in pairsRaced'
    PROVE  DMInv'
  <1>1. tap'[q] = new /\ \A p \in Taps \ {q} : tap'[p] = tap[p]  BY DEF DMInv, DMTypes
  <1>2. DMTypes'  BY DEF DMInv, DMTypes
  <1>3. dmFaults' = 0 => dmFaults = 0  BY DEF DMInv, DMTypes
  <1>4. TapsFit'  BY <1>1, <1>3 DEF TapsFit, Parties, Seeking, Seated, DMInv
  <1>5. TalksFit'  BY <1>1 DEF DMInv, TalksFit
  <1>6. ASSUME NEW p \in Taps, p # q
        PROVE  (Seeking(p)' <=> Seeking(p)) /\ Parties(p)' = Parties(p)
    BY <1>1, <1>6 DEF Seeking, Parties
  <1>7. Parties(q)' = {new.by, new.with} /\ (Seeking(q)' => new.step = "create")  BY <1>1 DEF Parties, Seeking
  <1>8. PairsFit'  BY <1>6, <1>7 DEF DMInv, PairsFit
  <1> QED BY <1>2, <1>4, <1>5, <1>8 DEF DMInv

\* The record of a request that goes to another step.
LEMMA TapRecord ==
    ASSUME DMInv, NEW q \in Taps, NEW step \in TapSteps, TapGoes(q, step)
    PROVE  \E new \in TapRecords :
              /\ tap' = [tap EXCEPT ![q] = new] /\ new.step = step
              /\ new.by = tap[q].by /\ new.with = tap[q].with /\ new.talk = tap[q].talk
  <1> DEFINE new == [tap[q] EXCEPT !.step = step]
  <1>1. tap[q] \in TapRecords  BY DEF DMInv, DMTypes
  <1>2. new \in TapRecords  BY <1>1 DEF TapRecords
  <1>3. tap' = [tap EXCEPT ![q] = new]  BY DEF TapGoes
  <1>4. new.step = step /\ new.by = tap[q].by /\ new.with = tap[q].with /\ new.talk = tap[q].talk
    BY <1>1 DEF TapRecords
  <1> QED BY <1>2, <1>3, <1>4

\* A statement fails, or none does.
LEMMA DMFaultsStay ==
    ASSUME DMInv, DMFault \/ NoDMFault \/ UNCHANGED dmFaults
    PROVE  dmFaults' \in 0..MaxDMFaults /\ dmFaults <= dmFaults'
  BY DirectMessagesAssumption DEF DMFault, NoDMFault, DMInv, DMTypes

\* Messages that stay are their members'.
LEMMA MessagesStay ==
    ASSUME DMInv, UNCHANGED messages
    PROVE  /\ messages' \subseteq [id : Taps, talk : Talks, by : Folks]
           /\ \A n \in messages' : n.by \in members[n.talk]
  BY DEF DMInv, DMTypes, TalksFit

\* A request fails, or ends early.
LEMMA FailsDM ==
    ASSUME DMInv, NEW q \in Taps, TapGoes(q, "failed"), UNCHANGED <<talks, members, messages, pairsRaced>>,
           DMFault
    PROVE  DMInv'
  <1>1. PICK new \in TapRecords : tap' = [tap EXCEPT ![q] = new] /\ new.step = "failed"
    BY TapRecord DEF TapSteps
  <1>2. dmFaults' \in 0..MaxDMFaults /\ dmFaults <= dmFaults'
    BY DirectMessagesAssumption DEF DMFault, DMInv, DMTypes
  <1> QED BY <1>1, <1>2, TapMoves DEF DMInv, DMTypes, TalksFit

\* Finding a conversation, or that there is none.
LEMMA FindDM ==
    ASSUME DMInv, NEW q \in Taps, NEW u \in Folks, NEW w \in Folks, FindConversation(q, u, w)
    PROVE  DMInv'
  <1>1. /\ u # w /\ UNCHANGED <<talks, members, messages>>
        /\ DMFault \/ NoDMFault
    BY DEF FindConversation
  <1>2. pairsRaced' = IF \E p \in Taps : Seeking(p) /\ Parties(p) = {u, w}
                      THEN pairsRaced \cup {{u, w}} ELSE pairsRaced
    BY DEF FindConversation, Seeking
  <1>3. /\ dmFaults' \in 0..MaxDMFaults /\ dmFaults <= dmFaults' /\ pairsRaced \subseteq pairsRaced'
        /\ messages' \subseteq [id : Taps, talk : Talks, by : Folks]
        /\ \A n \in messages' : n.by \in members[n.talk]
    BY <1>1, <1>2, DMFaultsStay, MessagesStay
  <1>4. ASSUME NEW k \in TalksOf(u, w),
               tap' = [tap EXCEPT ![q] = [step |-> "handed", by |-> u, with |-> w, talk |-> k]]
        PROVE  DMInv'
    <2>1. k \in Talks /\ members[k] = {u, w}  BY <1>1 DEF TalksOf, DMInv, DMTypes, TalksFit
    <2>2. PICK new \in TapRecords :
             /\ tap' = [tap EXCEPT ![q] = new] /\ new.step = "handed" /\ new.by = u /\ new.with = w
             /\ new.talk = k
      <3> DEFINE rec == [step |-> "handed", by |-> u, with |-> w, talk |-> k]
      <3>1. rec \in TapRecords  BY <2>1 DEF TapRecords, TapSteps
      <3>2. rec.step = "handed" /\ rec.by = u /\ rec.with = w /\ rec.talk = k  OBVIOUS
      <3>3. tap' = [tap EXCEPT ![q] = rec]  BY <1>4
      <3> HIDE DEF rec
      <3> QED BY <3>1, <3>2, <3>3
    <2> QED BY <1>1, <1>3, <2>1, <2>2, TapMoves
  <1>5. ASSUME TalksOf(u, w) = {},
               tap' = [tap EXCEPT ![q] = [step |-> "create", by |-> u, with |-> w, talk |-> Nobody]]
        PROVE  DMInv'
    <2>1. \A k \in Talks : members[k] # {u, w}  BY <1>5 DEF TalksOf, DMInv, TalksFit
    <2>2. PICK new \in TapRecords :
             /\ tap' = [tap EXCEPT ![q] = new] /\ new.step = "create" /\ new.by = u /\ new.with = w
      <3> DEFINE rec == [step |-> "create", by |-> u, with |-> w, talk |-> Nobody]
      <3>1. rec \in TapRecords  BY DEF TapRecords, TapSteps
      <3>2. rec.step = "create" /\ rec.by = u /\ rec.with = w  OBVIOUS
      <3>3. tap' = [tap EXCEPT ![q] = rec]  BY <1>5
      <3> HIDE DEF rec
      <3> QED BY <3>1, <3>2, <3>3
    <2>3. \A p \in Taps \ {q} : Seeking(p) /\ Parties(p) = {u, w} => Parties(p) \in pairsRaced'  BY <1>2
    <2> QED BY <1>1, <1>3, <2>1, <2>2, <2>3, TapMoves
  <1>6. ASSUME DMFault,
               tap' = [tap EXCEPT ![q] = [step |-> "handed", by |-> u, with |-> w, talk |-> Nobody]]
        PROVE  DMInv'
    <2>1. PICK new \in TapRecords : tap' = [tap EXCEPT ![q] = new] /\ new.step = "handed"
      <3> DEFINE rec == [step |-> "handed", by |-> u, with |-> w, talk |-> Nobody]
      <3>1. rec \in TapRecords /\ rec.step = "handed"  BY DEF TapRecords, TapSteps
      <3>2. tap' = [tap EXCEPT ![q] = rec]  BY <1>6
      <3> HIDE DEF rec
      <3> QED BY <3>1, <3>2
    <2>2. dmFaults' # 0  BY <1>6 DEF DMFault, DMInv, DMTypes
    <2> QED BY <1>1, <1>3, <2>1, <2>2, TapMoves
  <1> QED BY <1>4, <1>5, <1>6 DEF FindConversation

\* Creating a conversation without members yet.
LEMMA CreateDM == ASSUME DMInv, NEW q \in Taps, CreateConversation(q) PROVE DMInv'
  <1>1. UNCHANGED <<members, messages, pairsRaced>> /\ tap[q].step = "create"  BY DEF CreateConversation
  <1>2. CASE UNCHANGED talks /\ TapGoes(q, "failed") /\ DMFault  BY <1>1, <1>2, FailsDM
  <1>3. ASSUME NEW k \in Talks \ talks, talks' = talks \cup {k}, NoDMFault,
               tap' = [tap EXCEPT ![q].step = "join", ![q].talk = k]
        PROVE  DMInv'
    <2>1. tap[q] \in TapRecords /\ dmFaults' = dmFaults  BY <1>3 DEF DMInv, DMTypes, NoDMFault
    <2>2. tap'[q] = [tap[q] EXCEPT !.step = "join", !.talk = k]  BY <1>3 DEF DMInv, DMTypes
    <2>3. /\ tap'[q].step = "join" /\ tap'[q].talk = k /\ tap'[q].by = tap[q].by
          /\ tap'[q].with = tap[q].with
      BY <2>1, <2>2 DEF TapRecords
    <2>4. \A p \in Taps \ {q} : tap'[p] = tap[p]  BY <1>3 DEF DMInv, DMTypes
    <2>5. tap' \in [Taps -> TapRecords]  BY <1>3, <2>1 DEF DMInv, DMTypes, TapRecords, TapSteps
    <2>6. members[k] = {} /\ k \in Talks  BY <1>3 DEF DMInv, TalksFit
    <2>7. \A p \in Taps : (Seeking(p)' <=> Seeking(p)) /\ Parties(p)' = Parties(p)
      BY <1>1, <2>3, <2>4 DEF Seeking, Parties
    <2>8. DMTypes'  BY <1>1, <1>3, <2>1, <2>5 DEF DMInv, DMTypes
    <2>9. TapsFit'
      <3>1. SUFFICES ASSUME NEW p \in Taps
                     PROVE  /\ Seeking(p)' => tap'[p].by \in Folks /\ tap'[p].with \in Folks /\ tap'[p].by # tap'[p].with
                            /\ tap'[p].step = "join" => tap'[p].talk \in talks' /\ members[tap'[p].talk] = {}
                            /\ Seated(p)' => tap'[p].talk \in Talks /\ tap'[p].by \in members[tap'[p].talk]
                            /\ tap'[p].step = "handed" /\ dmFaults' = 0
                                  => tap'[p].talk \in Talks /\ members[tap'[p].talk] = {tap'[p].by, tap'[p].with}
        BY <1>1 DEF TapsFit, Parties
      <3>2. CASE p = q
        <4>1. tap[q].by \in Folks /\ tap[q].with \in Folks /\ tap[q].by # tap[q].with
          BY <1>1 DEF DMInv, TapsFit, Seeking
        <4>2. k \in talks'  BY <1>3
        <4> QED BY <2>3, <2>6, <3>2, <4>1, <4>2 DEF Seated
      <3>3. CASE p # q
        <4>1. tap'[p] = tap[p] /\ dmFaults' = dmFaults /\ talks \subseteq talks'  BY <1>3, <2>1, <2>4, <3>3
        <4>2. /\ Seeking(p)' <=> Seeking(p)
              /\ Seated(p)' <=> Seated(p)
          BY <4>1 DEF Seeking, Seated
        <4>3. /\ Seeking(p) => tap[p].by \in Folks /\ tap[p].with \in Folks /\ tap[p].by # tap[p].with
              /\ tap[p].step = "join" => tap[p].talk \in talks /\ members[tap[p].talk] = {}
              /\ Seated(p) => tap[p].talk \in Talks /\ tap[p].by \in members[tap[p].talk]
              /\ tap[p].step = "handed" /\ dmFaults = 0
                    => tap[p].talk \in Talks /\ members[tap[p].talk] = {tap[p].by, tap[p].with}
          BY DEF DMInv, TapsFit, Parties
        <4> QED BY <4>1, <4>2, <4>3
      <3> QED BY <3>2, <3>3
    <2>10. TalksFit'
      <3>1. \A p \in Taps \ {q} : tap'[p].step = "join" => tap'[p].talk # k
        <4>1. \A p \in Taps : tap[p].step = "join" => tap[p].talk \in talks  BY DEF DMInv, TapsFit
        <4>2. k \notin talks  BY <1>3
        <4> QED BY <2>4, <4>1, <4>2
      <3>2. \A p, t \in Taps : tap'[p].step = "join" /\ tap'[t].step = "join"
               /\ tap'[p].talk = tap'[t].talk => p = t
        BY <2>3, <2>4, <3>1 DEF DMInv, TalksFit
      <3> QED BY <1>1, <1>3, <3>2 DEF DMInv, TalksFit
    <2>11. PairsFit'  BY <1>1, <2>7 DEF DMInv, PairsFit
    <2> QED BY <2>8, <2>9, <2>10, <2>11 DEF DMInv
  <1> QED BY <1>2, <1>3 DEF CreateConversation

\* The two members come in.
LEMMA JoinDM == ASSUME DMInv, NEW q \in Taps, InsertMembers(q) PROVE DMInv'
  <1>1. /\ UNCHANGED <<talks, messages, pairsRaced>> /\ tap[q].step = "join"
        /\ TapGoes(q, "handed")
    BY DEF InsertMembers
  <1>2. PICK new \in TapRecords :
           /\ tap' = [tap EXCEPT ![q] = new] /\ new.step = "handed"
           /\ new.by = tap[q].by /\ new.with = tap[q].with /\ new.talk = tap[q].talk
    BY <1>1, TapRecord DEF TapSteps
  <1>3. tap[q].talk \in talks /\ tap[q].talk \in Talks /\ members[tap[q].talk] = {}
    BY <1>1 DEF DMInv, TapsFit, DMTypes
  <1>4. CASE UNCHANGED members /\ DMFault
    <2>1. dmFaults' \in 0..MaxDMFaults /\ dmFaults <= dmFaults' /\ dmFaults' # 0
      BY <1>4, DirectMessagesAssumption DEF DMFault, DMInv, DMTypes
    <2> QED BY <1>1, <1>2, <1>3, <1>4, <2>1, TapMoves DEF DMInv, DMTypes, TalksFit
  <1>5. CASE members' = [members EXCEPT ![tap[q].talk] = Parties(q)] /\ NoDMFault
    <2>1. PICK k \in Talks : k = tap[q].talk  BY <1>3
    <2>p. tap[q].by \in Folks /\ tap[q].with \in Folks /\ tap[q].by # tap[q].with
      BY <1>1 DEF DMInv, TapsFit, Seeking
    <2>2. PICK P \in SUBSET Folks : P = Parties(q) /\ P # {}
                 /\ P = {tap[q].by, tap[q].with} /\ \E u, w \in Folks : u # w /\ P = {u, w}  BY <2>p DEF Parties
    <2>3. /\ members' = [members EXCEPT ![k] = P] /\ members[k] = {} /\ dmFaults' = dmFaults
          /\ k \in talks
      BY <1>3, <1>5, <2>1, <2>2 DEF NoDMFault
    <2>4. members'[k] = P /\ \A l \in Talks \ {k} : members'[l] = members[l]  BY <2>3 DEF DMInv, DMTypes
    <2>5. tap'[q] = new /\ \A p \in Taps \ {q} : tap'[p] = tap[p]  BY <1>2 DEF DMInv, DMTypes
    <2>6. DMTypes'  BY <1>1, <1>2, <2>2, <2>3 DEF DMInv, DMTypes
    <2>7. \A l \in Talks : members[l] \subseteq members'[l]  BY <2>3, <2>4
    <2>8. \A p \in Taps \ {q} : tap[p].step = "join" => tap[p].talk # k  BY <1>1, <2>1 DEF DMInv, TalksFit
    <2>9. TapsFit'
      <3>1. SUFFICES ASSUME NEW p \in Taps
                     PROVE  /\ Seeking(p)' => tap'[p].by \in Folks /\ tap'[p].with \in Folks /\ tap'[p].by # tap'[p].with
                            /\ tap'[p].step = "join" => tap'[p].talk \in talks /\ members'[tap'[p].talk] = {}
                            /\ Seated(p)' => tap'[p].talk \in Talks /\ tap'[p].by \in members'[tap'[p].talk]
                            /\ tap'[p].step = "handed" /\ dmFaults' = 0
                                  => tap'[p].talk \in Talks /\ members'[tap'[p].talk] = {tap'[p].by, tap'[p].with}
        BY <1>1 DEF TapsFit, Parties
      <3>2. CASE p = q  BY <1>2, <2>1, <2>2, <2>4, <2>5, <3>2 DEF Seeking, Seated
      <3>3. CASE p # q
        BY <2>5, <3>3, <2>3, <2>8, <2>7, <2>4 DEF DMInv, TapsFit, Parties, DMTypes, Seeking, Seated
      <3> QED BY <3>2, <3>3
    <2>10. TalksFit'  BY <2>2, <2>3, <2>4, <1>2, <2>5, <2>7, <1>1 DEF DMInv, TalksFit, DMTypes
    <2>11. PairsFit'
      <3>1. \A p \in Taps \ {q} : (Seeking(p)' <=> Seeking(p)) /\ Parties(p)' = Parties(p)
        BY <2>5 DEF Seeking, Parties
      <3>2. ~Seeking(q)' /\ Seeking(q)  BY <1>1, <1>2, <2>5 DEF Seeking
      <3>3. \A p, t \in Taps : Seeking(p)' /\ Seeking(t)' /\ Parties(p)' = Parties(t)'
               => p = t \/ Parties(t)' \in pairsRaced
        BY <3>1, <3>2 DEF DMInv, PairsFit
      <3>4. ASSUME NEW p \in Taps, Seeking(p)', Parties(p)' \notin pairsRaced, NEW l \in Talks
            PROVE  members'[l] # Parties(p)'
        <4>1. p # q /\ Seeking(p) /\ Parties(p)' = Parties(p)  BY <3>1, <3>2, <3>4
        <4>2. Parties(p) # P  BY <2>2, <3>2, <3>4, <4>1 DEF DMInv, PairsFit
        <4>3. members[l] # Parties(p)  BY <3>4, <4>1 DEF DMInv, PairsFit
        <4> QED BY <2>4, <4>1, <4>2, <4>3
      <3>5. ASSUME NEW l \in Talks, NEW m \in Talks, members'[l] = members'[m], members'[l] # {}
            PROVE  l = m \/ members'[l] \in pairsRaced  BY <2>2, <3>2, <2>4, <3>5 DEF DMInv, PairsFit
      <3> QED BY <1>1, <3>3, <3>4, <3>5 DEF PairsFit
    <2> QED BY <2>6, <2>9, <2>10, <2>11 DEF DMInv
  <1> QED BY <1>4, <1>5 DEF InsertMembers

\* Every step keeps the conversations fit.
LEMMA NextDM == DMInv /\ [DMNext]_dmVars => DMInv'
  <1> SUFFICES ASSUME DMInv, [DMNext]_dmVars PROVE DMInv'  OBVIOUS
  <1>1. CASE UNCHANGED dmVars
    BY <1>1 DEF dmVars, DMInv, DMTypes, TapsFit, TalksFit, PairsFit, Seeking, Seated, Parties
  <1>2. ASSUME NEW q \in Taps, NEW u \in Folks, NEW k \in Talks, NEW step \in {"send", "read"},
               Enter(q, u, k, step)
        PROVE  DMInv'
    <2> DEFINE s == IF u \in members[k] THEN step ELSE "refused"
    <2>1. UNCHANGED <<talks, members, messages, dmFaults, pairsRaced>>
            /\ tap' = [tap EXCEPT ![q] = [step |-> s, by |-> u, with |-> Nobody, talk |-> k]]
      BY <1>2 DEF Enter
    <2>2. s \in {"send", "read", "refused"} /\ (s # "refused" => u \in members[k])  OBVIOUS
    <2> HIDE DEF s
    <2>3. PICK new \in TapRecords :
             /\ tap' = [tap EXCEPT ![q] = new] /\ new.step = s /\ new.by = u /\ new.talk = k
      <3> DEFINE rec == [step |-> s, by |-> u, with |-> Nobody, talk |-> k]
      <3>1. rec \in TapRecords  BY <2>2 DEF TapRecords, TapSteps
      <3>2. rec.step = s /\ rec.by = u /\ rec.talk = k  OBVIOUS
      <3>3. tap' = [tap EXCEPT ![q] = rec]  BY <2>1
      <3> HIDE DEF rec
      <3> QED BY <3>1, <3>2, <3>3
    <2>4. new.step \in {"send", "read", "sent", "shown"}
             => new.talk \in Talks /\ new.by \in members[new.talk]
      BY <2>2, <2>3
    <2>5. new.step \notin {"join", "handed", "create"}  BY <2>2, <2>3
    <2> QED BY <2>1, <2>3, <2>4, <2>5, DMFaultsStay, MessagesStay, TapMoves
  <1>3. ASSUME NEW q \in Taps, SendMessage(q) PROVE DMInv'
    BY <1>3, FailsDM, TapRecord, DMFaultsStay, TapMoves DEF SendMessage, TapSteps, DMInv, TapsFit, Seated,
       DMTypes, TalksFit
  <1>4. ASSUME NEW q \in Taps, GetMessages(q) PROVE DMInv'
    BY <1>4, TapRecord, DMFaultsStay, MessagesStay, TapMoves DEF GetMessages, TapSteps, DMInv, TapsFit, Seated
  <1>5. ASSUME NEW q \in Taps, TapEndsEarly(q) PROVE DMInv'  BY <1>5, FailsDM DEF TapEndsEarly
  <1> QED BY <1>1, <1>2, <1>3, <1>4, <1>5, FindDM, CreateDM, JoinDM DEF DMNext

\* A set with one element at most.
LEMMA AtMostOne ==
    ASSUME NEW S, \A x, y \in S : x = y
    PROVE  Cardinality(S) <= 1
  <1>1. CASE S = {}  BY <1>1, FS_EmptySet
  <1>2. ASSUME NEW x \in S PROVE Cardinality(S) <= 1
    <2>1. S = {x}  OBVIOUS
    <2> QED BY <2>1, FS_Singleton
  <1> QED BY <1>1, <1>2

\* What the invariant of the conversations says of the properties.
LEMMA ChatsFollow == DMInv => DMTypeOK /\ ChatsBelongToTheirTwo
  <1> SUFFICES ASSUME DMInv PROVE DMTypeOK /\ ChatsBelongToTheirTwo  OBVIOUS
  <1>1. ASSUME NEW k \in Talks, members[k] # {} PROVE k \in talks /\ Cardinality(members[k]) = 2
    <2>1. PICK u, w \in Folks : u # w /\ members[k] = {u, w}  BY <1>1 DEF DMInv, TalksFit
    <2>2. IsFiniteSet({u}) /\ Cardinality({u}) = 1  BY FS_Singleton
    <2>3. Cardinality({u} \cup {w}) = 2
      <3>1. w \notin {u}  BY <2>1
      <3>2. Cardinality({u} \cup {w}) = Cardinality({u}) + 1  BY <2>2, <3>1, FS_AddElement, Zenon
      <3> QED BY <2>2, <3>2
    <2>4. members[k] = {u} \cup {w}  BY <2>1
    <2> QED BY <1>1, <2>3, <2>4 DEF DMInv, TalksFit
  <1>2. DMTypeOK  BY <1>1 DEF DMInv, DMTypes, DMTypeOK
  <1>3. OneConversationPerPair  BY AtMostOne DEF OneConversationPerPair, DMInv, PairsFit
  <1>4. HandedOutIsUsable  BY DEF HandedOutIsUsable, DMInv, TapsFit
  <1>5. OnlyPartiesTalk  BY DEF OnlyPartiesTalk, DMInv, TapsFit, TalksFit, Seated
  <1> QED BY <1>2, <1>3, <1>4, <1>5 DEF ChatsBelongToTheirTwo, OneUsableConversation

--------
\* A live stream, its copy and its publisher (LiveStreams).

StreamTypes ==
    /\ stream \in StreamStatuses \cup {NoStream} /\ meta \in StreamStatuses \cup {NoStream}
    /\ keyIndex \in BOOLEAN /\ rtmpSession \in Staff \cup {NoSession}
    /\ staffCall \in [Staff -> CallRows]
    /\ staleRead \in BOOLEAN /\ racedIn \in BOOLEAN /\ streamFaults \in 0..MaxStreamFaults

\* What a method does at which step.
MethodFits(w) ==
    /\ w.step \in {"check", "register", "run", "deregister"} => w.method = "publish"
    /\ w.step \in {"create", "index"} => w.method = "start"

\* The listed session is there; of publishers that were not let in at once one is past the check.
PublisherFits ==
    /\ rtmpSession # NoSession => Publishing(rtmpSession)
    /\ ~racedIn =>
          /\ \A c \in Staff : Publishing(c) => rtmpSession = c
          /\ \A c \in Staff : In(c, "register") => rtmpSession = NoSession
          /\ \A c, d \in Staff : In(c, "register") /\ In(d, "register") => c = d

\* A stream is created once, and before that nobody has a use for it.
BeforeItExists ==
    /\ \A c, d \in Staff : staffCall[c].method = "start" /\ staffCall[d].method = "start" => c = d
    /\ \A c \in Staff : In(c, "create") => stream = NoStream
    /\ stream = NoStream =>
          meta = NoStream /\ \A c \in Staff : staffCall[c].step \in {"new", "create", "done"}

\* Whoever is about to cache a row that is no longer that has been noticed.
ReadsAreFresh == ~staleRead => \A c \in Holders : staffCall[c].saw = stream

StreamInv == /\ StreamTypes /\ (\A c \in Staff : MethodFits(staffCall[c])) /\ PublisherFits
             /\ BeforeItExists /\ ReadsAreFresh /\ CacheIsTrue

\* The stream fits at first.
LEMMA InitStream == StreamInit => StreamInv
  <1> SUFFICES ASSUME StreamInit PROVE StreamInv  OBVIOUS
  <1>1. StreamTypes
    <2>1. [method |-> NoSession, step |-> "new", saw |-> NoStream] \in CallRows  BY DEF CallRows, StaffSteps
    <2>2. staffCall \in [Staff -> CallRows]  BY <2>1 DEF StreamInit
    <2> QED
      <3>1. keyIndex \in BOOLEAN /\ staleRead \in BOOLEAN /\ racedIn \in BOOLEAN  BY Zenon DEF StreamInit
      <3> QED BY <2>2, <3>1, StreamAssumption DEF StreamInit, StreamTypes, StreamStatuses, NoStream
  <1>2. \A c \in Staff : staffCall[c].step = "new" /\ staffCall[c].method = "nobody"
    BY DEF StreamInit, NoSession
  <1>3. rtmpSession = NoSession /\ meta = stream  BY DEF StreamInit
  <1> QED
    BY <1>1, <1>2, <1>3 DEF StreamInv, MethodFits, PublisherFits, BeforeItExists, ReadsAreFresh,
       CacheIsTrue, Publishing, In, Holders

\* A step of one caller: where it goes, which method it runs and what it has read.
Goes(c, step, method, saw) ==
    /\ staffCall' \in [Staff -> CallRows]
    /\ staffCall'[c].step = step /\ staffCall'[c].method = method /\ staffCall'[c].saw = saw
    /\ \A d \in Staff \ {c} : staffCall'[d] = staffCall[d]

\* The step of a caller that goes on, and of one that begins.
LEMMA GoesOn ==
    ASSUME staffCall \in [Staff -> CallRows], NEW c \in Staff, NEW step \in StaffSteps,
           staffCall' = [staffCall EXCEPT ![c].step = step]
    PROVE  Goes(c, step, staffCall[c].method, staffCall[c].saw)
  <1>1. staffCall[c] \in CallRows  OBVIOUS
  <1>2. [staffCall[c] EXCEPT !.step = step] \in CallRows  BY <1>1 DEF CallRows
  <1> QED BY <1>1, <1>2 DEF Goes, CallRows

\* The same for one that reads.
LEMMA GoesOnReading ==
    ASSUME staffCall \in [Staff -> CallRows], NEW c \in Staff, NEW step \in StaffSteps,
           NEW saw \in StreamStatuses \cup {NoStream},
           staffCall' = [staffCall EXCEPT ![c].step = step, ![c].saw = saw]
    PROVE  Goes(c, step, staffCall[c].method, saw)
  <1>1. staffCall[c] \in CallRows  OBVIOUS
  <1>2. [staffCall[c] EXCEPT !.step = step, !.saw = saw] \in CallRows  BY <1>1 DEF CallRows
  <1> QED BY <1>1, <1>2 DEF Goes, CallRows

\* The same for one that begins.
LEMMA GoesIn ==
    ASSUME staffCall \in [Staff -> CallRows], stream \in StreamStatuses \cup {NoStream}, NEW c \in Staff,
           NEW step \in StaffSteps, NEW method \in StaffMethods, Begin(c, method, step)
    PROVE  In(c, "new") /\ Goes(c, step, method, stream)
  <1> DEFINE rec == [method |-> method, step |-> step, saw |-> stream]
  <1>1. rec \in CallRows /\ rec.method = method /\ rec.step = step /\ rec.saw = stream  BY DEF CallRows
  <1>2. staffCall' = [staffCall EXCEPT ![c] = rec]  BY DEF Begin
  <1> HIDE DEF rec
  <1> QED BY <1>1, <1>2 DEF Goes, Begin


\* A step of one caller that leaves the row, the publishers and what was noticed as they are.
LEMMA QuietStep ==
    ASSUME StreamInv, NEW c \in Staff, NEW step, NEW method, NEW saw, Goes(c, step, method, saw),
           UNCHANGED <<stream, rtmpSession, racedIn, staleRead>>,
           keyIndex' \in BOOLEAN, meta' \in StreamStatuses \cup {NoStream},
           streamFaults' \in 0..MaxStreamFaults, streamFaults <= streamFaults',
           step \in {"check", "run", "deregister"} => method = "publish",
           step = "index" => method = "start",
           step \notin {"register", "create"}, method = "start" => staffCall[c].method = "start",
           Publishing(c)' <=> Publishing(c),
           stream = NoStream => step = "done" /\ meta' = NoStream,
           step \in {"index", "fill"} => saw = stream \/ (c \in Holders /\ saw = staffCall[c].saw),
           \/ meta' = NoStream
           \/ In(c, "fill") /\ meta' = staffCall[c].saw
           \/ meta' = meta /\ (streamFaults' > 0 \/ (~In(c, "del") /\ ~In(c, "fill")))
    PROVE  StreamInv'
  <1>1. StreamTypes /\ StreamTypes'  BY StreamAssumption DEF StreamInv, StreamTypes, Goes
  <1>2. \A d \in Staff : MethodFits(staffCall[d])'  BY DEF StreamInv, Goes, MethodFits
  <1>3. PublisherFits'
    BY <1>1, StreamAssumption DEF Goes, Publishing, In, StreamInv, PublisherFits, StreamTypes
  <1>4. BeforeItExists'  BY DEF Goes, In, StreamInv, BeforeItExists
  <1>5. ReadsAreFresh'  BY DEF StreamInv, Goes, ReadsAreFresh, Holders
  <1>6. CacheIsTrue'
    BY <1>1, StreamAssumption DEF CacheIsTrue, StreamInv, ReadsAreFresh, Holders, In, StreamTypes, Goes
  <1> QED BY <1>1, <1>2, <1>3, <1>4, <1>5, <1>6 DEF StreamInv

\* The count of faults after a step, failed or not.
LEMMA StreamFaultsStay ==
    ASSUME StreamInv, Works \/ Fails
    PROVE  streamFaults' \in 0..MaxStreamFaults /\ streamFaults <= streamFaults' /\ (Fails => streamFaults' > 0)
  BY StreamAssumption DEF StreamInv, StreamTypes, Works, Fails

\* StartStream keeps the stream's invariant.
LEMMA KeepsStartStream == ASSUME StreamInv, NEW c \in Staff, StartStream(c) PROVE StreamInv'
  <1> USE DEF StreamStatuses, NoStream
  <1>1. StreamTypes /\ In(c, "new")  BY DEF StreamInv, StartStream, Begin
  <1>2. Goes(c, "create", "start", stream)
    BY <1>1, GoesIn DEF StartStream, StreamTypes, StaffSteps, StaffMethods
  <1>3. /\ UNCHANGED <<stream, meta, rtmpSession, racedIn, staleRead, streamFaults>>
        /\ stream = NoStream
        /\ \A d \in Staff : staffCall[d].method # "start"
    BY <1>1 DEF StartStream, StreamBecomes, Works, Fails, Begin
  <1>4. StreamTypes'
    BY <1>1, <1>2, <1>3, StreamAssumption DEF StartStream, Goes, StreamTypes, Fails, Works, CallRows, Begin
  <1>5. \A d \in Staff : MethodFits(staffCall[d])'  BY <1>1, <1>2, <1>3 DEF StreamInv, In, Goes, MethodFits
  <1>6. PublisherFits'
    BY <1>1, <1>2, <1>3, StreamAssumption DEF StreamInv, In, Goes, PublisherFits, Publishing, MethodFits, StreamTypes
  <1>7. BeforeItExists'  BY <1>1, <1>2, <1>3 DEF StreamInv, In, Goes, BeforeItExists, MethodFits, StreamTypes
  <1>8. ReadsAreFresh'  BY <1>1, <1>2, <1>3 DEF StreamInv, In, Goes, ReadsAreFresh, Holders, StreamTypes
  <1>9. CacheIsTrue'
    BY <1>1, <1>2, <1>3 DEF StreamInv, In, Goes, CacheIsTrue, BeforeItExists, ReadsAreFresh, Holders, StreamTypes
  <1> QED BY <1>4, <1>5, <1>6, <1>7, <1>8, <1>9 DEF StreamInv

\* CreateStream keeps the stream's invariant.
LEMMA KeepsCreateStream == ASSUME StreamInv, NEW c \in Staff, CreateStream(c) PROVE StreamInv'
  <1> USE DEF StreamStatuses, NoStream
  <1>1. StreamTypes /\ In(c, "create")  BY DEF StreamInv, CreateStream, Begin
  <1>2. CASE StreamBecomes(c, "pending") /\ Works /\ staffCall' = [staffCall EXCEPT ![c].step = "index", ![c].saw = "pending"]
    <2>1. Goes(c, "index", staffCall[c].method, "pending")
      BY <1>1, <1>2, GoesOnReading DEF CreateStream, CallGoes, CallReads, AfterFill, AfterEnd, StreamTypes,
         StaffSteps
    <2>2. /\ stream' = "pending"
          /\ staleRead \/ (\E d \in Holders \ {c} : staffCall[d].saw # stream') => staleRead'
          /\ UNCHANGED <<meta, rtmpSession, racedIn, streamFaults>>
      BY <1>1, <1>2 DEF CreateStream, StreamBecomes, Works, Fails
    <2>3. StreamTypes'
      BY <1>2, <1>1, <2>1, <2>2, StreamAssumption DEF StreamBecomes, Goes, CreateStream, StreamTypes
    <2>4. \A d \in Staff : MethodFits(staffCall[d])'  BY <1>1, <2>1, <2>2 DEF StreamInv, In, Goes, MethodFits
    <2>5. PublisherFits'
      BY <1>1, <2>1, <2>2, StreamAssumption DEF StreamInv, In, Goes, PublisherFits, Publishing, MethodFits, StreamTypes
    <2>6. BeforeItExists'
      BY <1>1, <2>1, <2>2 DEF StreamInv, In, Goes, BeforeItExists, MethodFits, StreamTypes
    <2>7. ReadsAreFresh'  BY <1>1, <2>1, <2>2 DEF StreamInv, In, Goes, ReadsAreFresh, Holders, StreamTypes
    <2>8. CacheIsTrue'
      BY <1>1, <2>1, <2>2 DEF StreamInv, In, Goes, CacheIsTrue, BeforeItExists, ReadsAreFresh, Holders, StreamTypes
    <2> QED BY <2>3, <2>4, <2>5, <2>6, <2>7, <2>8 DEF StreamInv
  <1>3. CASE UNCHANGED <<stream, staleRead>> /\ CallGoes(c, "done") /\ Fails
    <2>1. Goes(c, "done", staffCall[c].method, staffCall[c].saw)
      BY <1>1, <1>3, GoesOn DEF StreamTypes, StaffSteps, CallGoes
    <2>2. UNCHANGED <<stream, meta, keyIndex, rtmpSession, racedIn, staleRead>>  BY <1>3 DEF CreateStream
    <2>3. /\ stream = NoStream => meta = NoStream
          /\ Publishing(c)' <=> Publishing(c)
      BY <1>1, <2>1 DEF Goes, In, Publishing, StreamInv, BeforeItExists, MethodFits
    <2> QED BY <1>1, <1>3, <2>1, <2>2, <2>3, QuietStep, StreamFaultsStay DEF StreamTypes
  <1> QED BY <1>1, <1>2, <1>3 DEF CreateStream, Works, Fails, AfterEnd, AfterFill, StreamTypes

\* IndexKey keeps the stream's invariant.
LEMMA KeepsIndexKey == ASSUME StreamInv, NEW c \in Staff, IndexKey(c) PROVE StreamInv'
  <1> USE DEF StreamStatuses, NoStream
  <1>1. StreamTypes /\ In(c, "index") /\ staffCall[c].method = "start" /\ (Works \/ Fails)
    BY DEF StreamInv, IndexKey, MethodFits, In
  <1>2. Goes(c, "fill", staffCall[c].method, staffCall[c].saw)
    BY <1>1, GoesOn DEF StreamTypes, StaffSteps, IndexKey, CallGoes
  <1>3. UNCHANGED <<stream, meta, rtmpSession, racedIn, staleRead>> /\ keyIndex' \in BOOLEAN
    BY <1>1 DEF IndexKey, StreamTypes
  <1>4. c \in Holders /\ stream # NoStream /\ ~In(c, "del") /\ ~In(c, "fill") /\ (Publishing(c)' <=> Publishing(c))
    BY <1>1, <1>2 DEF Goes, In, Holders, Publishing, StreamInv, BeforeItExists
  <1> QED BY <1>1, <1>2, <1>3, <1>4, QuietStep, StreamFaultsStay DEF StreamTypes

\* CacheMeta keeps the stream's invariant.
LEMMA KeepsCacheMeta == ASSUME StreamInv, NEW c \in Staff, CacheMeta(c) PROVE StreamInv'
  <1> USE DEF StreamStatuses, NoStream
  <1>1. StreamTypes /\ In(c, "fill") /\ (Works \/ Fails)  BY DEF StreamInv, CacheMeta
  <1>2. PICK step : step = AfterFill(c)  OBVIOUS
  <1>3. step \in {"check", "done"} /\ (step = "check" => staffCall[c].method = "publish")  BY <1>2 DEF AfterFill
  <1>4. Goes(c, step, staffCall[c].method, staffCall[c].saw)
    BY <1>1, <1>2, <1>3, GoesOn DEF StreamTypes, StaffSteps, CacheMeta, CallGoes
  <1>5. UNCHANGED <<stream, keyIndex, rtmpSession, racedIn, staleRead>>
          /\ (meta' = staffCall[c].saw \/ (meta' = meta /\ Fails))
    BY <1>1 DEF CacheMeta
  <1>6. staffCall[c].saw \in StreamStatuses \cup {NoStream}  BY <1>1 DEF StreamTypes, CallRows
  <1>7. stream # NoStream /\ (Publishing(c)' <=> Publishing(c))
    BY <1>1, <1>3, <1>4 DEF Goes, In, Publishing, StreamInv, BeforeItExists
  <1> QED BY <1>1, <1>3, <1>4, <1>5, <1>6, <1>7, QuietStep, StreamFaultsStay DEF StreamTypes

\* GetStream keeps the stream's invariant.
LEMMA KeepsGetStream == ASSUME StreamInv, NEW c \in Staff, GetStream(c) PROVE StreamInv'
  <1> USE DEF StreamStatuses, NoStream
  <1>1. StreamTypes /\ In(c, "new")  BY DEF StreamInv, GetStream, Begin
  <1>2. PICK step : step = IF meta # NoStream \/ stream = NoStream THEN "done" ELSE "fill"  OBVIOUS
  <1>3. step \in {"done", "fill"} /\ (stream = NoStream => step = "done")  BY <1>2
  <1>4. Goes(c, step, "get", stream)
    BY <1>1, <1>2, <1>3, GoesIn DEF StreamTypes, StaffSteps, StaffMethods, GetStream
  <1>5. UNCHANGED <<stream, meta, keyIndex, rtmpSession, racedIn, staleRead, streamFaults>>  BY DEF GetStream
  <1>6. (stream = NoStream => meta = NoStream) /\ ~Publishing(c) /\ ~Publishing(c)'
    BY <1>1, <1>3, <1>4 DEF Goes, In, Publishing, StreamInv, BeforeItExists
  <1>7. ~In(c, "del") /\ ~In(c, "fill") /\ streamFaults <= streamFaults'
    BY <1>1, <1>5, StreamAssumption DEF In, StreamTypes
  <1> QED BY <1>1, <1>3, <1>4, <1>5, <1>6, <1>7, QuietStep DEF StreamTypes

\* UpdateHLSPlaylistURL keeps the stream's invariant.
LEMMA KeepsUpdateHLSPlaylistURL == ASSUME StreamInv, NEW c \in Staff, UpdateHLSPlaylistURL(c) PROVE StreamInv'
  <1> USE DEF StreamStatuses, NoStream
  <1>1. StreamTypes /\ In(c, "new")  BY DEF StreamInv, UpdateHLSPlaylistURL, Begin
  <1>2. PICK step : step = IF stream = NoStream THEN "done" ELSE "write"  OBVIOUS
  <1>3. step \in {"done", "write"} /\ (stream = NoStream => step = "done")  BY <1>2
  <1>4. Goes(c, step, "ready", stream)
    BY <1>1, <1>2, <1>3, GoesIn DEF StreamTypes, StaffSteps, StaffMethods, UpdateHLSPlaylistURL
  <1>5. UNCHANGED <<stream, meta, keyIndex, rtmpSession, racedIn, staleRead, streamFaults>>  BY DEF UpdateHLSPlaylistURL
  <1>6. (stream = NoStream => meta = NoStream) /\ ~Publishing(c) /\ ~Publishing(c)'
    BY <1>1, <1>3, <1>4 DEF Goes, In, Publishing, StreamInv, BeforeItExists
  <1>7. ~In(c, "del") /\ ~In(c, "fill") /\ streamFaults <= streamFaults'
    BY <1>1, <1>5, StreamAssumption DEF In, StreamTypes
  <1> QED BY <1>1, <1>3, <1>4, <1>5, <1>6, <1>7, QuietStep DEF StreamTypes

\* GoLive keeps the stream's invariant.
LEMMA KeepsGoLive == ASSUME StreamInv, NEW c \in Staff, GoLive(c) PROVE StreamInv'
  <1> USE DEF StreamStatuses, NoStream
  <1>1. StreamTypes /\ In(c, "write")  BY DEF StreamInv, GoLive, Begin
  <1>2. CASE StreamBecomes(c, "live") /\ Works /\ staffCall' = [staffCall EXCEPT ![c].step = "fill", ![c].saw = "live"]
    <2>1. Goes(c, "fill", staffCall[c].method, "live")
      BY <1>1, <1>2, GoesOnReading DEF GoLive, CallGoes, CallReads, AfterFill, AfterEnd, StreamTypes,
         StaffSteps
    <2>2. /\ stream' = "live"
          /\ staleRead \/ (\E d \in Holders \ {c} : staffCall[d].saw # stream') => staleRead'
          /\ UNCHANGED <<meta, rtmpSession, racedIn, streamFaults>>
      BY <1>1, <1>2 DEF GoLive, StreamBecomes, Works, Fails
    <2>3. StreamTypes'  BY <1>2, <1>1, <2>1, <2>2, StreamAssumption DEF StreamBecomes, Goes, GoLive, StreamTypes
    <2>4. \A d \in Staff : MethodFits(staffCall[d])'  BY <1>1, <2>1, <2>2 DEF StreamInv, In, Goes, MethodFits
    <2>5. PublisherFits'
      BY <1>1, <2>1, <2>2, StreamAssumption DEF StreamInv, In, Goes, PublisherFits, Publishing, MethodFits, StreamTypes
    <2>6. BeforeItExists'
      BY <1>1, <2>1, <2>2 DEF StreamInv, In, Goes, BeforeItExists, MethodFits, StreamTypes
    <2>7. ReadsAreFresh'  BY <1>1, <2>1, <2>2 DEF StreamInv, In, Goes, ReadsAreFresh, Holders, StreamTypes
    <2>8. CacheIsTrue'
      BY <1>1, <2>1, <2>2 DEF StreamInv, In, Goes, CacheIsTrue, BeforeItExists, ReadsAreFresh, Holders, StreamTypes
    <2> QED BY <2>3, <2>4, <2>5, <2>6, <2>7, <2>8 DEF StreamInv
  <1>3. CASE UNCHANGED <<stream, staleRead>> /\ CallGoes(c, "done") /\ Fails
    <2>1. Goes(c, "done", staffCall[c].method, staffCall[c].saw)
      BY <1>1, <1>3, GoesOn DEF StreamTypes, StaffSteps, CallGoes
    <2>2. UNCHANGED <<stream, meta, keyIndex, rtmpSession, racedIn, staleRead>>  BY <1>3 DEF GoLive
    <2>3. /\ stream = NoStream => meta = NoStream
          /\ Publishing(c)' <=> Publishing(c)
      BY <1>1, <2>1 DEF Goes, In, Publishing, StreamInv, BeforeItExists, MethodFits
    <2> QED BY <1>1, <1>3, <2>1, <2>2, <2>3, QuietStep, StreamFaultsStay DEF StreamTypes
  <1> QED BY <1>1, <1>2, <1>3 DEF GoLive, Works, Fails, AfterEnd, AfterFill, StreamTypes

\* EndStream keeps the stream's invariant.
LEMMA KeepsEndStream == ASSUME StreamInv, NEW c \in Staff, EndStream(c) PROVE StreamInv'
  <1> USE DEF StreamStatuses, NoStream
  <1>1. StreamTypes /\ In(c, "new")  BY DEF StreamInv, EndStream, Begin
  <1>2. PICK step : step = IF stream = NoStream THEN "done" ELSE "write_end"  OBVIOUS
  <1>3. step \in {"done", "write_end"} /\ (stream = NoStream => step = "done")  BY <1>2
  <1>4. Goes(c, step, "end", stream)
    BY <1>1, <1>2, <1>3, GoesIn DEF StreamTypes, StaffSteps, StaffMethods, EndStream
  <1>5. UNCHANGED <<stream, meta, keyIndex, rtmpSession, racedIn, staleRead, streamFaults>>  BY DEF EndStream
  <1>6. (stream = NoStream => meta = NoStream) /\ ~Publishing(c) /\ ~Publishing(c)'
    BY <1>1, <1>3, <1>4 DEF Goes, In, Publishing, StreamInv, BeforeItExists
  <1>7. ~In(c, "del") /\ ~In(c, "fill") /\ streamFaults <= streamFaults'
    BY <1>1, <1>5, StreamAssumption DEF In, StreamTypes
  <1> QED BY <1>1, <1>3, <1>4, <1>5, <1>6, <1>7, QuietStep DEF StreamTypes

\* WriteEnded keeps the stream's invariant.
LEMMA KeepsWriteEnded == ASSUME StreamInv, NEW c \in Staff, WriteEnded(c) PROVE StreamInv'
  <1> USE DEF StreamStatuses, NoStream
  <1>1. StreamTypes /\ In(c, "write_end")  BY DEF StreamInv, WriteEnded, Begin
  <1>2. CASE StreamBecomes(c, "ended") /\ CallGoes(c, "del") /\ Works
    <2>1. Goes(c, "del", staffCall[c].method, staffCall[c].saw)
      BY <1>1, <1>2, GoesOn DEF WriteEnded, CallGoes, CallReads, AfterFill, AfterEnd, StreamTypes, StaffSteps
    <2>2. /\ stream' = "ended"
          /\ staleRead \/ (\E d \in Holders \ {c} : staffCall[d].saw # stream') => staleRead'
          /\ UNCHANGED <<meta, rtmpSession, racedIn, streamFaults>>
      BY <1>1, <1>2 DEF WriteEnded, StreamBecomes, Works, Fails
    <2>3. StreamTypes'
      BY <1>2, <1>1, <2>1, <2>2, StreamAssumption DEF StreamBecomes, Goes, WriteEnded, StreamTypes
    <2>4. \A d \in Staff : MethodFits(staffCall[d])'  BY <1>1, <2>1, <2>2 DEF StreamInv, In, Goes, MethodFits
    <2>5. PublisherFits'
      BY <1>1, <2>1, <2>2, StreamAssumption DEF StreamInv, In, Goes, PublisherFits, Publishing, MethodFits, StreamTypes
    <2>6. BeforeItExists'
      BY <1>1, <2>1, <2>2 DEF StreamInv, In, Goes, BeforeItExists, MethodFits, StreamTypes
    <2>7. ReadsAreFresh'  BY <1>1, <2>1, <2>2 DEF StreamInv, In, Goes, ReadsAreFresh, Holders, StreamTypes
    <2>8. CacheIsTrue'
      BY <1>1, <2>1, <2>2 DEF StreamInv, In, Goes, CacheIsTrue, BeforeItExists, ReadsAreFresh, Holders, StreamTypes
    <2> QED BY <2>3, <2>4, <2>5, <2>6, <2>7, <2>8 DEF StreamInv
  <1>3. CASE UNCHANGED <<stream, staleRead>> /\ CallGoes(c, AfterEnd(c)) /\ Fails
    <2>1. PICK step : step = AfterEnd(c)  OBVIOUS
    <2>2. step = IF staffCall[c].method = "publish" THEN "deregister" ELSE "done"  BY <2>1 DEF AfterEnd
    <2>3. Goes(c, step, staffCall[c].method, staffCall[c].saw)
      BY <1>1, <1>3, <2>1, <2>2, GoesOn DEF StreamTypes, StaffSteps, CallGoes
    <2>4. UNCHANGED <<stream, meta, keyIndex, rtmpSession, racedIn, staleRead>>  BY <1>3 DEF WriteEnded
    <2>5. stream # NoStream /\ (Publishing(c)' <=> Publishing(c))
      BY <1>1, <2>2, <2>3 DEF Goes, In, Publishing, StreamInv, BeforeItExists
    <2> QED BY <1>1, <1>3, <2>2, <2>3, <2>4, <2>5, QuietStep, StreamFaultsStay DEF StreamTypes
  <1> QED BY <1>1, <1>2, <1>3 DEF WriteEnded, Works, Fails, AfterEnd, AfterFill, StreamTypes

\* ForgetMeta keeps the stream's invariant.
LEMMA KeepsForgetMeta == ASSUME StreamInv, NEW c \in Staff, ForgetMeta(c) PROVE StreamInv'
  <1> USE DEF StreamStatuses, NoStream
  <1>1. StreamTypes /\ In(c, "del") /\ (Works \/ Fails)  BY DEF StreamInv, ForgetMeta
  <1>2. PICK step : step = AfterEnd(c)  OBVIOUS
  <1>3. step = IF staffCall[c].method = "publish" THEN "deregister" ELSE "done"  BY <1>2 DEF AfterEnd
  <1>4. Goes(c, step, staffCall[c].method, staffCall[c].saw)
    BY <1>1, <1>2, <1>3, GoesOn DEF StreamTypes, StaffSteps, ForgetMeta, CallGoes
  <1>5. UNCHANGED <<stream, keyIndex, rtmpSession, racedIn, staleRead>>
          /\ (meta' = NoStream \/ (meta' = meta /\ Fails))
    BY <1>1 DEF ForgetMeta
  <1>6. stream # NoStream /\ (Publishing(c)' <=> Publishing(c))
    BY <1>1, <1>3, <1>4 DEF Goes, In, Publishing, StreamInv, BeforeItExists
  <1> QED BY <1>1, <1>3, <1>4, <1>5, <1>6, QuietStep, StreamFaultsStay DEF StreamTypes

\* ValidateRTMPKey keeps the stream's invariant.
LEMMA KeepsValidateRTMPKey == ASSUME StreamInv, NEW c \in Staff, ValidateRTMPKey(c) PROVE StreamInv'
  <1> USE DEF StreamStatuses, NoStream
  <1>1. StreamTypes /\ In(c, "new")  BY DEF StreamInv, ValidateRTMPKey, Begin
  <1>2. PICK step : step = IF keyIndex THEN IF meta = NoStream THEN "fill" ELSE "check"
                           ELSE IF stream = "ended" THEN "done" ELSE "check"  OBVIOUS
  <1>3. step \in {"done", "fill", "check"} /\ (stream = NoStream => step = "done")  BY <1>2 DEF ValidateRTMPKey
  <1>4. Goes(c, step, "publish", stream)
    BY <1>1, <1>2, <1>3, GoesIn DEF StreamTypes, StaffSteps, StaffMethods, ValidateRTMPKey
  <1>5. UNCHANGED <<stream, meta, keyIndex, rtmpSession, racedIn, staleRead, streamFaults>>  BY DEF ValidateRTMPKey
  <1>6. (stream = NoStream => meta = NoStream) /\ ~Publishing(c) /\ ~Publishing(c)'
    BY <1>1, <1>3, <1>4 DEF Goes, In, Publishing, StreamInv, BeforeItExists
  <1>7. ~In(c, "del") /\ ~In(c, "fill") /\ streamFaults <= streamFaults'
    BY <1>1, <1>5, StreamAssumption DEF In, StreamTypes
  <1> QED BY <1>1, <1>3, <1>4, <1>5, <1>6, <1>7, QuietStep DEF StreamTypes

\* RejectDuplicate keeps the stream's invariant.
LEMMA KeepsRejectDuplicate == ASSUME StreamInv, NEW c \in Staff, RejectDuplicate(c) PROVE StreamInv'
  <1> USE DEF StreamStatuses, NoStream
  <1>1. StreamTypes /\ In(c, "check")  BY DEF StreamInv, RejectDuplicate, Begin
  <1>2. CASE rtmpSession = NoSession
    <2>1. Goes(c, "register", staffCall[c].method, staffCall[c].saw)
      BY <1>1, <1>2, GoesOn DEF RejectDuplicate, CallGoes, CallReads, AfterFill, AfterEnd, StreamTypes,
         StaffSteps
    <2>2. /\ racedIn' = (racedIn \/ \E d \in Staff : In(d, "register"))
          /\ UNCHANGED <<stream, meta, rtmpSession, staleRead, streamFaults>>
          /\ rtmpSession = NoSession
      BY <1>1, <1>2 DEF RejectDuplicate, StreamBecomes, Works, Fails, In
    <2>3. StreamTypes'
      BY <1>1, <1>2, <2>1, <2>2, StreamAssumption DEF RejectDuplicate, Goes, StreamTypes, Fails, Works, CallRows, Begin
    <2>4. \A d \in Staff : MethodFits(staffCall[d])'  BY <1>1, <2>1, <2>2 DEF StreamInv, In, Goes, MethodFits
    <2>5. PublisherFits'
      <3>1. \A d \in Staff : Publishing(d)' <=> Publishing(d)
        BY <1>1, <2>1 DEF StreamInv, In, Goes, Publishing, MethodFits
      <3>2. /\ \A d \in Staff \ {c} : In(d, "register")' <=> In(d, "register")
            /\ racedIn' \/ \A d \in Staff : ~In(d, "register")
        BY <2>1, <2>2 DEF Goes, In
      <3>3. PublisherFits /\ racedIn \in BOOLEAN  BY DEF StreamInv, StreamTypes
      <3>4. rtmpSession' = NoSession  BY <2>2
      <3>5. ~racedIn' => ~racedIn  BY <2>2, <3>3
      <3>6. QED BY <2>2, <3>1, <3>2, <3>3, <3>4, <3>5 DEF PublisherFits
    <2>6. BeforeItExists'  BY <2>1, <1>1, <2>2 DEF Goes, In, StreamInv, BeforeItExists
    <2>7. ReadsAreFresh'  BY <1>1, <2>1, <2>2 DEF StreamInv, In, Goes, ReadsAreFresh, Holders, StreamTypes
    <2>8. CacheIsTrue'
      BY <1>1, <2>1, <2>2 DEF StreamInv, In, Goes, CacheIsTrue, BeforeItExists, ReadsAreFresh, Holders, StreamTypes
    <2> QED BY <2>3, <2>4, <2>5, <2>6, <2>7, <2>8 DEF StreamInv
  <1>3. CASE rtmpSession # NoSession
    <2>1. Goes(c, "done", staffCall[c].method, staffCall[c].saw)
      BY <1>1, <1>3, GoesOn DEF RejectDuplicate, StreamTypes, StaffSteps, CallGoes
    <2>2. UNCHANGED <<stream, meta, keyIndex, rtmpSession, racedIn, staleRead, streamFaults>>
      BY <1>3 DEF RejectDuplicate
    <2>3. stream # NoStream /\ ~Publishing(c) /\ ~Publishing(c)'
      BY <1>1, <2>1 DEF Goes, In, Publishing, StreamInv, BeforeItExists
    <2>4. ~In(c, "del") /\ ~In(c, "fill") /\ streamFaults <= streamFaults'
      BY <1>1, <2>2, StreamAssumption DEF In, StreamTypes
    <2> QED BY <1>1, <2>1, <2>2, <2>3, <2>4, QuietStep DEF StreamTypes
  <1> QED BY <1>1, <1>2, <1>3 DEF RejectDuplicate, Works, Fails, AfterEnd, AfterFill, StreamTypes

\* RegisterSession keeps the stream's invariant.
LEMMA KeepsRegisterSession == ASSUME StreamInv, NEW c \in Staff, RegisterSession(c) PROVE StreamInv'
  <1> USE DEF StreamStatuses, NoStream
  <1>1. StreamTypes /\ In(c, "register")  BY DEF StreamInv, RegisterSession, Begin
  <1>2. Goes(c, "run", staffCall[c].method, staffCall[c].saw)
    BY <1>1, GoesOn DEF RegisterSession, CallGoes, CallReads, AfterFill, AfterEnd, StreamTypes, StaffSteps
  <1>3. /\ rtmpSession' = c
        /\ UNCHANGED <<stream, meta, racedIn, staleRead, streamFaults>>
    BY <1>1 DEF RegisterSession, StreamBecomes, Works, Fails
  <1>4. StreamTypes'
    BY <1>1, <1>2, <1>3, StreamAssumption DEF RegisterSession, Goes, StreamTypes, Fails, Works, CallRows, Begin
  <1>5. \A d \in Staff : MethodFits(staffCall[d])'  BY <1>1, <1>2, <1>3 DEF StreamInv, In, Goes, MethodFits
  <1>6. PublisherFits'
    BY <1>1, <1>2, <1>3, StreamAssumption DEF StreamInv, In, Goes, PublisherFits, Publishing, MethodFits, StreamTypes
  <1>7. BeforeItExists'  BY <1>1, <1>2, <1>3 DEF StreamInv, In, Goes, BeforeItExists, MethodFits, StreamTypes
  <1>8. ReadsAreFresh'  BY <1>1, <1>2, <1>3 DEF StreamInv, In, Goes, ReadsAreFresh, Holders, StreamTypes
  <1>9. CacheIsTrue'
    BY <1>1, <1>2, <1>3 DEF StreamInv, In, Goes, CacheIsTrue, BeforeItExists, ReadsAreFresh, Holders, StreamTypes
  <1> QED BY <1>4, <1>5, <1>6, <1>7, <1>8, <1>9 DEF StreamInv

\* HangUp keeps the stream's invariant.
LEMMA KeepsHangUp == ASSUME StreamInv, NEW c \in Staff, HangUp(c) PROVE StreamInv'
  <1> USE DEF StreamStatuses, NoStream
  <1>1. StreamTypes /\ In(c, "run") /\ staffCall[c].method = "publish"  BY DEF StreamInv, HangUp, MethodFits, In
  <1>2. PICK step \in {"write_end", "deregister"}, saw \in StreamStatuses \cup {NoStream} :
          Goes(c, step, staffCall[c].method, saw)
    BY <1>1, GoesOnReading, GoesOn DEF StreamTypes, StaffSteps, CallReads, CallGoes, CallRows, HangUp
  <1>3. UNCHANGED <<stream, meta, keyIndex, rtmpSession, racedIn, staleRead, streamFaults>>  BY DEF HangUp
  <1>4. stream # NoStream /\ Publishing(c) /\ Publishing(c)'
    BY <1>1, <1>2 DEF Goes, In, Publishing, StreamInv, BeforeItExists
  <1>5. ~In(c, "del") /\ ~In(c, "fill") /\ streamFaults <= streamFaults'
    BY <1>1, <1>3, StreamAssumption DEF In, StreamTypes
  <1> QED BY <1>1, <1>2, <1>3, <1>4, <1>5, QuietStep DEF StreamTypes

\* DeregisterSession keeps the stream's invariant.
LEMMA KeepsDeregisterSession == ASSUME StreamInv, NEW c \in Staff, DeregisterSession(c) PROVE StreamInv'
  <1> USE DEF StreamStatuses, NoStream
  <1>1. StreamTypes /\ In(c, "deregister")  BY DEF StreamInv, DeregisterSession, Begin
  <1>2. Goes(c, "done", staffCall[c].method, staffCall[c].saw)
    BY <1>1, GoesOn DEF DeregisterSession, CallGoes, CallReads, AfterFill, AfterEnd, StreamTypes, StaffSteps
  <1>3. /\ rtmpSession' = NoSession
        /\ UNCHANGED <<stream, meta, racedIn, staleRead, streamFaults>>
    BY <1>1 DEF DeregisterSession, StreamBecomes, Works, Fails
  <1>4. StreamTypes'
    BY <1>1, <1>2, <1>3, StreamAssumption DEF DeregisterSession, Goes, StreamTypes, Fails, Works, CallRows, Begin
  <1>5. \A d \in Staff : MethodFits(staffCall[d])'  BY <1>1, <1>2, <1>3 DEF StreamInv, In, Goes, MethodFits
  <1>6. PublisherFits'
    BY <1>1, <1>2, <1>3, StreamAssumption DEF StreamInv, In, Goes, PublisherFits, Publishing, MethodFits, StreamTypes
  <1>7. BeforeItExists'  BY <1>1, <1>2, <1>3 DEF StreamInv, In, Goes, BeforeItExists, MethodFits, StreamTypes
  <1>8. ReadsAreFresh'  BY <1>1, <1>2, <1>3 DEF StreamInv, In, Goes, ReadsAreFresh, Holders, StreamTypes
  <1>9. CacheIsTrue'
    BY <1>1, <1>2, <1>3 DEF StreamInv, In, Goes, CacheIsTrue, BeforeItExists, ReadsAreFresh, Holders, StreamTypes
  <1> QED BY <1>4, <1>5, <1>6, <1>7, <1>8, <1>9 DEF StreamInv

\* Steps of nobody.
LEMMA KeepsExpiry == ASSUME StreamInv, MetaExpires \/ KeyIndexExpires PROVE StreamInv'
  <1> USE DEF StreamStatuses, NoStream
  <1>1. /\ UNCHANGED <<stream, rtmpSession, staffCall, staleRead, racedIn, streamFaults>>
        /\ meta' \in {meta, NoStream} /\ keyIndex' \in BOOLEAN
    BY DEF StreamInv, StreamTypes, MetaExpires, KeyIndexExpires
  <1> QED
    BY <1>1 DEF StreamInv, StreamTypes, MethodFits, PublisherFits, Publishing, In, BeforeItExists,
       ReadsAreFresh, Holders, CacheIsTrue

\* Every step of the stream keeps the invariant.
LEMMA NextStream == StreamInv /\ [StreamNext]_streamVars => StreamInv'
  <1> SUFFICES ASSUME StreamInv, [StreamNext]_streamVars PROVE StreamInv'  OBVIOUS
  <1>1. CASE UNCHANGED streamVars
    BY <1>1 DEF streamVars, StreamInv, StreamTypes, MethodFits, PublisherFits, Publishing, In,
       BeforeItExists, ReadsAreFresh, Holders, CacheIsTrue
  <1>2. CASE MetaExpires \/ KeyIndexExpires  BY <1>2, KeepsExpiry
  <1>3. ASSUME NEW c \in Staff, StartStream(c) PROVE StreamInv'  BY <1>3, KeepsStartStream
  <1>4. ASSUME NEW c \in Staff, CreateStream(c) PROVE StreamInv'  BY <1>4, KeepsCreateStream
  <1>5. ASSUME NEW c \in Staff, IndexKey(c) PROVE StreamInv'  BY <1>5, KeepsIndexKey
  <1>6. ASSUME NEW c \in Staff, CacheMeta(c) PROVE StreamInv'  BY <1>6, KeepsCacheMeta
  <1>7. ASSUME NEW c \in Staff, GetStream(c) PROVE StreamInv'  BY <1>7, KeepsGetStream
  <1>8. ASSUME NEW c \in Staff, UpdateHLSPlaylistURL(c) PROVE StreamInv'  BY <1>8, KeepsUpdateHLSPlaylistURL
  <1>9. ASSUME NEW c \in Staff, GoLive(c) PROVE StreamInv'  BY <1>9, KeepsGoLive
  <1>10. ASSUME NEW c \in Staff, EndStream(c) PROVE StreamInv'  BY <1>10, KeepsEndStream
  <1>11. ASSUME NEW c \in Staff, WriteEnded(c) PROVE StreamInv'  BY <1>11, KeepsWriteEnded
  <1>12. ASSUME NEW c \in Staff, ForgetMeta(c) PROVE StreamInv'  BY <1>12, KeepsForgetMeta
  <1>13. ASSUME NEW c \in Staff, ValidateRTMPKey(c) PROVE StreamInv'  BY <1>13, KeepsValidateRTMPKey
  <1>14. ASSUME NEW c \in Staff, RejectDuplicate(c) PROVE StreamInv'  BY <1>14, KeepsRejectDuplicate
  <1>15. ASSUME NEW c \in Staff, RegisterSession(c) PROVE StreamInv'  BY <1>15, KeepsRegisterSession
  <1>16. ASSUME NEW c \in Staff, HangUp(c) PROVE StreamInv'  BY <1>16, KeepsHangUp
  <1>17. ASSUME NEW c \in Staff, DeregisterSession(c) PROVE StreamInv'  BY <1>17, KeepsDeregisterSession
  <1> QED
    BY <1>1, <1>2, <1>3, <1>4, <1>5, <1>6, <1>7, <1>8, <1>9, <1>10, <1>11, <1>12, <1>13, <1>14, <1>15, <1>16, <1>17 DEF StreamNext

\* The invariant has the properties.
LEMMA StreamsFollow == StreamInv => StreamTypeOK /\ StreamsAreTrue
  BY DEF StreamInv, StreamTypes, StreamTypeOK, StreamsAreTrue, PublisherFits, OnePublisher

--------
\* Who watches, and how many (LiveStreams).

ViewTypes ==
    /\ onAir \in BOOLEAN /\ ending \in BOOLEAN /\ forgotten \in BOOLEAN
    /\ viewer \in [Audience -> {"none", "joined", "left"}]
    /\ viewerCount \in Int /\ joining \in [Watchers -> Tasks] /\ leaving \in [Watchers -> Tasks]
    /\ floored \in BOOLEAN /\ outrun \in BOOLEAN /\ viewFaults \in 0..MaxViewFaults
    /\ shown \in Int /\ peak \in Int /\ shown <= peak

\* Someone has met a count below zero.
Sunk == floored \/ \E w \in Watchers : leaving[w].step = "floor"

\* No count is negative before that, neither in Redis nor on its way to PostgreSQL nor there.
CountsAreSound ==
    /\ shown < 0 \/ viewerCount < 0 => Sunk
    /\ \A w \in Watchers : /\ joining[w].step = "show" /\ joining[w].got < 0 => Sunk
                           /\ leaving[w].step = "show" => leaving[w].got >= 0

\* No count was lost, no leave overtook its join, and no store failed.
Smooth == ~forgotten /\ ~outrun /\ viewFaults = 0

\* Who has been added to the counter and not yet taken off it.
OnCount == {w \in Watchers : /\ joining[w].step \in {"show", "done"}
                             /\ leaving[w].step \in {"new", "update", "decr"}}

\* Those the row of a listed user may be due to.
Vouches(w) == /\ joining[w].step \in {"incr", "show", "done"}
              /\ leaving[w].step \in {"new", "update"}

\* Who leaves has joined; a connection whose join was refused leaves nothing.
HasJoined(join, leave) == join.step = "done" \/ (join.step = "refused" /\ leave.step = "done")

\* The counter is the number of those it should count, a leave waits for its join and finds
\* the row there, and every listed user has a connection that is not leaving yet.
CountIsTrue ==
    /\ viewerCount = Cardinality(OnCount)
    /\ \A w \in Watchers : /\ leaving[w].step # "new" => HasJoined(joining[w], leaving[w])
                           /\ leaving[w].step # "floor"
                           /\ joining[w].step \in {"incr", "show", "done"} => viewer[UserOf[w]] # "none"
    /\ \A u \in Audience : viewer[u] = "joined" => \E w \in Watchers : UserOf[w] = u /\ Vouches(w)

ViewInv == ViewTypes /\ CountsAreSound /\ (Smooth => CountIsTrue)

\* It fits at first.
LEMMA InitView == ViewInit => ViewInv
  <1> SUFFICES ASSUME ViewInit PROVE ViewInv  OBVIOUS
  <1>1. Fresh \in Tasks /\ Fresh.step = "new"  BY DEF Fresh, Tasks
  <1>2. ViewTypes
    <2>1. /\ onAir \in BOOLEAN /\ floored \in BOOLEAN /\ outrun \in BOOLEAN
          /\ ending \in BOOLEAN /\ forgotten \in BOOLEAN
      BY Zenon DEF ViewInit
    <2> QED BY <1>1, <2>1, ViewerAssumption DEF ViewTypes, ViewInit
  <1>3. \A w \in Watchers : joining[w].step = "new" /\ leaving[w].step = "new"  BY <1>1 DEF ViewInit
  <1>4. CountsAreSound  BY <1>3 DEF CountsAreSound, ViewInit
  <1>5. OnCount = {}  BY <1>3 DEF OnCount
  <1>6. Cardinality(OnCount) = 0  BY <1>5, FS_EmptySet
  <1> QED BY <1>2, <1>3, <1>4, <1>6 DEF ViewInv, CountIsTrue, ViewInit

\* The counted are finitely many.
LEMMA OnCountIsFinite == IsFiniteSet(OnCount) /\ Cardinality(OnCount) \in Nat
  BY ViewerAssumption, FS_Subset, FS_CardinalityType DEF OnCount

\* What a step of connection w may leave of the two tasks: those of all the others.
OnlyTasksOf(w) ==
    /\ joining' \in [Watchers -> Tasks] /\ leaving' \in [Watchers -> Tasks]
    /\ \A v \in Watchers \ {w} : joining'[v] = joining[v] /\ leaving'[v] = leaving[v]

\* Every connection has its user and its two tasks.
LEMMA WatcherFits == ASSUME ViewInv, NEW w \in Watchers
                     PROVE  /\ ViewTypes /\ joining[w] \in Tasks /\ leaving[w] \in Tasks
                            /\ UserOf[w] \in Audience /\ joining[w].got \in Int /\ leaving[w].got \in Int
  BY ViewerAssumption DEF ViewInv, ViewTypes, Tasks

\* A task written anew.
LEMMA TaskWritten == ASSUME NEW f \in [Watchers -> Tasks], NEW w \in Watchers, NEW t \in Tasks, NEW g,
                            g = [f EXCEPT ![w] = t]
                     PROVE  g \in [Watchers -> Tasks] /\ g[w] = t /\ \A v \in Watchers \ {w} : g[v] = f[v]
  OBVIOUS

\* A join that goes on keeps what it was answered, and its leave stands.
LEMMA JoinMoves == ASSUME ViewInv, NEW w \in Watchers, NEW s \in {"upsert", "incr", "done", "refused"},
                          JoinGoes(w, s), UNCHANGED leaving
                   PROVE  OnlyTasksOf(w) /\ joining'[w].step = s /\ leaving'[w] = leaving[w]
  <1>1. PICK t : t = [joining[w] EXCEPT !.step = s]  OBVIOUS
  <1>2. t \in Tasks /\ t.step = s  BY <1>1, WatcherFits DEF Tasks
  <1>3. joining' = [joining EXCEPT ![w] = t]  BY <1>1 DEF JoinGoes
  <1> QED BY <1>2, <1>3, TaskWritten DEF OnlyTasksOf, ViewInv, ViewTypes

\* And a leave.
LEMMA LeaveMoves == ASSUME ViewInv, NEW w \in Watchers, NEW s \in {"update", "decr", "done"},
                           LeaveGoes(w, s), UNCHANGED joining
                    PROVE  OnlyTasksOf(w) /\ leaving'[w].step = s /\ joining'[w] = joining[w]
  <1>1. PICK t : t = [leaving[w] EXCEPT !.step = s]  OBVIOUS
  <1>2. t \in Tasks /\ t.step = s  BY <1>1, WatcherFits DEF Tasks
  <1>3. leaving' = [leaving EXCEPT ![w] = t]  BY <1>1 DEF LeaveGoes
  <1> QED BY <1>2, <1>3, TaskWritten DEF OnlyTasksOf, ViewInv, ViewTypes

\* An answered join or leave is written whole.
LEMMA TaskAnswered == ASSUME ViewInv, NEW w \in Watchers, NEW t \in Tasks
                      PROVE  /\ joining' = [joining EXCEPT ![w] = t] /\ UNCHANGED leaving =>
                                    OnlyTasksOf(w) /\ joining'[w] = t /\ leaving'[w] = leaving[w]
                             /\ leaving' = [leaving EXCEPT ![w] = t] /\ UNCHANGED joining =>
                                    OnlyTasksOf(w) /\ leaving'[w] = t /\ joining'[w] = joining[w]
  BY TaskWritten DEF OnlyTasksOf, ViewInv, ViewTypes

\* The counts stay sound when those that w's step writes are.
LEMMA SoundAfter == ASSUME ViewInv, NEW w \in Watchers, OnlyTasksOf(w), Sunk => Sunk',
                           shown' < 0 \/ viewerCount' < 0 => Sunk',
                           joining'[w].step = "show" /\ joining'[w].got < 0 => Sunk',
                           leaving'[w].step = "show" => leaving'[w].got >= 0
                    PROVE  CountsAreSound'
  <1>1. \A v \in Watchers \ {w} : joining'[v] = joining[v] /\ leaving'[v] = leaving[v]  BY DEF OnlyTasksOf
  <1>2. \A v \in Watchers : joining'[v].step = "show" /\ joining'[v].got < 0 => Sunk'
    BY <1>1 DEF ViewInv, CountsAreSound
  <1>3. \A v \in Watchers : leaving'[v].step = "show" => leaving'[v].got >= 0
    BY <1>1 DEF ViewInv, CountsAreSound
  <1> QED BY <1>2, <1>3 DEF CountsAreSound

\* They do when w's step writes none.
LEMMA SoundUnread == ASSUME ViewInv, NEW w \in Watchers, OnlyTasksOf(w),
                            UNCHANGED <<viewerCount, shown, floored>>,
                            joining'[w] = joining[w] \/ joining'[w].step # "show",
                            leaving'[w] = leaving[w] \/ (leaving'[w].step # "show" /\ leaving[w].step # "floor")
                     PROVE  CountsAreSound'
  <1>1. Sunk => Sunk'  BY DEF Sunk, OnlyTasksOf
  <1> QED BY <1>1, SoundAfter DEF ViewInv, CountsAreSound

\* A failed call leaves nothing to claim of the count.
LEMMA FailsView == ASSUME ViewInv, NEW w \in Watchers, ViewFails,
                          UNCHANGED <<onAir, ending, forgotten, viewer, viewerCount, shown, peak, floored, outrun>>,
                          \/ JoinGoes(w, "done") /\ UNCHANGED leaving
                          \/ LeaveGoes(w, "done") /\ UNCHANGED joining /\ leaving[w].step # "floor"
                   PROVE  ViewInv'
  <1>1. /\ OnlyTasksOf(w)
        /\ joining'[w] = joining[w] \/ joining'[w].step # "show"
        /\ leaving'[w] = leaving[w] \/ (leaving'[w].step # "show" /\ leaving[w].step # "floor")
    BY JoinMoves, LeaveMoves
  <1>2. CountsAreSound'  BY <1>1, SoundUnread
  <1>3. viewFaults' \in 0..MaxViewFaults /\ viewFaults' # 0
    BY ViewerAssumption DEF ViewInv, ViewTypes, ViewFails
  <1>4. ViewTypes'  BY <1>1, <1>3 DEF ViewInv, ViewTypes, OnlyTasksOf
  <1> QED BY <1>2, <1>3, <1>4 DEF ViewInv, Smooth

\* What must hold of w after its step for the count to be true: of its two tasks, and of the rows.
Settles(w) ==
    /\ leaving'[w].step # "new" => HasJoined(joining'[w], leaving'[w])
    /\ leaving'[w].step # "floor"
    /\ joining'[w].step \in {"incr", "show", "done"} => viewer'[UserOf[w]] # "none"
    /\ \A u \in Audience : viewer[u] # "none" => viewer'[u] # "none"
    /\ \A u \in Audience : viewer'[u] = "joined" =>
          (viewer[u] = "joined" /\ (u = UserOf[w] /\ Vouches(w) => Vouches(w)')) \/ (u = UserOf[w] /\ Vouches(w)')

\* The rest is as it was.
LEMMA CountSettles == ASSUME ViewInv, CountIsTrue, NEW w \in Watchers, OnlyTasksOf(w), Settles(w),
                             viewerCount' = Cardinality(OnCount)'
                      PROVE  CountIsTrue'
  <1>1. \A v \in Watchers \ {w} : joining'[v] = joining[v] /\ leaving'[v] = leaving[v]  BY DEF OnlyTasksOf
  <1>2. \A v \in Watchers : UserOf[v] \in Audience  BY ViewerAssumption
  <1>3. \A v \in Watchers : /\ leaving'[v].step # "new" => HasJoined(joining'[v], leaving'[v])
                            /\ leaving'[v].step # "floor"
                            /\ joining'[v].step \in {"incr", "show", "done"} => viewer'[UserOf[v]] # "none"
    BY <1>1, <1>2 DEF CountIsTrue, Settles
  <1>4. ASSUME NEW u \in Audience, viewer'[u] = "joined"
        PROVE  \E v \in Watchers : UserOf[v] = u /\ Vouches(v)'  BY <1>1, <1>4 DEF CountIsTrue, Vouches, Settles
  <1> QED BY <1>3, <1>4 DEF CountIsTrue

\* Who is on the count is decided by each connection's own two tasks.
LEMMA OnCountMoves == ASSUME NEW w \in Watchers, OnlyTasksOf(w)
                      PROVE  /\ (w \in OnCount <=> w \in OnCount') => OnCount' = OnCount
                             /\ w \in OnCount => OnCount \ {w} = OnCount' \ {w}
                             /\ w \in OnCount' => OnCount' = OnCount \cup {w}
  <1>1. \A v \in Watchers \ {w} : v \in OnCount' <=> v \in OnCount  BY DEF OnCount, OnlyTasksOf
  <1>2. OnCount' \subseteq Watchers /\ OnCount \subseteq Watchers  BY DEF OnCount
  <1> QED BY <1>1, <1>2

\* The counter stands when w neither comes onto the count nor off it.
LEMMA CountStands == ASSUME CountIsTrue, NEW w \in Watchers, OnlyTasksOf(w), UNCHANGED viewerCount,
                            w \in OnCount <=> w \in OnCount'
                     PROVE  viewerCount' = Cardinality(OnCount)'
  <1>1. OnCount' = OnCount  BY OnCountMoves
  <1>2. Cardinality(OnCount)' = Cardinality(OnCount')  OBVIOUS
  <1> QED BY <1>1, <1>2 DEF CountIsTrue

\* JoinStream keeps the count.
LEMMA KeepsJoinStream == ASSUME ViewInv, NEW w \in Watchers, JoinStream(w) PROVE ViewInv'
  <1>1. /\ joining[w].step = "new" /\ UNCHANGED leaving
        /\ JoinGoes(w, "upsert") \/ JoinGoes(w, "refused")
        /\ UNCHANGED <<onAir, ending, forgotten, viewer, viewerCount, shown, peak, floored, outrun, viewFaults>>  BY DEF JoinStream
  <1>2. /\ OnlyTasksOf(w) /\ leaving'[w] = leaving[w]
        /\ joining'[w].step = "upsert" \/ joining'[w].step = "refused"
    BY <1>1, JoinMoves
  <1>3. ViewTypes'  BY <1>1, <1>2 DEF ViewInv, ViewTypes, OnlyTasksOf
  <1>4. CountsAreSound'
    <2>1. Sunk => Sunk'  BY <1>1, <1>2 DEF Sunk
    <2> QED BY <1>1, <1>2, <2>1, SoundAfter DEF ViewInv, CountsAreSound
  <1>5. ASSUME Smooth' PROVE CountIsTrue'
    <2>1. Smooth /\ CountIsTrue  BY <1>1, <1>5 DEF Smooth, ViewInv
    <2>2. leaving[w].step = "new"  BY <1>1, <2>1 DEF CountIsTrue, HasJoined
    <2>3. Settles(w)  BY <1>1, <1>2, <2>1, <2>2 DEF CountIsTrue, Settles, Vouches, HasJoined
    <2>4. w \notin OnCount /\ w \notin OnCount'  BY <1>1, <1>2 DEF OnCount
    <2> QED BY <1>1, <1>2, <2>1, <2>3, <2>4, CountSettles, CountStands
  <1> QED BY <1>3, <1>4, <1>5 DEF ViewInv

\* UpsertViewer keeps the count.
LEMMA KeepsUpsertViewer == ASSUME ViewInv, NEW w \in Watchers, UpsertViewer(w) PROVE ViewInv'
  <1>1. /\ joining[w].step = "upsert" /\ UNCHANGED leaving
        /\ UNCHANGED <<onAir, ending, forgotten, viewerCount, shown, peak, floored, outrun>>
    BY DEF UpsertViewer
  <1>2. CASE viewer' = [viewer EXCEPT ![UserOf[w]] = "joined"] /\ JoinGoes(w, "incr") /\ ViewWorks
    <2>1. /\ OnlyTasksOf(w) /\ leaving'[w] = leaving[w] /\ joining'[w].step = "incr" /\ UNCHANGED viewFaults
      BY <1>1, <1>2, JoinMoves DEF ViewWorks
    <2>2. /\ viewer' \in [Audience -> {"none", "joined", "left"}] /\ viewer'[UserOf[w]] = "joined"
          /\ \A u \in Audience \ {UserOf[w]} : viewer'[u] = viewer[u]
      BY <1>2, WatcherFits DEF ViewTypes
    <2>3. ViewTypes'  BY <1>1, <2>1, <2>2 DEF ViewInv, ViewTypes, OnlyTasksOf
    <2>4. CountsAreSound'  BY <1>1, <2>1, SoundAfter DEF Sunk, ViewInv, CountsAreSound
    <2>5. ASSUME Smooth' PROVE CountIsTrue'
      <3>1. Smooth /\ CountIsTrue  BY <1>1, <2>1, <2>5 DEF Smooth, ViewInv
      <3>2. leaving[w].step = "new"  BY <1>1, <3>1 DEF CountIsTrue, HasJoined
      <3>3. Settles(w)  BY <2>1, <2>2, <3>2 DEF Settles, Vouches, HasJoined
      <3>4. w \notin OnCount /\ w \notin OnCount'  BY <1>1, <2>1 DEF OnCount
      <3> QED BY <1>1, <2>1, <3>1, <3>3, <3>4, CountSettles, CountStands
    <2> QED BY <2>3, <2>4, <2>5 DEF ViewInv
  <1>3. CASE UNCHANGED viewer /\ JoinGoes(w, "done") /\ ViewFails  BY <1>1, <1>3, FailsView
  <1> QED BY <1>2, <1>3 DEF UpsertViewer

\* Incr keeps the count: who is added was not on it.
LEMMA KeepsIncr == ASSUME ViewInv, NEW w \in Watchers, Incr(w) PROVE ViewInv'
  <1>1. /\ joining[w].step = "incr" /\ UNCHANGED leaving
        /\ UNCHANGED <<onAir, ending, forgotten, viewer, shown, peak, floored, outrun>>
    BY DEF Incr
  <1>2. CASE /\ viewerCount' = viewerCount + 1 /\ ViewWorks
             /\ joining' = [joining EXCEPT ![w] = [step |-> "show", got |-> viewerCount + 1]]
    <2>1. PICK n \in Int : n = viewerCount  BY DEF ViewInv, ViewTypes
    <2> DEFINE t == [step |-> "show", got |-> n + 1]
    <2>6. t \in Tasks /\ t.step = "show" /\ t.got = n + 1  BY DEF Tasks
    <2>7. joining' = [joining EXCEPT ![w] = t] /\ viewerCount' = n + 1 /\ UNCHANGED viewFaults
      BY <1>2, <2>1 DEF ViewWorks
    <2> HIDE DEF t
    <2>2. /\ OnlyTasksOf(w) /\ leaving'[w] = leaving[w]
          /\ joining'[w].step = "show" /\ joining'[w].got = n + 1
          /\ viewerCount' = n + 1 /\ UNCHANGED viewFaults
      BY <1>1, <2>6, <2>7, TaskAnswered
    <2>3. ViewTypes'  BY <1>1, <2>2 DEF ViewInv, ViewTypes, OnlyTasksOf
    <2>4. CountsAreSound'
      <3>1. Sunk => Sunk'  BY <1>1, <2>2 DEF Sunk
      <3>2. n < 0 => Sunk  BY <2>1 DEF ViewInv, CountsAreSound
      <3>3. joining'[w].got = n + 1  BY <2>2
      <3>4. shown < 0 => Sunk  BY DEF ViewInv, CountsAreSound
      <3>5. shown' < 0 \/ viewerCount' < 0 => Sunk'  BY <1>1, <2>2, <3>1, <3>2, <3>4
      <3>6. leaving'[w].step = "show" => leaving'[w].got >= 0  BY <2>2 DEF ViewInv, CountsAreSound
      <3> QED BY <2>2, <3>1, <3>2, <3>3, <3>5, <3>6, SoundAfter
    <2>5. ASSUME Smooth' PROVE CountIsTrue'
      <3>1. Smooth /\ CountIsTrue  BY <1>1, <2>2, <2>5 DEF Smooth, ViewInv
      <3>2. leaving[w].step = "new"  BY <1>1, <3>1 DEF CountIsTrue, HasJoined
      <3>3. Settles(w)  BY <1>1, <2>2, <3>1, <3>2 DEF Settles, Vouches, HasJoined, CountIsTrue
      <3>4. w \notin OnCount /\ w \in OnCount'  BY <1>1, <2>2, <3>2 DEF OnCount
      <3>5. OnCount' = OnCount \cup {w}  BY <2>2, <3>4, OnCountMoves
      <3>6. Cardinality(OnCount') = Cardinality(OnCount) + 1
        BY <3>4, <3>5, OnCountIsFinite, FS_AddElement
      <3>7. viewerCount' = Cardinality(OnCount)'  BY <2>1, <2>2, <3>1, <3>6 DEF CountIsTrue
      <3> QED BY <2>2, <3>1, <3>3, <3>7, CountSettles
    <2> QED BY <2>3, <2>4, <2>5 DEF ViewInv
  <1>3. CASE UNCHANGED viewerCount /\ JoinGoes(w, "done") /\ ViewFails  BY <1>1, <1>3, FailsView
  <1> QED BY <1>2, <1>3 DEF Incr

\* Showing what was answered keeps the count.
LEMMA ShowsCount == ASSUME ViewInv, NEW w \in Watchers, NEW n \in Int, n < 0 => Sunk,
                           UpdateStreamViewerCount(n), OnlyTasksOf(w), Sunk => Sunk',
                           \/ joining[w].step = "show" /\ joining'[w].step = "done" /\ leaving'[w] = leaving[w]
                           \/ leaving[w].step = "show" /\ leaving'[w].step = "done" /\ joining'[w] = joining[w],
                           UNCHANGED <<onAir, ending, forgotten, viewer, viewerCount, floored, outrun, viewFaults>>
                    PROVE  ViewInv'
  <1>1. shown' = n /\ shown' \in Int
    BY DEF UpdateStreamViewerCount
  <1>5. peak' \in Int /\ shown' <= peak'  BY DEF UpdateStreamViewerCount, ViewInv, ViewTypes
  <1>2. ViewTypes'  BY <1>1, <1>5 DEF ViewInv, ViewTypes, OnlyTasksOf
  <1>3. CountsAreSound'  BY <1>1, SoundAfter DEF ViewInv, CountsAreSound
  <1>4. ASSUME Smooth' PROVE CountIsTrue'
    <2>1. Smooth /\ CountIsTrue  BY <1>4 DEF Smooth, ViewInv
    <2>2. joining[w].step = "show" => leaving[w].step = "new"  BY <2>1 DEF CountIsTrue, HasJoined
    <2>3. Settles(w)  BY <2>1, <2>2 DEF Settles, Vouches, HasJoined, CountIsTrue
    <2>4. w \in OnCount <=> w \in OnCount'  BY <2>2 DEF OnCount
    <2> QED BY <2>1, <2>3, <2>4, CountSettles, CountStands
  <1> QED BY <1>2, <1>3, <1>4 DEF ViewInv

\* ShowJoin keeps the count.
LEMMA KeepsShowJoin == ASSUME ViewInv, NEW w \in Watchers, ShowJoin(w) PROVE ViewInv'
  <1>1. /\ joining[w].step = "show" /\ JoinGoes(w, "done") /\ UNCHANGED leaving
        /\ UNCHANGED <<onAir, ending, forgotten, viewer, viewerCount, floored, outrun>>
    BY DEF ShowJoin
  <1>2. CASE UpdateStreamViewerCount(joining[w].got) /\ ViewWorks
    BY <1>1, JoinMoves, WatcherFits, <1>2, ShowsCount DEF Sunk, ViewInv, CountsAreSound, ViewWorks
  <1>3. CASE UNCHANGED <<shown, peak>> /\ ViewFails  BY <1>1, <1>3, FailsView
  <1> QED BY <1>2, <1>3 DEF ShowJoin

\* LeaveStream keeps the count.
LEMMA KeepsLeaveStream == ASSUME ViewInv, NEW w \in Watchers, LeaveStream(w) PROVE ViewInv'
  <1>1. /\ leaving[w].step = "new" /\ UNCHANGED joining
        /\ LeaveGoes(w, "update") \/ (LeaveGoes(w, "done") /\ viewer[UserOf[w]] = "none")
        /\ UNCHANGED <<onAir, ending, forgotten, viewer, viewerCount, shown, peak, floored, viewFaults>>  BY DEF LeaveStream
  <1>2. /\ OnlyTasksOf(w) /\ joining'[w] = joining[w]
        /\ leaving'[w].step = "update" \/ (leaving'[w].step = "done" /\ viewer[UserOf[w]] = "none")
    BY <1>1, LeaveMoves
  <1>3. outrun' \in BOOLEAN  BY Zenon DEF LeaveStream
  <1>4. ViewTypes'  BY <1>1, <1>2, <1>3 DEF ViewInv, ViewTypes, OnlyTasksOf
  <1>5. CountsAreSound'  BY <1>1, <1>2, SoundUnread
  <1>6. ASSUME Smooth' PROVE CountIsTrue'
    <2>1. /\ ~outrun /\ joining[w].step \in {"done", "refused"}
          /\ joining[w].step = "refused" => viewer[UserOf[w]] = "none" /\ leaving'[w].step = "done"
      <3>1. /\ ~outrun /\ joining[w].step \in {"done", "refused"}
            /\ joining[w].step = "refused" => viewer[UserOf[w]] = "none"
        BY <1>6 DEF LeaveStream, Smooth
      <3>2. viewer[UserOf[w]] = "none" => LeaveGoes(w, "done")  BY DEF LeaveStream
      <3> QED BY <1>1, <3>1, <3>2, LeaveMoves
    <2>2. Smooth /\ CountIsTrue  BY <1>1, <1>6, <2>1 DEF Smooth, ViewInv
    <2>3. Settles(w)  BY <1>1, <1>2, <2>1, <2>2 DEF CountIsTrue, Settles, Vouches, HasJoined
    <2>4. w \in OnCount <=> w \in OnCount'  BY <1>1, <1>2, <2>1, <2>2 DEF OnCount, CountIsTrue
    <2> QED BY <1>1, <1>2, <2>2, <2>3, <2>4, CountSettles, CountStands
  <1> QED BY <1>4, <1>5, <1>6 DEF ViewInv

\* UpdateViewerStatus keeps the count.
LEMMA KeepsUpdateViewerStatus == ASSUME ViewInv, NEW w \in Watchers, UpdateViewerStatus(w) PROVE ViewInv'
  <1>1. /\ leaving[w].step = "update" /\ UNCHANGED joining
        /\ UNCHANGED <<onAir, ending, forgotten, viewerCount, shown, peak, floored, outrun>>
    BY DEF UpdateViewerStatus
  <1>2. CASE /\ viewer' = [viewer EXCEPT ![UserOf[w]] = IF @ = "none" THEN "none" ELSE "left"]
             /\ LeaveGoes(w, "decr") /\ ViewWorks
    <2>1. /\ OnlyTasksOf(w) /\ joining'[w] = joining[w] /\ leaving'[w].step = "decr" /\ UNCHANGED viewFaults
      BY <1>1, <1>2, LeaveMoves DEF ViewWorks
    <2>2. /\ viewer' \in [Audience -> {"none", "joined", "left"}] /\ viewer'[UserOf[w]] # "joined"
          /\ viewer'[UserOf[w]] = "none" => viewer[UserOf[w]] = "none"
          /\ \A u \in Audience \ {UserOf[w]} : viewer'[u] = viewer[u]
      BY <1>2, WatcherFits DEF ViewTypes
    <2>3. ViewTypes'  BY <1>1, <2>1, <2>2 DEF ViewInv, ViewTypes, OnlyTasksOf
    <2>4. CountsAreSound'  BY <1>1, <2>1, SoundUnread
    <2>5. ASSUME Smooth' PROVE CountIsTrue'
      <3>1. Smooth /\ CountIsTrue  BY <1>1, <2>1, <2>5 DEF Smooth, ViewInv
      <3>2. joining[w].step = "done" /\ viewer[UserOf[w]] # "none"  BY <1>1, <3>1 DEF CountIsTrue, HasJoined
      <3>3. Settles(w)  BY <2>1, <2>2, <3>2 DEF Settles, Vouches, HasJoined
      <3>4. w \in OnCount /\ w \in OnCount'  BY <1>1, <2>1, <3>2 DEF OnCount
      <3> QED BY <1>1, <2>1, <3>1, <3>3, <3>4, CountSettles, CountStands
    <2> QED BY <2>3, <2>4, <2>5 DEF ViewInv
  <1>3. CASE UNCHANGED viewer /\ LeaveGoes(w, "done") /\ ViewFails  BY <1>1, <1>3, FailsView
  <1> QED BY <1>2, <1>3 DEF UpdateViewerStatus

\* Decr keeps the count: who is taken off was on it, so that it was not 0.
LEMMA KeepsDecr == ASSUME ViewInv, NEW w \in Watchers, Decr(w) PROVE ViewInv'
  <1>1. /\ leaving[w].step = "decr" /\ UNCHANGED joining
        /\ UNCHANGED <<onAir, ending, forgotten, viewer, shown, peak, floored, outrun>>
    BY DEF Decr
  <1>2. PICK n \in Int : n = viewerCount  BY DEF ViewInv, ViewTypes
  <1>3. CASE /\ viewerCount' = viewerCount - 1 /\ ViewWorks
             /\ leaving' = [leaving EXCEPT ![w] = [step |-> IF viewerCount > 0 THEN "show" ELSE "floor",
                                                  got |-> viewerCount - 1]]
    <2>1. PICK s \in {"show", "floor"} : s = IF n > 0 THEN "show" ELSE "floor"  OBVIOUS
    <2> DEFINE t == [step |-> s, got |-> n - 1]
    <2>6. t \in Tasks /\ t.step = s /\ t.got = n - 1  BY DEF Tasks
    <2>7. leaving' = [leaving EXCEPT ![w] = t] /\ viewerCount' = n - 1 /\ UNCHANGED viewFaults
      BY <1>2, <1>3, <2>1 DEF ViewWorks
    <2> HIDE DEF t
    <2>2. /\ OnlyTasksOf(w) /\ joining'[w] = joining[w]
          /\ leaving'[w].step = s /\ leaving'[w].got = n - 1
          /\ viewerCount' = n - 1 /\ UNCHANGED viewFaults
      BY <1>1, <2>6, <2>7, TaskAnswered
    <2>3. ViewTypes'  BY <1>1, <2>2 DEF ViewInv, ViewTypes, OnlyTasksOf
    <2>4. CountsAreSound'
      <3>1. Sunk => Sunk'  BY <1>1, <2>2 DEF Sunk, OnlyTasksOf
      <3>2. n <= 0 => Sunk'  BY <2>1, <2>2 DEF Sunk
      <3>3. shown < 0 => Sunk  BY DEF ViewInv, CountsAreSound
      <3>4. shown' < 0 \/ viewerCount' < 0 => Sunk'  BY <1>1, <2>2, <3>1, <3>2, <3>3
      <3>5. leaving'[w].step = "show" => leaving'[w].got >= 0  BY <2>1, <2>2
      <3>6. joining'[w].step = "show" /\ joining'[w].got < 0 => Sunk'  BY <2>2, <3>1 DEF ViewInv, CountsAreSound
      <3> QED BY <2>2, <3>1, <3>4, <3>5, <3>6, SoundAfter
    <2>5. ASSUME Smooth' PROVE CountIsTrue'
      <3>1. Smooth /\ CountIsTrue  BY <1>1, <2>2, <2>5 DEF Smooth, ViewInv
      <3>2. joining[w].step = "done" /\ viewer[UserOf[w]] # "none"  BY <1>1, <3>1 DEF CountIsTrue, HasJoined
      <3>3. w \in OnCount /\ w \notin OnCount'  BY <1>1, <2>1, <2>2, <3>2 DEF OnCount
      <3>4. OnCount' = OnCount \ {w}  BY <2>2, <3>3, OnCountMoves
      <3>5. Cardinality(OnCount') = Cardinality(OnCount) - 1 /\ Cardinality(OnCount) > 0
        BY <3>3, <3>4, OnCountIsFinite, FS_RemoveElement, FS_EmptySet
      <3>6. n > 0 /\ viewerCount' = Cardinality(OnCount)'  BY <1>2, <2>2, <3>1, <3>5 DEF CountIsTrue
      <3>7. leaving'[w].step = "show"  BY <2>1, <2>2, <3>6
      <3>8. Settles(w)  BY <1>1, <2>2, <3>2, <3>7 DEF Settles, Vouches, HasJoined
      <3> QED BY <2>2, <3>1, <3>6, <3>8, CountSettles
    <2> QED BY <2>3, <2>4, <2>5 DEF ViewInv
  <1>4. CASE UNCHANGED viewerCount /\ LeaveGoes(w, "done") /\ ViewFails  BY <1>1, <1>4, FailsView
  <1> QED BY <1>3, <1>4 DEF Decr

\* Floor keeps the count, of which nothing is claimed by then.
LEMMA KeepsFloor == ASSUME ViewInv, NEW w \in Watchers, Floor(w) PROVE ViewInv'
  <1>1. /\ leaving[w].step = "floor" /\ UNCHANGED joining /\ floored' = TRUE
        /\ leaving' = [leaving EXCEPT ![w] = [step |-> "show", got |-> 0]]
        /\ viewerCount' \in {0, viewerCount} /\ (ViewWorks \/ ViewFails)
        /\ UNCHANGED <<onAir, ending, forgotten, viewer, shown, peak, outrun>>
    BY DEF Floor
  <1>10. [step |-> "show", got |-> 0] \in Tasks  BY DEF Tasks
  <1>2. OnlyTasksOf(w) /\ joining'[w] = joining[w] /\ leaving'[w] = [step |-> "show", got |-> 0]
    BY <1>1, <1>10, TaskAnswered
  <1>3. viewFaults' \in 0..MaxViewFaults  BY <1>1, ViewerAssumption DEF ViewInv, ViewTypes, ViewWorks, ViewFails
  <1>4. floored' \in BOOLEAN  BY Zenon, <1>1
  <1>5. ViewTypes'  BY <1>1, <1>2, <1>3, <1>4 DEF ViewInv, ViewTypes, OnlyTasksOf
  <1>6. Sunk'  BY <1>1 DEF Sunk
  <1>7. CountsAreSound'  BY <1>2, <1>6, SoundAfter
  <1>8. ~Smooth \/ leaving[w].step # "floor"  BY DEF ViewInv, CountIsTrue
  <1>9. ~Smooth'
    BY <1>1, <1>8, ViewerAssumption DEF Smooth, ViewInv, ViewTypes, ViewWorks, ViewFails
  <1> QED BY <1>5, <1>7, <1>9 DEF ViewInv

\* ShowLeave keeps the count.
LEMMA KeepsShowLeave == ASSUME ViewInv, NEW w \in Watchers, ShowLeave(w) PROVE ViewInv'
  <1>1. /\ leaving[w].step = "show" /\ LeaveGoes(w, "done") /\ UNCHANGED joining
        /\ UNCHANGED <<onAir, ending, forgotten, viewer, viewerCount, floored, outrun>>
    BY DEF ShowLeave
  <1>2. CASE UpdateStreamViewerCount(leaving[w].got) /\ ViewWorks
    BY <1>1, LeaveMoves, WatcherFits, <1>2, ShowsCount DEF Sunk, OnlyTasksOf, ViewInv, CountsAreSound,
       ViewWorks
  <1>3. CASE UNCHANGED <<shown, peak>> /\ ViewFails  BY <1>1, <1>3, FailsView
  <1> QED BY <1>2, <1>3 DEF ShowLeave

\* That a stream comes on air, and that it ends, leaves the count as it is ...
LEMMA KeepsOnAir == ASSUME ViewInv, GoOnAir \/ GoOffAir PROVE ViewInv'
  <1>1. UNCHANGED <<forgotten, viewer, viewerCount, shown, peak, joining, leaving, floored, outrun, viewFaults>>
    BY DEF GoOnAir, GoOffAir
  <1>2. onAir' \in BOOLEAN /\ ending' \in BOOLEAN  BY Zenon DEF GoOnAir, GoOffAir, ViewInv, ViewTypes
  <1>3. ViewTypes'
    <2>1. forgotten' \in BOOLEAN /\ floored' \in BOOLEAN /\ outrun' \in BOOLEAN
      BY Zenon, <1>1 DEF ViewInv, ViewTypes
    <2> QED BY <1>1, <1>2, <2>1 DEF ViewInv, ViewTypes
  <1> QED BY <1>1, <1>3 DEF ViewInv, CountsAreSound, Sunk, Smooth, CountIsTrue, OnCount, Vouches

\* ... and deleting it after that is noticed if it was not 0.
LEMMA KeepsDropCount == ASSUME ViewInv, DropCount PROVE ViewInv'
  <1>1. /\ UNCHANGED <<onAir, viewer, shown, peak, joining, leaving, floored, outrun>>
        /\ viewerCount' \in {0, viewerCount} /\ (ViewWorks \/ ViewFails)
    BY DEF DropCount
  <1>2. ViewTypes'
    <2>1. onAir' \in BOOLEAN /\ floored' \in BOOLEAN /\ outrun' \in BOOLEAN
      BY Zenon, <1>1 DEF ViewInv, ViewTypes
    <2>2. ending' \in BOOLEAN /\ forgotten' \in BOOLEAN  BY Zenon DEF DropCount, ViewInv, ViewTypes
    <2>3. viewFaults' \in 0..MaxViewFaults
      BY <1>1, ViewerAssumption DEF ViewInv, ViewTypes, ViewWorks, ViewFails
    <2> QED BY <1>1, <2>1, <2>2, <2>3 DEF ViewInv, ViewTypes
  <1>3. CountsAreSound'  BY <1>1 DEF ViewInv, CountsAreSound, Sunk
  <1>4. ASSUME Smooth' PROVE CountIsTrue'
    <2>1. viewFaults' = 0 /\ ~ViewFails
      BY <1>4, ViewerAssumption DEF Smooth, ViewInv, ViewTypes, ViewFails
    <2>2. /\ viewerCount' = viewerCount /\ viewFaults = 0
          /\ ~forgotten
      BY <1>4, <2>1 DEF DropCount, Smooth, ViewWorks
    <2>3. CountIsTrue  BY <1>1, <1>4, <2>2 DEF Smooth, ViewInv
    <2>4. CountIsTrue' <=> CountIsTrue  BY <1>1, <2>2 DEF CountIsTrue, OnCount, Vouches
    <2> QED BY <2>3, <2>4
  <1> QED BY <1>2, <1>3, <1>4 DEF ViewInv

\* Every step keeps the count.
LEMMA NextView == ViewInv /\ [ViewNext]_viewVars => ViewInv'
  <1> SUFFICES ASSUME ViewInv, [ViewNext]_viewVars PROVE ViewInv'  OBVIOUS
  <1>1. CASE UNCHANGED viewVars
    BY <1>1 DEF viewVars, ViewInv, ViewTypes, CountsAreSound, Sunk, Smooth, CountIsTrue, OnCount, Vouches
  <1>2. CASE GoOnAir \/ GoOffAir  BY <1>2, KeepsOnAir
  <1>12. CASE DropCount  BY <1>12, KeepsDropCount
  <1>3. ASSUME NEW w \in Watchers, JoinStream(w) PROVE ViewInv'  BY <1>3, KeepsJoinStream
  <1>4. ASSUME NEW w \in Watchers, UpsertViewer(w) PROVE ViewInv'  BY <1>4, KeepsUpsertViewer
  <1>5. ASSUME NEW w \in Watchers, Incr(w) PROVE ViewInv'  BY <1>5, KeepsIncr
  <1>6. ASSUME NEW w \in Watchers, ShowJoin(w) PROVE ViewInv'  BY <1>6, KeepsShowJoin
  <1>7. ASSUME NEW w \in Watchers, LeaveStream(w) PROVE ViewInv'  BY <1>7, KeepsLeaveStream
  <1>8. ASSUME NEW w \in Watchers, UpdateViewerStatus(w) PROVE ViewInv'  BY <1>8, KeepsUpdateViewerStatus
  <1>9. ASSUME NEW w \in Watchers, Decr(w) PROVE ViewInv'  BY <1>9, KeepsDecr
  <1>10. ASSUME NEW w \in Watchers, Floor(w) PROVE ViewInv'  BY <1>10, KeepsFloor
  <1>11. ASSUME NEW w \in Watchers, ShowLeave(w) PROVE ViewInv'  BY <1>11, KeepsShowLeave
  <1> QED BY <1>1, <1>2, <1>3, <1>4, <1>5, <1>6, <1>7, <1>8, <1>9, <1>10, <1>11, <1>12 DEF ViewNext

\* The invariant has the types and the property: once all rests, each listed user has a connection
\* among those counted, and no two users share one.
LEMMA ViewersFollow == ViewInv => ViewTypeOK /\ TheListedAreCounted
  <1> SUFFICES ASSUME ViewInv PROVE ViewTypeOK /\ TheListedAreCounted  OBVIOUS
  <1>1. ViewTypeOK  BY DEF ViewInv, ViewTypes, CountsAreSound, Sunk, ViewTypeOK
  <1>2. TheListedAreCounted
    <2> DEFINE listed == {u \in Audience : viewer[u] = "joined"}
    <2> SUFFICES ASSUME \A w \in Watchers : Resting(w), ~forgotten, ~outrun, viewFaults = 0
                 PROVE  Cardinality(listed) <= viewerCount
      BY DEF TheListedAreCounted
    <2>1. CountIsTrue  BY DEF ViewInv, Smooth
    <2>2. \A u \in listed : \E w \in OnCount : UserOf[w] = u
      BY <2>1 DEF CountIsTrue, Vouches, Resting, OnCount
    <2> DEFINE users == {UserOf[w] : w \in OnCount}
    <2>3. IsFiniteSet(users) /\ Cardinality(users) <= Cardinality(OnCount) /\ Cardinality(users) \in Nat
      <3> DEFINE f == [w \in OnCount |-> UserOf[w]]
      <3>1. f \in Surjection(OnCount, users)  BY DEF Surjection
      <3> HIDE DEF f, users
      <3> QED BY <3>1, OnCountIsFinite, FS_Surjection, FS_CardinalityType
    <2>4. listed \subseteq users  BY <2>2
    <2>5. Cardinality(listed) <= Cardinality(users) /\ Cardinality(listed) \in Nat
      <3> HIDE DEF listed, users
      <3> QED BY <2>3, <2>4, FS_Subset, FS_CardinalityType
    <2> QED BY <2>1, <2>3, <2>5, OnCountIsFinite DEF CountIsTrue
  <1> QED BY <1>1, <1>2

--------
\* The conversations of the messaging-service (Conversations).

RoomRecs == [type : {"direct", "group"}, role : [Partners -> Roles], read : [Partners -> Nat], bumped : Nat]
PostRecs == [room : Nat, by : SUBSET Partners, at : Nat, deleted : BOOLEAN]
ConvRows == [step : ConvSteps, kind : ConvKinds, by : SUBSET Partners, room : Nat, whom : SUBSET Partners,
             at : Nat, had : SUBSET ConvCalls, got : SUBSET ConvCalls]

ConvTypes ==
    /\ rooms \in Seq(RoomRecs) /\ posts \in [ConvCalls -> PostRecs] /\ convCall \in [ConvCalls -> ConvRows]
    /\ receipts \subseteq Partners \X ConvCalls /\ known \subseteq Partners \X ConvCalls
    /\ overlaid \subseteq Partners \X ConvCalls /\ between \subseteq Partners
    /\ crossedMarks \subseteq Partners /\ crossedBumps \subseteq RoomIds
    /\ microsecond \in Nat /\ soughtAtOnce \in BOOLEAN /\ convFaults \in 0..MaxConvFaults

\* A request past its check has one user and a room that is there, and only groups gain members.
CallFits(w) ==
    /\ w.room \in {0} \cup RoomIds /\ w.at <= microsecond
    /\ w.step \in {"insert", "bump", "mark", "receipts", "add", "remove", "page"} =>
          w.room \in RoomIds /\ \E u \in Partners : w.by = {u}
    /\ w.step \in {"add", "remove"} => \E u \in Partners : w.whom = {u}
    /\ w.step = "add" => w.kind = "add" /\ rooms[w.room].type = "group"
    /\ w.step \in {"mark", "receipts"} => w.kind = "read"
    /\ w.step = "receipts" => w.at # 0

\* A post is in a room, has the time of its statement, and is its request's last but one step.
PostFits(m) ==
    /\ posts[m].room # 0 => /\ posts[m].room \in RoomIds
                            /\ posts[m].at >= 1 /\ posts[m].at <= microsecond
                            /\ convCall[m].step \in {"bump", "ended"}
    /\ convCall[m].step = "bump" => posts[m].room = convCall[m].room
    /\ \A u \in Partners : <<u, m>> \in known \cup receipts => posts[m].room # 0

\* What a participant knows is as old as the mark; the rest, and what is being written, is younger
\* unless the mark was taken over it.
Sending(m, r) == convCall[m].step = "insert" /\ convCall[m].at # 0 /\ convCall[m].room = r
MarkFits(r, u) ==
    /\ rooms[r].read[u] <= microsecond
    /\ u \notin crossedMarks => \A m \in ConvCalls :
          posts[m].room = r /\ <<u, m>> \in known => posts[m].at <= rooms[r].read[u]
    /\ u \notin crossedMarks /\ InRoom(r, u) => \A m \in ConvCalls : <<u, m>> \notin overlaid =>
          /\ posts[m].room = r /\ <<u, m>> \notin known => posts[m].at > rooms[r].read[u]
          /\ Sending(m, r) => convCall[m].at > rooms[r].read[u]

\* A mark that is stamped and not yet written: its request has what was there before, no other mark
\* of the user is, and what came since came between.
Marking(c) == convCall[c].step \in Marks /\ convCall[c].at # 0
MarkingFits(c) ==
    Marking(c) =>
        /\ \A m \in ConvCalls :
              /\ m \in convCall[c].had => posts[m].room = convCall[c].room /\ posts[m].at < convCall[c].at
              /\ posts[m].room = convCall[c].room /\ m \notin convCall[c].had =>
                    MarkOf(c) \subseteq between /\ (m \in convCall[c].got \/ posts[m].at > convCall[c].at)
              /\ Sending(m, convCall[c].room) => m \in convCall[c].got \/ convCall[m].at > convCall[c].at
        /\ \A u \in MarkOf(c) \ crossedMarks : rooms[convCall[c].room].read[u] < convCall[c].at
        /\ \A d \in ConvCalls \ {c} :
              Marking(d) /\ convCall[d].room = convCall[c].room => MarkOf(c) \cap MarkOf(d) \subseteq crossedMarks

\* What has a receipt is as old as the mark, and so is all that is about to have one.
ReceiptsFit(r, u) ==
    InRoom(r, u) /\ u \notin between => \A m \in ConvCalls : posts[m].room = r =>
          /\ <<u, m>> \in receipts => posts[m].at <= rooms[r].read[u]
          /\ \A c \in ConvCalls :
                convCall[c].step = "receipts" /\ convCall[c].room = r /\ u \in convCall[c].by =>
                   posts[m].at <= rooms[r].read[u]

\* Nobody owns a direct conversation, and two users have one, or one about to be made.
ConvsAreOne ==
    /\ \A r, s \in OfBoth : r = s
    /\ \A c \in ConvCalls : convCall[c].step = "create" => OfBoth = {}
    /\ \A c, d \in ConvCalls : convCall[c].step = "create" /\ convCall[d].step = "create" => c = d
RoomsFit ==
    /\ \A r \in RoomIds : rooms[r].type = "direct" => \A u \in Partners : rooms[r].role[u] \in {"none", "member"}
    /\ ~soughtAtOnce => ConvsAreOne

\* A post that its room was not moved up for has its request about to do it; who has the time to move
\* the room up with has it after every such post, and is the only one.
ListFits(m) ==
    convFaults = 0 /\ posts[m].room \notin {0} \cup crossedBumps =>
        posts[m].at < rooms[posts[m].room].bumped \/ convCall[m].step = "bump"
Bumping(c) == convCall[c].step \in Bumps /\ convCall[c].at # 0
BumpingFits(c) ==
    Bumping(c) /\ convCall[c].room \notin crossedBumps =>
        /\ \A d \in ConvCalls \ {c} : ~(Bumping(d) /\ convCall[d].room = convCall[c].room)
        /\ convFaults = 0 => \A m \in ConvCalls :
              posts[m].room = convCall[c].room => \/ posts[m].at < convCall[c].at
                                                  \/ m # c /\ convCall[m].step = "bump"

\* Who reads page by page has had all they began with that is as new as the cursor.
PagesFit(w) ==
    /\ w.step = "page" => \A m \in w.had : /\ posts[m].room = w.room
                                           /\ m \in w.got \/ w.at = 0 \/ posts[m].at < w.at
    /\ w.step = "ended" => w.had \subseteq w.got

ConvInv ==
    /\ ConvTypes /\ (\A c \in ConvCalls : CallFits(convCall[c])) /\ (\A m \in ConvCalls : PostFits(m))
    /\ (\A r \in RoomIds, u \in Partners : MarkFits(r, u)) /\ (\A c \in ConvCalls : MarkingFits(c))
    /\ (\A r \in RoomIds, u \in Partners : ReceiptsFit(r, u)) /\ RoomsFit
    /\ (\A m \in ConvCalls : ListFits(m)) /\ (\A c \in ConvCalls : BumpingFits(c))
    /\ (\A c \in ConvCalls : PagesFit(convCall[c]))

\* A set of numbers that is not empty has a least one.
LEMMA HasLeast ==
    ASSUME NEW T, T \subseteq Nat, T # {}
    PROVE  \E x \in T : \A y \in T : x <= y
<1> DEFINE R == OpToRel(<, Nat)
<1>1. \A x, y \in Nat : x < y => <<x, y>> \in R  BY DEF OpToRel
<1>2. \E x \in T : \A y \in T : ~(<<y, x>> \in R)  BY WFMin, NatLessThanWellFounded, Zenon
<1> HIDE DEF R
<1>3. PICK x \in T : \A y \in T : ~(<<y, x>> \in R)  BY <1>2
<1>4. \A y \in T : ~(y < x)  BY <1>1, <1>3
<1>5. QED BY <1>3, <1>4

\* A bounded set of numbers that is not empty has a largest one.
LEMMA HasLargest ==
    ASSUME NEW b \in Nat, NEW S, S \subseteq 0..b, S # {}
    PROVE  \E x \in S : \A y \in S : x >= y
<1> DEFINE T == {m \in Nat : \A y \in S : y <= m}
<1>1. T \subseteq Nat /\ b \in T  OBVIOUS
<1>2. PICK m \in T : \A k \in T : m <= k  BY <1>1, HasLeast
<1>3. m \in S
  <2>1. SUFFICES ASSUME m \notin S PROVE FALSE  OBVIOUS
  <2>2. PICK y \in S : y \in 0..b  OBVIOUS
  <2>3. \A z \in S : z \in 0..b /\ z <= m /\ z # m  BY <2>1, <1>2
  <2>4. m - 1 \in T  BY <2>2, <2>3, <1>2
  <2>5. QED BY <2>4, <1>2
<1>4. QED BY <1>3, <1>2

\* They fit at first.
LEMMA InitConv == ConvInit => ConvInv
  <1> SUFFICES ASSUME ConvInit PROVE ConvInv  OBVIOUS
  <1>1. Untouched \in ConvRows /\ Untouched.step = "new" /\ Untouched.at = 0 /\ Untouched.had = {} /\ Untouched.room = 0
    BY DEF Untouched, ConvRows, ConvSteps, ConvKinds
  <1>2. NoPost \in PostRecs /\ NoPost.room = 0  BY DEF NoPost, PostRecs
  <1>3. PICK type \in {"none", "direct", "group"}, v \in Partners :
           rooms = IF type = "none" THEN <<>>
                   ELSE <<Room(type, [w \in Partners |-> IF type = "group" /\ w = v THEN "owner" ELSE "member"])>>
    BY DEF ConvInit
  <1> DEFINE first == Room(type, [w \in Partners |-> IF type = "group" /\ w = v THEN "owner" ELSE "member"])
  <1>4. type # "none" => /\ first \in RoomRecs /\ first.type = type /\ first.read = [u \in Partners |-> 0]
                         /\ type = "direct" => \A u \in Partners : first.role[u] = "member"
    BY DEF Room, RoomRecs, Roles
  <1>5. rooms = <<>> \/ (type # "none" /\ rooms = <<first>>)  BY <1>3
  <1> HIDE DEF first
  <1>6. rooms \in Seq(RoomRecs) /\ \A r \in RoomIds : r = 1 /\ type # "none" /\ rooms[r] = first
    <2>1. CASE rooms = <<>>  BY <2>1 DEF RoomIds
    <2>2. CASE type # "none" /\ rooms = <<first>>  BY <1>4, <2>2 DEF RoomIds
    <2> QED BY <1>5, <2>1, <2>2
  <1>7. ConvTypes
    <2>1. soughtAtOnce \in BOOLEAN  BY Zenon DEF ConvInit
    <2> QED BY <1>1, <1>2, <1>6, <2>1, ConversationAssumption DEF ConvInit, ConvTypes
  <1>8. (\A c \in ConvCalls : convCall[c] = Untouched) /\ (\A m \in ConvCalls : posts[m].room = 0)
    BY <1>2 DEF ConvInit
  <1>9. \A c \in ConvCalls :
           CallFits(convCall[c]) /\ PagesFit(convCall[c]) /\ PostFits(c) /\ ListFits(c) /\ MarkingFits(c) /\ BumpingFits(c)
    BY <1>1, <1>8 DEF CallFits, PagesFit, PostFits, ListFits, ConvInit, MarkingFits, Marking, BumpingFits, Bumping
  <1>10. \A r \in RoomIds, u \in Partners : MarkFits(r, u) /\ ReceiptsFit(r, u)
    <2> SUFFICES ASSUME NEW r \in RoomIds, NEW u \in Partners PROVE MarkFits(r, u) /\ ReceiptsFit(r, u)
      OBVIOUS
    <2>1. \A c \in ConvCalls : convCall[c].step = "new"  BY <1>8 DEF Untouched
    <2>2. \A m \in ConvCalls : posts[m].room # r
      <3>1. r = 1  BY <1>6
      <3> QED BY <1>8, <3>1
    <2>3. rooms[r].read[u] <= microsecond
      <3>1. rooms[r].read = [w \in Partners |-> 0]  BY <1>4, <1>6
      <3>2. microsecond = 0  BY DEF ConvInit
      <3> QED BY <3>1, <3>2
    <2> QED BY <2>1, <2>2, <2>3 DEF MarkFits, Sending, ReceiptsFit
  <1>11. RoomsFit
    <2>1. \A c \in ConvCalls : convCall[c].step # "create"  BY <1>1, <1>8
    <2> QED BY <1>4, <1>6, <2>1 DEF RoomsFit, OfBoth, ConvsAreOne
  <1> QED BY <1>7, <1>9, <1>10, <1>11 DEF ConvInv

\* A room that is written, and one that is added.
LEMMA RoomWritten ==
    ASSUME rooms \in Seq(RoomRecs), NEW r \in RoomIds, NEW x \in RoomRecs, rooms' = [rooms EXCEPT ![r] = x]
    PROVE  /\ rooms' \in Seq(RoomRecs) /\ RoomIds' = RoomIds /\ rooms'[r] = x
           /\ \A s \in RoomIds \ {r} : rooms'[s] = rooms[s]
  BY DEF RoomIds

\* A room that is added has a number of its own, the others stay.
LEMMA RoomAdded ==
    ASSUME rooms \in Seq(RoomRecs), NEW x \in RoomRecs, rooms' = Append(rooms, x)
    PROVE  /\ rooms' \in Seq(RoomRecs)
           /\ \E r \in Nat \ {0} : r \notin RoomIds /\ RoomIds' = RoomIds \cup {r} /\ rooms'[r] = x
           /\ \A s \in RoomIds : rooms'[s] = rooms[s]
  <1> DEFINE r == Len(rooms) + 1
  <1>1. r \in Nat \ {0} /\ r \notin RoomIds /\ RoomIds' = RoomIds \cup {r} /\ rooms'[r] = x  BY DEF RoomIds
  <1> QED BY <1>1 DEF RoomIds

\* Rooms have numbers, and 0 is none of them.
LEMMA RoomsAreNumbered == ConvTypes => \A r \in RoomIds : r \in Nat \ {0} /\ rooms[r] \in RoomRecs
  BY DEF ConvTypes, RoomIds

\* A request that is over.
LEMMA OverFits ==
    /\ Over \in ConvRows /\ Over.step = "ended" /\ Over.at = 0 /\ Over.had = {} /\ Over.by = {} /\ Over.room = 0
    /\ Over.got = {}
  BY DEF Over, Untouched, ConvRows, ConvSteps, ConvKinds

\* A request that ends keeps nothing.
LEMMA ConvCallEnds ==
    ASSUME NEW c \in ConvCalls, ConvGoes(c, "ended")
    PROVE  convCall' = [convCall EXCEPT ![c] = Over]
  BY DEF ConvGoes

--------
\* What every step of a request does to the rest.
Forward ==
    /\ RoomIds \subseteq RoomIds' /\ microsecond' \in Nat /\ microsecond <= microsecond'
    /\ \A r \in RoomIds : rooms'[r].type = rooms[r].type
    /\ crossedMarks \subseteq crossedMarks' /\ crossedBumps \subseteq crossedBumps' /\ between \subseteq between'
    /\ convFaults # 0 => convFaults' # 0
PostsKept == \A m \in ConvCalls : posts'[m].room = posts[m].room /\ posts'[m].at = posts[m].at
ConvMoves(c, w) == convCall' = [convCall EXCEPT ![c] = w] /\ w \in ConvRows

\* The other requests stay as they are.
LEMMA TheOthers ==
    ASSUME ConvInv, NEW c \in ConvCalls, NEW w, ConvMoves(c, w)
    PROVE  convCall'[c] = w /\ \A d \in ConvCalls \ {c} : convCall'[d] = convCall[d]
  BY DEF ConvInv, ConvTypes, ConvMoves

\* The other requests still fit when one goes on.
LEMMA CallsStay ==
    ASSUME ConvInv, Forward, NEW c \in ConvCalls, NEW w, CallFits(w)', ConvMoves(c, w)
    PROVE  \A d \in ConvCalls : CallFits(convCall[d])'
  <1> TAKE d \in ConvCalls
  <1>1. CASE d = c  BY <1>1, TheOthers
  <1>2. CASE d # c
    <2>1. CallFits(convCall[d]) /\ convCall[d] \in ConvRows /\ convCall'[d] = convCall[d]
      BY <1>2, TheOthers DEF ConvInv, ConvTypes
    <2> QED BY <2>1 DEF CallFits, Forward, ConvInv, ConvTypes, ConvRows
  <1> QED BY <1>1, <1>2

\* So do the posts, if they stay and the request does not go back behind its own.
LEMMA PostsStay ==
    ASSUME ConvInv, Forward, PostsKept, NEW c \in ConvCalls, NEW w, ConvMoves(c, w),
           posts[c].room # 0 => w.step \in {"bump", "ended"}, w.step = "bump" => posts[c].room = w.room,
           \A m \in ConvCalls, u \in Partners : <<u, m>> \in known' \cup receipts' =>
                                                   <<u, m>> \in known \cup receipts \/ posts[m].room # 0
    PROVE  \A m \in ConvCalls : PostFits(m)'
  <1> TAKE m \in ConvCalls
  <1>1. PostFits(m) /\ posts[m] \in PostRecs  BY DEF ConvInv, ConvTypes
  <1>2. /\ posts'[m].room = posts[m].room /\ posts'[m].at = posts[m].at /\ microsecond \in Nat
        /\ \A u \in Partners : <<u, m>> \in known' \cup receipts' => posts'[m].room # 0
    BY <1>1 DEF PostFits, PostsKept, ConvInv, ConvTypes
  <1>3. CASE m = c  BY <1>1, <1>2, <1>3, TheOthers DEF PostFits, Forward, PostRecs
  <1>4. CASE m # c
    <2>1. convCall'[m] = convCall[m]  BY <1>4, TheOthers
    <2> QED BY <1>1, <1>2, <2>1 DEF PostFits, Forward, PostRecs
  <1> QED BY <1>3, <1>4

\* And those who read page by page.
LEMMA PagesStay ==
    ASSUME ConvInv, NEW c \in ConvCalls, NEW w, PagesFit(w)', ConvMoves(c, w),
           \A m \in ConvCalls : posts[m].room # 0 => posts'[m].room = posts[m].room /\ posts'[m].at = posts[m].at
    PROVE  \A d \in ConvCalls : PagesFit(convCall[d])'
  <1> TAKE d \in ConvCalls
  <1>1. CASE d = c  BY <1>1, TheOthers
  <1>2. CASE d # c
    <2>1. PagesFit(convCall[d]) /\ CallFits(convCall[d]) /\ convCall[d] \in ConvRows /\ convCall'[d] = convCall[d]
      BY <1>2, TheOthers DEF ConvInv, ConvTypes
    <2>2. convCall[d].step = "page" => convCall[d].room # 0  BY <2>1, RoomsAreNumbered DEF CallFits, ConvInv
    <2>3. convCall[d].had \subseteq ConvCalls  BY <2>1 DEF ConvRows
    <2> QED BY <2>1, <2>2, <2>3 DEF PagesFit
  <1> QED BY <1>1, <1>2

\* Marks that are stamped stay fit: what is stamped later is younger, and a mark that is written is of
\* another user, or known to have crossed them.
LEMMA MarkingsStay ==
    ASSUME ConvInv, Forward, PostsKept, NEW c \in ConvCalls, NEW w, ConvMoves(c, w), MarkingFits(c)',
           w.step = "insert" /\ w.at # 0 => w.at > microsecond,
           \A r \in RoomIds, u \in Partners :
              rooms'[r].read[u] = rooms[r].read[u] \/ (Marking(c) /\ r = convCall[c].room /\ u \in MarkOf(c))
    PROVE  \A d \in ConvCalls : MarkingFits(d)'
  <1> TAKE d \in ConvCalls
  <1> SUFFICES ASSUME d # c, Marking(d)' PROVE MarkingFits(d)'  BY DEF MarkingFits
  <1>1. convCall'[d] = convCall[d] /\ convCall'[c] = w  BY TheOthers
  <1>2. MarkOf(d)' = MarkOf(d) /\ Marking(d) /\ MarkingFits(d) /\ CallFits(convCall[d]) /\ convCall[d] \in ConvRows
    BY <1>1 DEF MarkOf, Marking, ConvInv, ConvTypes
  <1> PICK r \in RoomIds, t \in Nat, had \in SUBSET ConvCalls, got \in SUBSET ConvCalls :
         r = convCall[d].room /\ t = convCall[d].at /\ had = convCall[d].had /\ got = convCall[d].got
    BY <1>2 DEF CallFits, ConvRows, Marking, Marks
  <1>3. ASSUME NEW m \in ConvCalls
        PROVE  /\ m \in had => posts'[m].room = r /\ posts'[m].at < t
               /\ posts'[m].room = r /\ m \notin had =>
                     MarkOf(d)' \subseteq between' /\ (m \in got \/ posts'[m].at > t)
    BY <1>2 DEF PostsKept, Forward, MarkingFits
  <1>4. ASSUME NEW m \in ConvCalls, Sending(m, r)' PROVE m \in got \/ convCall'[m].at > t
    <2>1. CASE m = c
      <3>1. w.at > microsecond /\ w.at \in Nat /\ microsecond \in Nat /\ t <= microsecond
        BY <1>1, <1>2, <1>4, <2>1 DEF Sending, ConvMoves, ConvRows, CallFits, ConvInv, ConvTypes
      <3> QED BY <1>1, <2>1, <3>1
    <2>2. CASE m # c  BY <1>2, <1>4, <2>2, TheOthers DEF Sending, MarkingFits
    <2> QED BY <2>1, <2>2
  <1>5. \A u \in MarkOf(d) \ crossedMarks' : rooms'[r].read[u] < t
    <2> TAKE u \in MarkOf(d) \ crossedMarks'
    <2>1. u \in Partners  BY <1>2 DEF MarkOf, ConvRows
    <2>2. u \notin crossedMarks /\ rooms[r].read[u] < t  BY <1>2 DEF Forward, MarkingFits
    <2>3. rooms'[r].read[u] = rooms[r].read[u]  BY <1>2, <2>1, <2>2 DEF MarkingFits
    <2> QED BY <2>2, <2>3
  <1>6. \A e \in ConvCalls \ {d} :
           Marking(e)' /\ convCall'[e].room = r => MarkOf(d) \cap MarkOf(e)' \subseteq crossedMarks'
    <2> SUFFICES ASSUME NEW e \in ConvCalls \ {d}, Marking(e)', convCall'[e].room = r
                 PROVE  MarkOf(d) \cap MarkOf(e)' \subseteq crossedMarks'
      OBVIOUS
    <2>1. CASE e = c  BY <1>1, <1>2, <2>1 DEF MarkingFits
    <2>2. CASE e # c
      <3>1. convCall'[e] = convCall[e]  BY <2>2, TheOthers
      <3>2. Marking(e) /\ MarkOf(e)' = MarkOf(e)  BY <3>1 DEF Marking, MarkOf
      <3> QED BY <1>2, <3>1, <3>2 DEF MarkingFits, Forward
    <2> QED BY <2>1, <2>2
  <1>7. convCall'[d].room = r /\ convCall'[d].at = t /\ convCall'[d].had = had /\ convCall'[d].got = got  BY <1>1
  <1> QED BY <1>2, <1>3, <1>4, <1>5, <1>6, <1>7 DEF MarkingFits

\* So do those who have the time to move a conversation up with.
LEMMA BumpsStay ==
    ASSUME ConvInv, Forward, PostsKept, NEW c \in ConvCalls, NEW w, ConvMoves(c, w), BumpingFits(c)',
           convCall[c].step = "bump" => w.step = "bump" \/ Bumping(c) \/ convFaults' # 0
    PROVE  \A d \in ConvCalls : BumpingFits(d)'
  <1> TAKE d \in ConvCalls
  <1> SUFFICES ASSUME d # c, Bumping(d)', convCall'[d].room \notin crossedBumps' PROVE BumpingFits(d)'
    BY DEF BumpingFits
  <1>1. convCall'[d] = convCall[d] /\ convCall'[c] = w  BY TheOthers
  <1>2. Bumping(d) /\ BumpingFits(d) /\ convCall[d].room \notin crossedBumps
    BY <1>1 DEF Bumping, ConvInv, Forward
  <1>3. ASSUME NEW e \in ConvCalls \ {d} PROVE ~(Bumping(e)' /\ convCall'[e].room = convCall'[d].room)
    BY <1>1, <1>2, TheOthers DEF BumpingFits, Bumping
  <1>4. ASSUME convFaults' = 0, NEW m \in ConvCalls, posts'[m].room = convCall'[d].room
        PROVE  posts'[m].at < convCall'[d].at \/ (m # d /\ convCall'[m].step = "bump")
    <2>1. convFaults = 0 /\ posts[m].room = convCall[d].room  BY <1>1, <1>4 DEF Forward, PostsKept
    <2>2. posts'[m].at < convCall'[d].at \/ (m # d /\ convCall[m].step = "bump")
      BY <1>1, <1>2, <2>1 DEF BumpingFits, PostsKept
    <2>3. m # c => convCall'[m] = convCall[m]  BY TheOthers
    <2>4. m = c /\ convCall[c].step = "bump" => w.step = "bump"
      BY <1>2, <1>4, <2>1 DEF BumpingFits, ConvInv, PostFits
    <2> QED BY <1>1, <2>2, <2>3, <2>4
  <1> QED BY <1>3, <1>4 DEF BumpingFits

\* And the order of the list.
LEMMA ListsStay ==
    ASSUME ConvInv, Forward, PostsKept, NEW c \in ConvCalls, NEW w, ConvMoves(c, w),
           \A r \in RoomIds : \/ rooms'[r].bumped = rooms[r].bumped
                              \/ Bumping(c) /\ r = convCall[c].room /\ rooms'[r].bumped = convCall[c].at,
           convCall[c].step = "bump" => \/ w.step = "bump" \/ convFaults' # 0
                                        \/ Bumping(c) /\ rooms'[convCall[c].room].bumped = convCall[c].at
    PROVE  \A m \in ConvCalls : ListFits(m)'
  <1> SUFFICES ASSUME NEW m \in ConvCalls, convFaults' = 0, posts'[m].room \notin {0} \cup crossedBumps'
               PROVE  posts'[m].at < rooms'[posts'[m].room].bumped \/ convCall'[m].step = "bump"
    BY DEF ListFits
  <1>1. /\ posts'[m].room = posts[m].room /\ posts'[m].at = posts[m].at /\ posts[m].room \in RoomIds
        /\ posts[m].room \notin crossedBumps /\ convFaults = 0 /\ convCall'[c] = w
        /\ \A d \in ConvCalls \ {c} : convCall'[d] = convCall[d]
    BY TheOthers DEF PostsKept, Forward, ConvInv, PostFits
  <1>2. posts[m].at < rooms[posts[m].room].bumped \/ convCall[m].step = "bump"  BY <1>1 DEF ConvInv, ListFits
  <1>3. convCall[c].step = "bump" => posts[c].room = convCall[c].room  BY DEF ConvInv, PostFits
  <1>4. Bumping(c) /\ posts[m].room = convCall[c].room =>
           posts[m].at < convCall[c].at \/ (m # c /\ convCall[m].step = "bump")
    BY <1>1 DEF ConvInv, BumpingFits
  <1> QED BY <1>1, <1>2, <1>3, <1>4

\* A step that changes a call only.
LEMMA OnlyTheCall ==
    ASSUME ConvInv, NEW c \in ConvCalls, NEW w, ConvMoves(c, w),
           UNCHANGED <<rooms, posts, receipts, known, overlaid, between>>,
           microsecond' \in {microsecond, microsecond + 1},
           convFaults' \in 0..MaxConvFaults, convFaults # 0 => convFaults' # 0,
           crossedMarks \subseteq crossedMarks', crossedMarks' \subseteq Partners,
           crossedBumps \subseteq crossedBumps', crossedBumps' \subseteq RoomIds,
           soughtAtOnce' \in BOOLEAN,
           ~soughtAtOnce' => /\ ~soughtAtOnce
                             /\ w.step = "create" => OfBoth = {} /\ \A d \in ConvCalls : convCall[d].step # "create",
           CallFits(w)', PagesFit(w)', MarkingFits(c)', BumpingFits(c)',
           posts[c].room # 0 => w.step \in {"bump", "ended"}, w.step = "bump" => posts[c].room = w.room,
           w.step = "insert" /\ w.at # 0 => w.at > microsecond,
           w.step = "receipts" => \A v \in w.by : ~InRoom(w.room, v),
           convCall[c].step = "bump" => w.step = "bump" \/ convFaults' # 0
    PROVE  ConvInv'
  <1>1. ConvTypes /\ microsecond \in Nat /\ Forward /\ PostsKept
    BY DEF ConvInv, ConvTypes, Forward, RoomIds, PostsKept
  <1>2. RoomIds' = RoomIds /\ OfBoth' = OfBoth /\ \A r, u : InRoom(r, u)' <=> InRoom(r, u)
    BY DEF RoomIds, OfBoth, InRoom
  <1>3. ConvTypes'  BY <1>1, <1>2 DEF ConvTypes, ConvMoves
  <1>4. (\A d \in ConvCalls : CallFits(convCall[d])') /\ (\A d \in ConvCalls : PagesFit(convCall[d])')
    BY <1>1, CallsStay, PagesStay
  <1>5. \A m \in ConvCalls : PostFits(m)'  BY <1>1, PostsStay
  <1>6. \A d \in ConvCalls : MarkingFits(d)'  BY <1>1, MarkingsStay
  <1>7. (\A d \in ConvCalls : BumpingFits(d)') /\ (\A m \in ConvCalls : ListFits(m)')
    BY <1>1, BumpsStay, ListsStay
  <1>8. convCall'[c] = w /\ \A d \in ConvCalls : d # c => convCall'[d] = convCall[d]  BY TheOthers
  <1>9. ASSUME NEW r \in RoomIds', NEW u \in Partners PROVE MarkFits(r, u)'
    <2>1. r \in RoomIds /\ MarkFits(r, u) /\ rooms[r].read[u] \in Nat
      BY <1>1, <1>2, RoomsAreNumbered DEF ConvInv, RoomRecs
    <2>2. ASSUME NEW m \in ConvCalls, Sending(m, r)'
          PROVE  (Sending(m, r) /\ convCall'[m].at = convCall[m].at) \/ convCall'[m].at > microsecond
      BY <1>8, <2>2 DEF Sending
    <2>3. \A m \in ConvCalls : convCall'[m].at \in Nat  BY <1>3 DEF ConvTypes, ConvRows
    <2>4. \A m \in ConvCalls : convCall'[m].at > microsecond => convCall'[m].at > rooms[r].read[u]
      BY <1>1, <2>1, <2>3 DEF MarkFits
    <2> QED BY <1>1, <1>2, <2>1, <2>2, <2>4 DEF MarkFits
  <1>10. ASSUME NEW r \in RoomIds', NEW u \in Partners PROVE ReceiptsFit(r, u)'
    BY <1>1, <1>2, <1>8 DEF ConvInv, ReceiptsFit
  <1>11. RoomsFit'
    <2>1. ~soughtAtOnce' => ConvsAreOne'  BY <1>2, <1>8 DEF ConvInv, RoomsFit, ConvsAreOne
    <2> QED BY <1>2, <2>1 DEF ConvInv, RoomsFit
  <1> QED BY <1>3, <1>4, <1>5, <1>6, <1>7, <1>9, <1>10, <1>11 DEF ConvInv

\* A request that begins.
LEMMA ConvCallBegins ==
    ASSUME ConvInv, NEW c \in ConvCalls, NEW w \in ConvRows, ConvSets(c, w),
           w.step \notin {"bump", "receipts"}, w.at = 0, CallFits(w), PagesFit(w), soughtAtOnce' \in BOOLEAN,
           ~soughtAtOnce' => /\ ~soughtAtOnce
                             /\ w.step = "create" => OfBoth = {} /\ \A d \in ConvCalls : convCall[d].step # "create"
    PROVE  ConvInv'
  <1>1. /\ convCall[c].step = "new" /\ ConvMoves(c, w)
        /\ UNCHANGED <<rooms, posts, receipts, microsecond, known, overlaid, between, crossedMarks, crossedBumps, convFaults>>
    BY DEF ConvSets, ConvAt, ConvMoves
  <1>2. posts[c].room = 0  BY <1>1 DEF ConvInv, PostFits
  <1>3. CallFits(w)' /\ PagesFit(w)'  BY <1>1 DEF CallFits, PagesFit, RoomIds
  <1>4. convCall'[c] = w  BY <1>1, TheOthers
  <1>5. MarkingFits(c)' /\ BumpingFits(c)'  BY <1>4 DEF MarkingFits, Marking, BumpingFits, Bumping
  <1>6. /\ microsecond' \in {microsecond, microsecond + 1} /\ convFaults' \in 0..MaxConvFaults
        /\ crossedMarks' \subseteq Partners /\ crossedBumps' \subseteq RoomIds
    BY <1>1 DEF ConvInv, ConvTypes
  <1> QED BY <1>1, <1>2, <1>3, <1>5, <1>6, OnlyTheCall

LEMMA ConvCallEnters ==
    ASSUME ConvInv, NEW c \in ConvCalls, NEW w \in ConvRows, ConvBegins(c, w),
           w.step \notin {"bump", "receipts", "create"}, w.at = 0, CallFits(w), PagesFit(w)
    PROVE  ConvInv'
  <1>1. ConvSets(c, w) /\ soughtAtOnce' = soughtAtOnce  BY DEF ConvBegins
  <1>2. soughtAtOnce \in BOOLEAN  BY DEF ConvInv, ConvTypes
  <1> QED BY <1>1, <1>2, ConvCallBegins

\* FindOrCreateConversation finds one, or is about to make one.
LEMMA FindConv == ASSUME ConvInv, NEW c \in ConvCalls, FindOrCreateConversation(c) PROVE ConvInv'
  <1>1. PICK u \in Partners :
           /\ ConvSets(c, IF OfBoth # {} THEN Over ELSE [Untouched EXCEPT !.step = "create", !.by = {u}])
           /\ soughtAtOnce' = (soughtAtOnce \/ \E w \in ConvCalls : ConvAt(w, "create"))
    BY DEF FindOrCreateConversation
  <1>2. soughtAtOnce' \in BOOLEAN /\ (~soughtAtOnce' => ~soughtAtOnce /\ \A d \in ConvCalls : convCall[d].step # "create")
    BY <1>1 DEF ConvAt
  <1>3. CASE OfBoth # {}
    <2>1. CallFits(Over) /\ PagesFit(Over)  BY OverFits DEF CallFits, PagesFit, ConvInv, ConvTypes
    <2>2. ConvSets(c, Over)  BY <1>1, <1>3
    <2> QED BY <1>2, <2>1, <2>2, OverFits, ConvCallBegins
  <1>4. CASE OfBoth = {}
    <2> DEFINE w == [Untouched EXCEPT !.step = "create", !.by = {u}]
    <2>1. w \in ConvRows /\ w.step = "create" /\ w.at = 0 /\ w.room = 0
      BY DEF Untouched, ConvRows, ConvSteps, ConvKinds
    <2>2. ConvSets(c, w)  BY <1>1, <1>4
    <2> HIDE DEF w
    <2>3. CallFits(w) /\ PagesFit(w)  BY <2>1 DEF CallFits, PagesFit, ConvInv, ConvTypes
    <2> QED BY <1>2, <1>4, <2>1, <2>2, <2>3, ConvCallBegins
  <1> QED BY <1>3, <1>4

\* IsParticipant before a message, a read mark or a walk through the pages.
LEMMA EnterConv ==
    ASSUME ConvInv, NEW c \in ConvCalls, NEW kind, NEW step, Enters(c, kind, step),
           <<kind, step>> \in {<<"send", "insert">>, <<"read", "mark">>, <<"walk", "page">>}
    PROVE  ConvInv'
  <1>1. PICK r \in RoomIds, u \in Partners :
           ConvBegins(c, [Untouched EXCEPT !.step = step, !.kind = kind, !.by = {u}, !.room = r,
                                           !.had = IF kind = "walk" THEN PostsIn(r) ELSE {}])
    BY DEF Enters
  <1> DEFINE had == IF kind = "walk" THEN PostsIn(r) ELSE {}
             w == [Untouched EXCEPT !.step = step, !.kind = kind, !.by = {u}, !.room = r, !.had = had]
  <1>2. had \in SUBSET ConvCalls /\ \A m \in had : posts[m].room = r  BY DEF PostsIn
  <1>3. ConvBegins(c, w)  BY <1>1
  <1>4. r \in Nat /\ ConvTypes  BY RoomsAreNumbered DEF ConvInv
  <1> HIDE DEF had
  <1>5. w \in ConvRows /\ w.step = step /\ w.kind = kind /\ w.at = 0 /\ w.by = {u} /\ w.room = r /\ w.had = had
    BY <1>2, <1>4 DEF Untouched, ConvRows, ConvSteps, ConvKinds
  <1> HIDE DEF w
  <1>6. CallFits(w) /\ PagesFit(w)  BY <1>2, <1>4, <1>5 DEF CallFits, PagesFit, ConvTypes
  <1> QED BY <1>3, <1>5, <1>6, ConvCallEnters

\* isMemberWithRole before a member is added, who may being an owner, so that the conversation is a
\* group; and before one is removed or leaves.
LEMMA ManageConv ==
    ASSUME ConvInv, NEW c \in ConvCalls, AddGroupMembers(c) \/ RemoveGroupMember(c)
    PROVE  ConvInv'
  <1>1. PICK r \in RoomIds, u \in Partners, who \in Partners, kind \in {"add", "remove"} :
           /\ kind = "add" => rooms[r].role[u] = "owner"
           /\ ConvBegins(c, [Untouched EXCEPT !.step = kind, !.kind = kind, !.by = {u}, !.room = r, !.whom = {who}])
    BY DEF AddGroupMembers, RemoveGroupMember, MayManage
  <1> DEFINE w == [Untouched EXCEPT !.step = kind, !.kind = kind, !.by = {u}, !.room = r, !.whom = {who}]
  <1>2. ConvBegins(c, w)  BY <1>1
  <1>3. r \in Nat /\ ConvTypes /\ rooms[r].type \in {"direct", "group"}
    BY RoomsAreNumbered DEF ConvInv, RoomRecs
  <1>4. kind = "add" => rooms[r].type = "group"  BY <1>1, <1>3 DEF ConvInv, RoomsFit
  <1>5. w \in ConvRows /\ w.step = kind /\ w.kind = kind /\ w.at = 0 /\ w.by = {u} /\ w.room = r /\ w.whom = {who}
    BY <1>3 DEF Untouched, ConvRows, ConvSteps, ConvKinds
  <1> HIDE DEF w
  <1>6. CallFits(w) /\ PagesFit(w)  BY <1>3, <1>4, <1>5 DEF CallFits, PagesFit, ConvTypes
  <1> QED BY <1>2, <1>5, <1>6, ConvCallEnters

\* A statement fails, or the process stops.
LEMMA FailConv == ASSUME ConvInv, NEW c \in ConvCalls, ConvCallFails(c) PROVE ConvInv'
  <1>1. /\ ConvMoves(c, Over) /\ convFaults' = convFaults + 1 /\ convFaults < MaxConvFaults
        /\ UNCHANGED <<rooms, posts, receipts, microsecond, known, overlaid, between, crossedMarks, crossedBumps, soughtAtOnce>>
    BY ConvCallEnds, OverFits DEF ConvCallFails, races, ConvMoves
  <1>2. /\ microsecond \in Nat /\ convFaults \in 0..MaxConvFaults /\ MaxConvFaults \in Nat /\ soughtAtOnce \in BOOLEAN
        /\ crossedMarks \subseteq Partners /\ crossedBumps \subseteq RoomIds
    BY ConversationAssumption DEF ConvInv, ConvTypes
  <1>3. CallFits(Over)' /\ PagesFit(Over)'  BY <1>1, <1>2, OverFits DEF CallFits, PagesFit
  <1>4. microsecond' \in {microsecond, microsecond + 1} /\ convFaults' \in 0..MaxConvFaults /\ convFaults' # 0
    BY <1>1, <1>2
  <1>5. convCall'[c] = Over  BY <1>1, TheOthers
  <1>6. MarkingFits(c)' /\ BumpingFits(c)'  BY <1>5, OverFits DEF MarkingFits, Marking, BumpingFits, Bumping
  <1> QED BY <1>1, <1>2, <1>3, <1>4, <1>6, OverFits, OnlyTheCall

\* A request gets its time: later than all there are.
LEMMA StampConv == ASSUME ConvInv, NEW c \in ConvCalls, TakeStamp(c) PROVE ConvInv'
  <1> PICK step, r, now : step = convCall[c].step /\ r = convCall[c].room /\ now = microsecond + 1  OBVIOUS
  <1>1. /\ step \in {"insert", "mark", "add", "bump"} /\ convCall[c].at = 0 /\ microsecond' = now
        /\ convCall' = [convCall EXCEPT ![c] = [convCall[c] EXCEPT !.at = now, !.had = PostsIn(r), !.got = BeingWritten(r)]]
        /\ crossedMarks' = crossedMarks \cup (MarkOf(c) \cap
              UNION {MarkOf(w) : w \in IF step \in Marks THEN Writing(Marks, r) ELSE {}})
        /\ crossedBumps' = IF (IF step \in Bumps THEN Writing(Bumps, r) ELSE {}) = {} THEN crossedBumps
                           ELSE crossedBumps \cup {r}
        /\ UNCHANGED <<rooms, posts, receipts, known, overlaid, between, soughtAtOnce, convFaults>>
    BY DEF TakeStamp, StatementStarts, Marks, Bumps
  <1>2. /\ microsecond \in Nat /\ now \in Nat /\ now > microsecond /\ convCall[c] \in ConvRows /\ ConvTypes
        /\ CallFits(convCall[c])
    BY DEF ConvInv, ConvTypes
  <1>3. PICK w \in ConvRows : /\ convCall' = [convCall EXCEPT ![c] = w] /\ w.step = step /\ w.at = now /\ w.room = r
                              /\ w.by = convCall[c].by /\ w.whom = convCall[c].whom /\ w.kind = convCall[c].kind
                              /\ w.had = PostsIn(r) /\ w.got = BeingWritten(r)
    <2> DEFINE v == [convCall[c] EXCEPT !.at = now, !.had = PostsIn(r), !.got = BeingWritten(r)]
    <2>1. PostsIn(r) \subseteq ConvCalls /\ BeingWritten(r) \subseteq ConvCalls  BY DEF PostsIn, BeingWritten
    <2>2. /\ v \in ConvRows /\ v.step = step /\ v.at = now /\ v.room = r
          /\ v.by = convCall[c].by /\ v.whom = convCall[c].whom /\ v.kind = convCall[c].kind
          /\ v.had = PostsIn(r) /\ v.got = BeingWritten(r)
      <3> HIDE DEF PostsIn, BeingWritten
      <3> QED BY <1>2, <2>1 DEF ConvRows
    <2>3. convCall' = [convCall EXCEPT ![c] = v]  BY <1>1
    <2> HIDE DEF v
    <2> QED BY <2>2, <2>3
  <1>4. ConvMoves(c, w) /\ convCall'[c] = w /\ \A d \in ConvCalls \ {c} : convCall'[d] = convCall[d]
    BY <1>3, TheOthers DEF ConvMoves
  <1>5. r \in RoomIds /\ r # 0  BY <1>1, <1>2, RoomsAreNumbered DEF CallFits
  <1>6. CallFits(w)' /\ PagesFit(w)'  BY <1>1, <1>2, <1>3 DEF CallFits, PagesFit, RoomIds
  <1>7. \A d \in ConvCalls : MarkOf(d) \subseteq Partners /\ MarkOf(d)' = MarkOf(d)
    <2> TAKE d \in ConvCalls
    <2>1. convCall[d] \in ConvRows  BY <1>2 DEF ConvTypes
    <2> QED BY <1>3, <1>4, <2>1 DEF MarkOf, ConvRows
  <1>8. \A m \in ConvCalls : posts[m].room = r => posts[m].at \in Nat /\ posts[m].at < now
    <2> TAKE m \in ConvCalls
    <2>1. posts[m].at \in Nat /\ (posts[m].room = r => posts[m].at <= microsecond)
      BY <1>2, <1>5 DEF ConvInv, PostFits, ConvTypes, PostRecs
    <2> QED BY <1>2, <2>1
  <1>9. /\ crossedMarks \subseteq crossedMarks' /\ crossedMarks' \subseteq Partners
        /\ crossedBumps \subseteq crossedBumps' /\ crossedBumps' \subseteq RoomIds
    BY <1>1, <1>2, <1>5, <1>7 DEF ConvTypes
  <1>10. MarkingFits(c)'
    <2> SUFFICES ASSUME step \in Marks PROVE MarkingFits(c)'  BY <1>3, <1>4 DEF MarkingFits, Marking
    <2>1. crossedMarks' = crossedMarks \cup (MarkOf(c) \cap UNION {MarkOf(d) : d \in Writing(Marks, r)})  BY <1>1
    <2>2. \A d \in ConvCalls \ {c} : Marking(d) /\ convCall[d].room = r => MarkOf(c) \cap MarkOf(d) \subseteq crossedMarks'
      BY <2>1 DEF Marking, Writing
    <2>3. \A d \in ConvCalls \ {c} : Marking(d)' /\ convCall'[d].room = r => Marking(d) /\ convCall[d].room = r
      BY <1>4 DEF Marking
    <2>4. \A d \in ConvCalls \ {c} : Marking(d)' /\ convCall'[d].room = r => MarkOf(c)' \cap MarkOf(d)' \subseteq crossedMarks'
      BY <1>7, <2>2, <2>3
    <2>5. \A u \in Partners : rooms[r].read[u] \in Nat /\ rooms[r].read[u] <= microsecond
      BY <1>2, <1>5, RoomsAreNumbered DEF RoomRecs, ConvInv, MarkFits
    <2>6. \A u \in MarkOf(c)' \ crossedMarks' : rooms'[r].read[u] < now  BY <1>1, <1>2, <1>7, <2>5
    <2>7. \A m \in ConvCalls : /\ m \in w.had <=> posts[m].room = r
                               /\ Sending(m, r)' => m \in w.got
      <3>1. step # "insert"  BY DEF Marks
      <3> QED BY <1>3, <1>4, <3>1 DEF PostsIn, BeingWritten, Sending, ConvAt
    <2> QED BY <1>1, <1>3, <1>4, <1>8, <2>4, <2>6, <2>7 DEF MarkingFits
  <1>11. BumpingFits(c)'
    <2> SUFFICES ASSUME step \in Bumps, r \notin crossedBumps' PROVE BumpingFits(c)'
      BY <1>3, <1>4 DEF BumpingFits, Bumping
    <2>1. Writing(Bumps, r) = {}  BY <1>1
    <2>2. \A d \in ConvCalls \ {c} : ~(Bumping(d)' /\ convCall'[d].room = r)  BY <1>4, <2>1 DEF Writing, Bumping
    <2> QED BY <1>1, <1>3, <1>4, <1>8, <2>2 DEF BumpingFits
  <1>12. /\ microsecond' \in {microsecond, microsecond + 1} /\ convFaults' \in 0..MaxConvFaults /\ soughtAtOnce \in BOOLEAN
         /\ posts[c].room # 0 => step = "bump"
    BY <1>1, <1>2 DEF ConvTypes, ConvInv, PostFits
  <1>13. step = "bump" => posts[c].room = w.room  BY <1>3 DEF ConvInv, PostFits
  <1> QED BY <1>1, <1>2, <1>3, <1>4, <1>6, <1>9, <1>10, <1>11, <1>12, <1>13, OnlyTheCall

--------
\* A room somebody joins.
LEMMA JoinedFits ==
    ASSUME NEW one \in RoomRecs, NEW who \in SUBSET Partners, NEW role \in Roles, NEW at \in Nat
    PROVE  /\ Joined(one, who, role, at) \in RoomRecs
           /\ Joined(one, who, role, at).type = one.type
           /\ Joined(one, who, role, at).bumped = one.bumped
           /\ \A u \in Partners :
                 /\ Joined(one, who, role, at).role[u] = IF u \in who THEN role ELSE one.role[u]
                 /\ Joined(one, who, role, at).read[u] = IF u \in who THEN at ELSE one.read[u]
  BY DEF Joined, RoomRecs

\* A room nobody is in yet.
LEMMA EmptyFits ==
    ASSUME NEW type \in {"direct", "group"}
    PROVE  /\ Empty(type) \in RoomRecs /\ Empty(type).type = type
           /\ \A u \in Partners : Empty(type).role[u] = "none" /\ Empty(type).read[u] = 0
  BY DEF Empty, Room, RoomRecs, Roles

\* A room that is made: nothing has been written in it.
LEMMA RoomMade ==
    ASSUME ConvInv, NEW c \in ConvCalls, convCall[c].step \in {"new", "create"},
           convCall' = [convCall EXCEPT ![c] = Over], microsecond' = microsecond + 1,
           NEW x \in RoomRecs, rooms' = Append(rooms, x),
           \A u \in Partners : x.read[u] <= microsecond + 1,
           x.type = "direct" => /\ convCall[c].step = "create"
                                /\ \A u \in Partners : x.role[u] \in {"none", "member"},
           UNCHANGED <<posts, receipts, known, overlaid, between, races, convFaults>>
    PROVE  ConvInv'
  <1>1. /\ ConvTypes /\ microsecond \in Nat /\ ConvMoves(c, Over) /\ posts[c].room = 0
        /\ UNCHANGED <<crossedMarks, crossedBumps, soughtAtOnce>>
    BY OverFits DEF ConvInv, ConvTypes, PostFits, ConvMoves, races
  <1>2. PICK r \in Nat \ {0} : r \notin RoomIds /\ RoomIds' = RoomIds \cup {r} /\ rooms'[r] = x
    BY <1>1, RoomAdded DEF ConvTypes
  <1>3. rooms' \in Seq(RoomRecs) /\ \A s \in RoomIds : rooms'[s] = rooms[s]  BY <1>1, RoomAdded DEF ConvTypes
  <1>4. Forward /\ PostsKept
    <2>1. RoomIds \subseteq RoomIds'  BY <1>2
    <2>2. microsecond' \in Nat /\ microsecond <= microsecond'  BY <1>1
    <2> QED BY <1>1, <1>3, <2>1, <2>2 DEF Forward, PostsKept
  <1>5. ConvTypes'  BY <1>1, <1>2, <1>3, <1>4, OverFits DEF ConvTypes, ConvMoves, Forward
  <1>6. CallFits(Over)' /\ PagesFit(Over)'  BY <1>1, OverFits DEF CallFits, PagesFit
  <1>7. (\A d \in ConvCalls : d # c => convCall'[d] = convCall[d]) /\ convCall'[c] = Over  BY <1>1, TheOthers
  <1>8. MarkingFits(c)' /\ BumpingFits(c)'  BY <1>7, OverFits DEF MarkingFits, Marking, BumpingFits, Bumping
  <1>9. /\ (\A d \in ConvCalls : CallFits(convCall[d])') /\ (\A d \in ConvCalls : PagesFit(convCall[d])')
        /\ (\A m \in ConvCalls : PostFits(m)')
    BY <1>1, <1>4, <1>6, OverFits, CallsStay, PagesStay, PostsStay
  <1>10. (\A d \in ConvCalls : MarkingFits(d)') /\ (\A d \in ConvCalls : BumpingFits(d)') /\ (\A m \in ConvCalls : ListFits(m)')
    <2>1. Over.step # "insert"  BY OverFits
    <2> QED BY <1>1, <1>3, <1>4, <1>8, <2>1, MarkingsStay, BumpsStay, ListsStay
  <1>11. \A m \in ConvCalls : posts[m].room # r  BY <1>2 DEF ConvInv, PostFits
  <1>12. \A d \in ConvCalls : convCall'[d].step \in {"insert", "receipts"} =>
            d # c /\ convCall[d].room \in RoomIds /\ convCall[d].room # r
    BY <1>2, <1>7, OverFits DEF ConvInv, CallFits
  <1>13. ASSUME NEW s \in RoomIds', NEW u \in Partners PROVE MarkFits(s, u)' /\ ReceiptsFit(s, u)'
    <2>1. CASE s = r  BY <1>2, <1>7, <1>11, <1>12, <2>1 DEF MarkFits, ReceiptsFit, Sending
    <2>2. CASE s \in RoomIds
      <3>1. rooms'[s] = rooms[s] /\ MarkFits(s, u) /\ ReceiptsFit(s, u) /\ rooms[s] \in RoomRecs
        BY <1>1, <1>3, <2>2, RoomsAreNumbered DEF ConvInv
      <3>2. rooms[s].read[u] \in Nat  BY <3>1 DEF RoomRecs
      <3>3. MarkFits(s, u)'  BY <1>1, <1>7, <1>12, <3>1, <3>2 DEF MarkFits, InRoom, Sending
      <3>4. ReceiptsFit(s, u)'  BY <1>7, <1>12, <3>1 DEF ReceiptsFit, InRoom
      <3> QED BY <3>3, <3>4
    <2> QED BY <1>2, <2>1, <2>2
  <1>14. RoomsFit'
    <2>1. \A s \in RoomIds' : rooms'[s].type = "direct" => \A u \in Partners : rooms'[s].role[u] \in {"none", "member"}
      BY <1>2, <1>3 DEF ConvInv, RoomsFit
    <2>2. \A s \in OfBoth' : s \in OfBoth \/ (s = r /\ x.type = "direct")  BY <1>2, <1>3 DEF OfBoth, InRoom
    <2>3. \A d \in ConvCalls : convCall'[d].step = "create" => d # c /\ convCall[d].step = "create"
      BY <1>7, OverFits
    <2>4. ~soughtAtOnce => ConvsAreOne'
      <3>1. ~soughtAtOnce => ConvsAreOne  BY DEF ConvInv, RoomsFit
      <3>2. CASE x.type = "direct"  BY <2>2, <2>3, <3>1, <3>2 DEF ConvsAreOne
      <3>3. CASE x.type # "direct"  BY <2>2, <2>3, <3>1, <3>3 DEF ConvsAreOne
      <3> QED BY <3>2, <3>3
    <2> QED BY <1>1, <2>1, <2>4 DEF RoomsFit
  <1> QED BY <1>5, <1>9, <1>10, <1>13, <1>14 DEF ConvInv

\* FindOrCreateConversation makes one.
LEMMA MakeConv == ASSUME ConvInv, NEW c \in ConvCalls, InsertConversation(c) PROVE ConvInv'
  <1>1. /\ convCall[c].step = "create" /\ convCall' = [convCall EXCEPT ![c] = Over] /\ microsecond' = microsecond + 1
        /\ rooms' = Append(rooms, Joined(Empty("direct"), Partners, "member", microsecond + 1))
        /\ UNCHANGED <<posts, receipts, known, overlaid, between, races, convFaults>>
    BY ConvCallEnds DEF InsertConversation, ConvAt, StatementStarts
  <1>3. microsecond + 1 \in Nat /\ microsecond \in Nat  BY DEF ConvInv, ConvTypes
  <1>4. PICK x \in RoomRecs : /\ rooms' = Append(rooms, x)
                             /\ \A u \in Partners : x.read[u] = microsecond + 1 /\ x.role[u] = "member"
    <2> DEFINE t == microsecond + 1
               x == Joined(Empty("direct"), Partners, "member", t)
    <2>1. Empty("direct") \in RoomRecs  BY EmptyFits
    <2>2. x \in RoomRecs /\ \A u \in Partners : x.read[u] = microsecond + 1 /\ x.role[u] = "member"
      <3>1. /\ x \in RoomRecs /\ x.type = Empty("direct").type
            /\ \A v \in Partners : /\ x.role[v] = IF v \in Partners THEN "member" ELSE Empty("direct").role[v]
                                   /\ x.read[v] = IF v \in Partners THEN t ELSE Empty("direct").read[v]
        <4>1. "member" \in Roles /\ Partners \in SUBSET Partners /\ t \in Nat  BY <1>3 DEF Roles
        <4> HIDE DEF t
        <4>2. \A who \in SUBSET Partners :
                 LET y == Joined(Empty("direct"), who, "member", t)
                 IN /\ y \in RoomRecs /\ y.type = Empty("direct").type
                    /\ \A v \in Partners : /\ y.role[v] = IF v \in who THEN "member" ELSE Empty("direct").role[v]
                                           /\ y.read[v] = IF v \in who THEN t ELSE Empty("direct").read[v]
          BY <4>1, <2>1, JoinedFits
        <4> QED BY <4>1, <4>2
      <3> QED BY <2>1, <3>1
    <2> HIDE DEF x
    <2> QED BY <1>1, <2>2 DEF x
  <1>5. (\A u \in Partners : x.read[u] <= microsecond + 1 /\ x.role[u] \in {"none", "member"}) /\ convCall[c].step \in {"new", "create"}
    BY <1>1, <1>3, <1>4
  <1> QED BY <1>1, <1>4, <1>5, RoomMade

\* A group, with its owner.
LEMMA GroupConv == ASSUME ConvInv, NEW c \in ConvCalls, CreateGroup(c) PROVE ConvInv'
  <1>1. PICK u \in Partners, others \in SUBSET Partners :
           rooms' = Append(rooms, Joined(Joined(Empty("group"), others, "member", microsecond + 1),
                                         {u}, "owner", microsecond + 1))
    BY DEF CreateGroup
  <1>2. /\ convCall[c].step = "new" /\ convCall' = [convCall EXCEPT ![c] = Over] /\ microsecond' = microsecond + 1
        /\ UNCHANGED <<posts, receipts, known, overlaid, between, races, convFaults>>
    BY ConvCallEnds DEF CreateGroup, ConvAt, StatementStarts
  <1>3. microsecond + 1 \in Nat /\ microsecond \in Nat  BY DEF ConvInv, ConvTypes
  <1>t. PICK t \in Nat : t = microsecond + 1  BY <1>3
  <1>e. PICK e \in RoomRecs : e = Empty("group")  BY EmptyFits
  <1>4. PICK y \in RoomRecs : /\ y = Joined(Empty("group"), others, "member", microsecond + 1) /\ y.type = "group"
                             /\ \A v \in Partners : y.read[v] \in {0, microsecond + 1}
    <2> DEFINE x == Joined(e, others, "member", t)
    <2>1. e.type = "group" /\ \A v \in Partners : e.read[v] = 0  BY <1>e, EmptyFits
    <2>2. x \in RoomRecs /\ x.type = "group" /\ \A v \in Partners : x.read[v] \in {0, t}
      <3>1. /\ x \in RoomRecs /\ x.type = e.type
            /\ \A v \in Partners : x.read[v] = IF v \in others THEN t ELSE e.read[v]
        <4>1. "member" \in Roles  BY DEF Roles
        <4> QED BY <4>1, JoinedFits
      <3> QED BY <2>1, <3>1
    <2> HIDE DEF x
    <2> QED BY <1>e, <1>t, <2>2 DEF x
  <1>5. PICK x \in RoomRecs : /\ rooms' = Append(rooms, x) /\ x.type = "group"
                             /\ \A v \in Partners : x.read[v] \in {0, microsecond + 1}
    <2>1. PICK own \in SUBSET Partners : own = {u}  OBVIOUS
    <2> DEFINE x == Joined(y, own, "owner", t)
    <2>2. x \in RoomRecs /\ x.type = "group" /\ \A v \in Partners : x.read[v] \in {0, t}
      <3>1. /\ x \in RoomRecs /\ x.type = y.type
            /\ \A v \in Partners : x.read[v] = IF v \in own THEN t ELSE y.read[v]
        <4>1. "owner" \in Roles  BY DEF Roles
        <4> QED BY <4>1, JoinedFits
      <3> QED BY <1>4, <1>t, <3>1
    <2>3. rooms' = Append(rooms, x)  BY <1>1, <1>4, <1>t, <2>1
    <2> HIDE DEF x
    <2> QED BY <1>t, <2>2, <2>3
  <1>6. (\A v \in Partners : x.read[v] <= microsecond + 1) /\ convCall[c].step \in {"new", "create"}
    BY <1>2, <1>3, <1>5
  <1> QED BY <1>2, <1>5, <1>6, RoomMade

--------
\* A room that is written to without anybody coming in or reading.
LEMMA RoomTouched ==
    ASSUME ConvInv, NEW c \in ConvCalls, convCall' = [convCall EXCEPT ![c] = Over],
           NEW r \in RoomIds, NEW x \in RoomRecs, rooms' = [rooms EXCEPT ![r] = x],
           x.type = rooms[r].type, x.read = rooms[r].read,
           \A u \in Partners : x.role[u] \in {rooms[r].role[u], "none"},
           \/ x.bumped = rooms[r].bumped /\ convCall[c].step # "bump"
           \/ Bumping(c) /\ r = convCall[c].room /\ x.bumped = convCall[c].at,
           UNCHANGED <<posts, receipts, microsecond, known, overlaid, between, races, convFaults>>
    PROVE  ConvInv'
  <1>1. /\ ConvTypes /\ microsecond \in Nat /\ ConvMoves(c, Over)
        /\ UNCHANGED <<crossedMarks, crossedBumps, soughtAtOnce>>
    BY OverFits DEF ConvInv, ConvTypes, races, ConvMoves
  <1>2. RoomIds' = RoomIds /\ rooms' \in Seq(RoomRecs) /\ rooms'[r] = x /\ \A s \in RoomIds \ {r} : rooms'[s] = rooms[s]
    BY <1>1, RoomWritten DEF ConvTypes
  <1>3. \A s \in RoomIds : /\ rooms'[s].type = rooms[s].type /\ rooms'[s].read = rooms[s].read
                           /\ \A u \in Partners : rooms'[s].role[u] \in {rooms[s].role[u], "none"}
    BY <1>2
  <1>4. Forward /\ PostsKept  BY <1>1, <1>2, <1>3 DEF Forward, PostsKept
  <1>5. ConvTypes'  BY <1>1, <1>2, OverFits DEF ConvTypes, ConvMoves
  <1>6. CallFits(Over)' /\ PagesFit(Over)'  BY <1>1, OverFits DEF CallFits, PagesFit
  <1>7. (\A d \in ConvCalls : d # c => convCall'[d] = convCall[d]) /\ convCall'[c] = Over  BY <1>1, TheOthers
  <1>8. MarkingFits(c)' /\ BumpingFits(c)'  BY <1>7, OverFits DEF MarkingFits, Marking, BumpingFits, Bumping
  <1>9. /\ (\A d \in ConvCalls : CallFits(convCall[d])') /\ (\A d \in ConvCalls : PagesFit(convCall[d])')
        /\ (\A m \in ConvCalls : PostFits(m)')
    BY <1>1, <1>4, <1>6, OverFits, CallsStay, PagesStay, PostsStay
  <1>10. (\A d \in ConvCalls : MarkingFits(d)') /\ (\A d \in ConvCalls : BumpingFits(d)') /\ (\A m \in ConvCalls : ListFits(m)')
    <2>1. Over.step # "insert"  BY OverFits
    <2>2. \A s \in RoomIds : \/ rooms'[s].bumped = rooms[s].bumped
                             \/ Bumping(c) /\ s = convCall[c].room /\ rooms'[s].bumped = convCall[c].at
      BY <1>2
    <2>3. convCall[c].step = "bump" => Bumping(c) /\ rooms'[convCall[c].room].bumped = convCall[c].at
      BY <1>2
    <2> QED BY <1>1, <1>3, <1>4, <1>8, <2>1, <2>2, <2>3, MarkingsStay, BumpsStay, ListsStay
  <1>11. ASSUME NEW s \in RoomIds', NEW u \in Partners PROVE MarkFits(s, u)' /\ ReceiptsFit(s, u)'
    <2>1. s \in RoomIds /\ MarkFits(s, u) /\ ReceiptsFit(s, u) /\ rooms[s] \in RoomRecs
      BY <1>1, <1>2, RoomsAreNumbered DEF ConvInv
    <2>2. rooms[s].read[u] \in Nat /\ rooms'[s].read[u] = rooms[s].read[u] /\ (InRoom(s, u)' => InRoom(s, u))
      BY <1>3, <2>1 DEF RoomRecs, InRoom
    <2>3. MarkFits(s, u)'  BY <1>1, <1>7, <2>1, <2>2, OverFits DEF MarkFits, Sending
    <2>4. ReceiptsFit(s, u)'  BY <1>7, <2>1, <2>2, OverFits DEF ReceiptsFit
    <2> QED BY <2>3, <2>4
  <1>12. RoomsFit'
    <2>1. OfBoth' \subseteq OfBoth  BY <1>2, <1>3 DEF OfBoth, InRoom
    <2>2. \A d \in ConvCalls : convCall'[d].step = "create" => convCall[d].step = "create"  BY <1>7, OverFits
    <2>3. ~soughtAtOnce => ConvsAreOne'  BY <2>1, <2>2 DEF ConvInv, RoomsFit, ConvsAreOne
    <2>4. \A s \in RoomIds' : rooms'[s].type = "direct" => \A u \in Partners : rooms'[s].role[u] \in {"none", "member"}
      BY <1>2, <1>3 DEF ConvInv, RoomsFit
    <2> QED BY <1>1, <2>3, <2>4 DEF RoomsFit
  <1> QED BY <1>5, <1>9, <1>10, <1>11, <1>12 DEF ConvInv

\* The conversation goes to the top of the list.
LEMMA BumpConv == ASSUME ConvInv, NEW c \in ConvCalls, BumpConversation(c) PROVE ConvInv'
  <1> PICK t : t = convCall[c].at  OBVIOUS
  <1>1. /\ convCall[c].step = "bump" /\ t # 0 /\ rooms' = [rooms EXCEPT ![convCall[c].room].bumped = t]
        /\ convCall' = [convCall EXCEPT ![c] = Over]
        /\ UNCHANGED <<posts, receipts, microsecond, known, overlaid, between, races, convFaults>>
    BY ConvCallEnds DEF BumpConversation, ConvAt
  <1>2. PICK r \in RoomIds : r = convCall[c].room  BY <1>1 DEF ConvInv, CallFits
  <1>3. t \in Nat /\ rooms[r] \in RoomRecs  BY RoomsAreNumbered DEF ConvInv, ConvTypes, ConvRows
  <1> DEFINE x == [rooms[r] EXCEPT !.bumped = t]
  <1>4. rooms' = [rooms EXCEPT ![r] = x]  BY <1>1, <1>2
  <1>5. x \in RoomRecs /\ x.type = rooms[r].type /\ x.read = rooms[r].read /\ x.role = rooms[r].role /\ x.bumped = t
    BY <1>3 DEF RoomRecs
  <1> HIDE DEF x
  <1>6. \A u \in Partners : x.role[u] \in {rooms[r].role[u], "none"}  BY <1>5
  <1>7. Bumping(c) /\ r = convCall[c].room /\ x.bumped = convCall[c].at  BY <1>1, <1>2, <1>5 DEF Bumping, Bumps
  <1>8. x \in RoomRecs /\ x.type = rooms[r].type /\ x.read = rooms[r].read  BY <1>5
  <1> QED BY <1>1, <1>4, <1>6, <1>7, <1>8, RoomTouched

\* A member is out.
LEMMA DropConv == ASSUME ConvInv, NEW c \in ConvCalls, DeleteMember(c) PROVE ConvInv'
  <1>1. /\ convCall[c].step = "remove"
        /\ rooms' = [rooms EXCEPT ![convCall[c].room].role[Only(convCall[c].whom)] = "none"]
        /\ convCall' = [convCall EXCEPT ![c] = Over]
        /\ UNCHANGED <<posts, receipts, microsecond, known, overlaid, between, races, convFaults>>
    BY ConvCallEnds DEF DeleteMember, ConvAt
  <1>2. PICK r \in RoomIds : r = convCall[c].room  BY <1>1 DEF ConvInv, CallFits
  <1>3. PICK v \in Partners : convCall[c].whom = {v}  BY <1>1 DEF ConvInv, CallFits
  <1>4. Only(convCall[c].whom) = v  BY <1>3 DEF Only
  <1>5. rooms[r] \in RoomRecs  BY RoomsAreNumbered DEF ConvInv
  <1> DEFINE x == [rooms[r] EXCEPT !.role = [rooms[r].role EXCEPT ![v] = "none"]]
  <1>6. rooms' = [rooms EXCEPT ![r] = x]  BY <1>1, <1>2, <1>4
  <1>7. /\ x \in RoomRecs /\ x.type = rooms[r].type /\ x.read = rooms[r].read /\ x.bumped = rooms[r].bumped
        /\ \A u \in Partners : x.role[u] \in {rooms[r].role[u], "none"}
    BY <1>5 DEF RoomRecs, Roles
  <1> HIDE DEF x
  <1>8. convCall[c].step # "bump"  BY <1>1
  <1> QED BY <1>1, <1>6, <1>7, <1>8, RoomTouched

\* Somebody reads or comes in: the mark that was stamped is written.
MarkTaken(c, w, u, x) ==
    LET r == convCall[c].room
    IN /\ ConvMoves(c, w) /\ Marking(c) /\ MarkOf(c) = {u} /\ Notes(u, c)
       /\ w.step \in {"receipts", "ended"} /\ CallFits(w)' /\ PagesFit(w)'
       /\ w.step = "receipts" => w.room = r /\ w.by = {u}
       /\ rooms' = [rooms EXCEPT ![r] = x] /\ x.type = rooms[r].type /\ x.read[u] = convCall[c].at
       /\ x.type = "direct" => x.role = rooms[r].role
       /\ \A v \in Partners \ {u} : x.read[v] = rooms[r].read[v] /\ x.role[v] = rooms[r].role[v]
       /\ x.bumped = rooms[r].bumped \/ (Bumping(c) /\ x.bumped = convCall[c].at)
       /\ UNCHANGED <<posts, receipts, microsecond, between, races, convFaults>>

\* A mark that is written keeps the invariant, whoever's it is: the reader's or one who is added.
LEMMA MarkMoves ==
    ASSUME ConvInv, NEW c \in ConvCalls, NEW w, NEW r \in RoomIds, r = convCall[c].room, NEW u \in Partners,
           NEW x \in RoomRecs, MarkTaken(c, w, u, x)
    PROVE  ConvInv'
  <1> PICK t, had, got : t = convCall[c].at /\ had = convCall[c].had /\ got = convCall[c].got  OBVIOUS
  <1>1. /\ ConvTypes /\ microsecond \in Nat /\ t \in Nat /\ t <= microsecond /\ had \subseteq ConvCalls /\ got \subseteq ConvCalls
        /\ UNCHANGED <<crossedMarks, crossedBumps, soughtAtOnce>>
        /\ ConvMoves(c, w) /\ rooms' = [rooms EXCEPT ![r] = x] /\ x.type = rooms[r].type /\ x.read[u] = t
        /\ x.type = "direct" => x.role = rooms[r].role
        /\ \A v \in Partners \ {u} : x.read[v] = rooms[r].read[v] /\ x.role[v] = rooms[r].role[v]
        /\ x.bumped = rooms[r].bumped \/ (Bumping(c) /\ x.bumped = t)
        /\ w.step \in {"receipts", "ended"} /\ (w.step = "receipts" => w.room = r /\ w.by = {u})
        /\ UNCHANGED <<posts, receipts, microsecond, between, convFaults>>
    BY DEF ConvInv, ConvTypes, races, MarkTaken, ConvRows, CallFits
  <1>2. RoomIds' = RoomIds /\ rooms' \in Seq(RoomRecs) /\ rooms'[r] = x /\ \A s \in RoomIds \ {r} : rooms'[s] = rooms[s]
    BY <1>1, RoomWritten DEF ConvTypes
  <1>3. /\ known' \subseteq Partners \X ConvCalls /\ overlaid' \subseteq Partners \X ConvCalls
        /\ \A v \in Partners, m \in ConvCalls :
              /\ <<v, m>> \in known' <=> <<v, m>> \in known \/ (v = u /\ m \in had)
              /\ <<v, m>> \in overlaid' <=> <<v, m>> \in overlaid \/ (v = u /\ m \in got)
    BY <1>1 DEF MarkTaken, Notes, ConvTypes
  <1>4. Forward /\ PostsKept  BY <1>1, <1>2 DEF Forward, PostsKept
  <1>5. ConvTypes'  BY <1>1, <1>2, <1>3 DEF ConvTypes, ConvMoves
  <1>6. posts[c].room = 0 /\ convCall[c].step \in {"mark", "add"} /\ r # 0 /\ r \in Nat
    BY <1>1, RoomsAreNumbered DEF ConvInv, PostFits, MarkTaken, Marking, Marks
  <1>7. (\A d \in ConvCalls : d # c => convCall'[d] = convCall[d]) /\ convCall'[c] = w  BY <1>1, TheOthers
  <1>8. MarkingFits(c)' /\ BumpingFits(c)'  BY <1>1, <1>7 DEF MarkingFits, Marking, Marks, BumpingFits, Bumping, Bumps
  <1>9. MarkOf(c) = {u} /\ MarkingFits(c) /\ Marking(c) /\ CallFits(w)' /\ PagesFit(w)'  BY DEF ConvInv, MarkTaken
  <1>10. \A m \in ConvCalls :
           /\ m \in had => posts[m].room = r /\ posts[m].at < t
           /\ posts[m].room = r /\ m \notin had => u \in between /\ (m \in got \/ posts[m].at > t)
           /\ Sending(m, r) => m \in got \/ convCall[m].at > t
    BY <1>9 DEF MarkingFits
  <1>11. u \notin crossedMarks => rooms[r].read[u] < t  BY <1>9 DEF MarkingFits
  <1>12. /\ (\A d \in ConvCalls : CallFits(convCall[d])') /\ (\A d \in ConvCalls : PagesFit(convCall[d])')
         /\ (\A m \in ConvCalls : PostFits(m)')
    <2>1. \A m \in ConvCalls, v \in Partners :
             <<v, m>> \in known' \cup receipts' => <<v, m>> \in known \cup receipts \/ posts[m].room # 0
      BY <1>1, <1>3, <1>6, <1>10
    <2> QED BY <1>1, <1>4, <1>6, <1>9, <2>1, CallsStay, PagesStay, PostsStay
  <1>13. (\A d \in ConvCalls : MarkingFits(d)') /\ (\A d \in ConvCalls : BumpingFits(d)') /\ (\A m \in ConvCalls : ListFits(m)')
    <2>1. \A s \in RoomIds : \/ rooms'[s].bumped = rooms[s].bumped
                             \/ Bumping(c) /\ s = convCall[c].room /\ rooms'[s].bumped = convCall[c].at
      BY <1>1, <1>2
    <2>2. \A s \in RoomIds, v \in Partners :
             rooms'[s].read[v] = rooms[s].read[v] \/ (Marking(c) /\ s = convCall[c].room /\ v \in MarkOf(c))
      BY <1>1, <1>2, <1>9
    <2>3. w.step # "insert"  BY <1>1
    <2> QED BY <1>1, <1>4, <1>6, <1>8, <2>1, <2>2, <2>3, MarkingsStay, BumpsStay, ListsStay
  <1>14. \A m \in ConvCalls : posts[m].at \in Nat /\ convCall[m].at \in Nat  BY <1>1 DEF ConvTypes, PostRecs, ConvRows
  <1>15. \A m \in ConvCalls, s \in RoomIds : Sending(m, s)' => Sending(m, s) /\ convCall'[m] = convCall[m]
    BY <1>1, <1>7 DEF Sending
  <1>16. ASSUME NEW s \in RoomIds', NEW v \in Partners PROVE MarkFits(s, v)' /\ ReceiptsFit(s, v)'
    <2>1. s \in RoomIds /\ MarkFits(s, v) /\ ReceiptsFit(s, v) /\ rooms[s] \in RoomRecs /\ s # 0
      BY <1>1, <1>2, RoomsAreNumbered DEF ConvInv
    <2>2. rooms[s].read[v] \in Nat  BY <2>1 DEF RoomRecs
    <2>3. CASE s = r /\ v = u
      <3>1. rooms'[s].read[v] = t /\ convCall'[c] = w  BY <1>1, <1>2, <1>7, <2>3
      <3>2. MarkFits(s, v)'
        BY <1>1, <1>3, <1>10, <1>11, <1>14, <1>15, <2>1, <2>2, <2>3, <3>1 DEF MarkFits
      <3>3. ReceiptsFit(s, v)'  BY <1>1, <1>10, <1>14, <2>3, <3>1 DEF ReceiptsFit
      <3> QED BY <3>2, <3>3
    <2>4. CASE ~(s = r /\ v = u)
      <3>1. rooms'[s].read[v] = rooms[s].read[v] /\ (InRoom(s, v)' <=> InRoom(s, v))  BY <1>1, <1>2, <2>1, <2>4 DEF InRoom
      <3>2. \A m \in ConvCalls : posts[m].room = s => (<<v, m>> \in known' <=> <<v, m>> \in known)
        BY <1>3, <1>10, <2>4
      <3>3. MarkFits(s, v)'  BY <1>1, <1>3, <1>15, <2>1, <3>1, <3>2 DEF MarkFits
      <3>4. ReceiptsFit(s, v)'  BY <1>1, <1>7, <2>1, <2>4, <3>1 DEF ReceiptsFit
      <3> QED BY <3>3, <3>4
    <2> QED BY <2>3, <2>4
  <1>17. RoomsFit'
    <2>1. OfBoth' = OfBoth  BY <1>1, <1>2 DEF OfBoth, InRoom
    <2>2. \A d \in ConvCalls : convCall'[d].step = "create" => convCall[d].step = "create"  BY <1>1, <1>7
    <2>3. ~soughtAtOnce => ConvsAreOne'  BY <2>1, <2>2 DEF ConvInv, RoomsFit, ConvsAreOne
    <2>4. \A s \in RoomIds' : rooms'[s].type = "direct" => \A v \in Partners : rooms'[s].role[v] \in {"none", "member"}
      BY <1>1, <1>2 DEF ConvInv, RoomsFit
    <2> QED BY <1>1, <2>3, <2>4 DEF RoomsFit
  <1> QED BY <1>5, <1>12, <1>13, <1>16, <1>17 DEF ConvInv

\* The first statement of MarkAsRead: who has left meanwhile has no mark.
LEMMA ReadConv == ASSUME ConvInv, NEW c \in ConvCalls, UpdateLastRead(c) PROVE ConvInv'
  <1> PICK t : t = convCall[c].at  OBVIOUS
  <1>1. /\ convCall[c].step = "mark" /\ t # 0 /\ ConvGoes(c, "receipts")
        /\ UNCHANGED <<posts, receipts, microsecond, between, races, convFaults>>
    BY DEF UpdateLastRead, ConvAt
  <1>2. /\ microsecond \in Nat /\ t \in Nat /\ ConvTypes /\ CallFits(convCall[c]) /\ PagesFit(convCall[c])
        /\ "receipts" \in ConvSteps /\ convFaults \in 0..MaxConvFaults /\ convCall[c] \in ConvRows /\ posts[c].room = 0
    BY <1>1 DEF ConvInv, ConvTypes, ConvSteps, PostFits, ConvRows
  <1>3. PICK r \in RoomIds, u \in Partners : r = convCall[c].room /\ convCall[c].by = {u}
    BY <1>1, <1>2 DEF CallFits
  <1>4. PICK w \in ConvRows :
           /\ convCall' = [convCall EXCEPT ![c] = w] /\ w.step = "receipts" /\ w.kind = convCall[c].kind
           /\ w.by = convCall[c].by /\ w.room = convCall[c].room /\ w.at = convCall[c].at
    <2> DEFINE v == [convCall[c] EXCEPT !.step = "receipts"]
    <2>1. /\ v \in ConvRows /\ v.step = "receipts" /\ v.kind = convCall[c].kind
          /\ v.by = convCall[c].by /\ v.room = convCall[c].room /\ v.at = convCall[c].at
      BY <1>2 DEF ConvRows
    <2>2. convCall' = [convCall EXCEPT ![c] = v]  BY <1>1 DEF ConvGoes
    <2> HIDE DEF v
    <2> QED BY <2>1, <2>2
  <1>5. Only(convCall[c].by) = u /\ Marking(c) /\ MarkOf(c) = {u}
    BY <1>1, <1>2, <1>3 DEF Only, Marking, Marks, MarkOf, CallFits
  <1>6. rooms[r] \in RoomRecs  BY <1>2, RoomsAreNumbered
  <1>7. PagesFit(w)' /\ ConvMoves(c, w)  BY <1>4 DEF PagesFit, ConvMoves
  <1>8. CASE InRoom(r, u)
    <2>1. rooms' = [rooms EXCEPT ![r].read[u] = t] /\ Notes(u, c)
      BY <1>3, <1>5, <1>8 DEF UpdateLastRead
    <2> DEFINE x == [rooms[r] EXCEPT !.read = [rooms[r].read EXCEPT ![u] = t]]
    <2>2. rooms' = [rooms EXCEPT ![r] = x]  BY <2>1
    <2>3. /\ x \in RoomRecs /\ x.type = rooms[r].type /\ x.role = rooms[r].role /\ x.bumped = rooms[r].bumped
          /\ x.read[u] = t /\ \A v \in Partners \ {u} : x.read[v] = rooms[r].read[v]
      BY <1>2, <1>6 DEF RoomRecs
    <2> HIDE DEF x
    <2>4. RoomIds' = RoomIds /\ rooms'[r] = x  BY <1>2, <2>2, <2>3, RoomWritten DEF ConvTypes
    <2>5. CallFits(w)'  BY <1>1, <1>2, <1>3, <1>4, <2>4 DEF CallFits, ConvRows
    <2>6. \A v \in Partners \ {u} : x.read[v] = rooms[r].read[v] /\ x.role[v] = rooms[r].role[v]  BY <2>3
    <2>7. /\ w.room = convCall[c].room /\ w.by = {u} /\ x.read[u] = convCall[c].at /\ w.step = "receipts"
          /\ rooms' = [rooms EXCEPT ![convCall[c].room] = x]
          /\ x.type = rooms[convCall[c].room].type /\ x.role = rooms[convCall[c].room].role
          /\ x.bumped = rooms[convCall[c].room].bumped
      BY <1>3, <1>4, <2>2, <2>3
    <2>8. MarkTaken(c, w, u, x)  BY <1>1, <1>3, <1>5, <1>7, <2>1, <2>5, <2>6, <2>7 DEF MarkTaken
    <2> QED BY <1>3, <2>3, <2>8, MarkMoves
  <1>9. CASE ~InRoom(r, u)
    <2>1. UNCHANGED <<rooms, known, overlaid>>  BY <1>3, <1>5, <1>9 DEF UpdateLastRead
    <2>2. CallFits(w)'  BY <1>1, <1>2, <1>3, <1>4, <2>1 DEF CallFits, ConvRows, RoomIds
    <2>3. /\ \A v \in w.by : ~InRoom(w.room, v)
          /\ microsecond' \in {microsecond, microsecond + 1} /\ convFaults' \in 0..MaxConvFaults
          /\ convFaults' = convFaults /\ UNCHANGED <<crossedMarks, crossedBumps, soughtAtOnce>>
          /\ crossedMarks' \subseteq Partners /\ crossedBumps' \subseteq RoomIds /\ soughtAtOnce' \in BOOLEAN
      BY <1>1, <1>2, <1>3, <1>4, <1>9 DEF races, ConvTypes
    <2>4. convCall'[c] = w  BY <1>7, TheOthers
    <2>5. MarkingFits(c)' /\ BumpingFits(c)'
      BY <1>4, <2>4 DEF MarkingFits, Marking, Marks, BumpingFits, Bumping, Bumps
    <2> QED BY <1>1, <1>2, <1>4, <1>7, <2>1, <2>2, <2>3, <2>5, OnlyTheCall
  <1> QED BY <1>8, <1>9

\* A member is added, unless they are in already.
LEMMA MemberConv == ASSUME ConvInv, NEW c \in ConvCalls, InsertMember(c) PROVE ConvInv'
  <1> PICK t : t = convCall[c].at  OBVIOUS
  <1>1. /\ convCall[c].step = "add" /\ t # 0 /\ convCall' = [convCall EXCEPT ![c] = Over]
        /\ UNCHANGED <<posts, receipts, microsecond, between, races, convFaults>>
    BY ConvCallEnds DEF InsertMember, ConvAt
  <1>2. microsecond \in Nat /\ t \in Nat /\ ConvTypes /\ CallFits(convCall[c])
    BY DEF ConvInv, ConvTypes, ConvRows
  <1>3. PICK r \in RoomIds, u \in Partners : r = convCall[c].room /\ convCall[c].whom = {u} /\ rooms[r].type = "group"
    BY <1>1, <1>2 DEF CallFits
  <1>4. /\ Only(convCall[c].whom) = u /\ Marking(c) /\ Bumping(c) /\ MarkOf(c) = {u}
        /\ ConvMoves(c, Over) /\ Over.step = "ended"
    BY <1>1, <1>2, <1>3, OverFits DEF Only, Marking, Marks, Bumping, Bumps, MarkOf, CallFits, ConvMoves
  <1>5. rooms[r] \in RoomRecs  BY <1>2, RoomsAreNumbered
  <1> DEFINE before == IF InRoom(r, u) THEN rooms[r] ELSE Joined(rooms[r], {u}, "member", t)
             x == [before EXCEPT !.bumped = t]
  <1>6. rooms' = [rooms EXCEPT ![r] = x]  BY <1>3, <1>4 DEF InsertMember
  <1>7. /\ Joined(rooms[r], {u}, "member", t) \in RoomRecs /\ Joined(rooms[r], {u}, "member", t).type = rooms[r].type
        /\ \A v \in Partners :
              /\ Joined(rooms[r], {u}, "member", t).role[v] = IF v \in {u} THEN "member" ELSE rooms[r].role[v]
              /\ Joined(rooms[r], {u}, "member", t).read[v] = IF v \in {u} THEN t ELSE rooms[r].read[v]
    BY <1>2, <1>5 DEF Joined, RoomRecs, Roles
  <1>8. before \in RoomRecs /\ before.type = rooms[r].type  BY <1>5, <1>7
  <1> HIDE DEF before
  <1>9. /\ x \in RoomRecs /\ x.type = rooms[r].type /\ x.bumped = t
        /\ x.role = before.role /\ x.read = before.read
    BY <1>2, <1>8 DEF RoomRecs
  <1> HIDE DEF x
  <1>10. CallFits(Over)' /\ PagesFit(Over)'
    <2>1. RoomIds' = RoomIds  BY <1>2, <1>6, <1>9, RoomWritten DEF ConvTypes
    <2> QED BY <1>1, <1>2, <2>1, OverFits DEF CallFits, PagesFit
  <1>11. CASE InRoom(r, u)
    <2>1. UNCHANGED <<known, overlaid>>  BY <1>3, <1>4, <1>11 DEF InsertMember
    <2>2. x.read = rooms[r].read /\ \A v \in Partners : x.role[v] \in {rooms[r].role[v], "none"}
      BY <1>9, <1>11 DEF before
    <2>3. x \in RoomRecs /\ x.type = rooms[r].type /\ Bumping(c) /\ r = convCall[c].room /\ x.bumped = convCall[c].at
      BY <1>3, <1>4, <1>9
    <2> QED BY <1>1, <1>6, <2>1, <2>2, <2>3, RoomTouched
  <1>12. CASE ~InRoom(r, u)
    <2>1. Notes(u, c)  BY <1>3, <1>4, <1>12 DEF InsertMember
    <2>2. x.read[u] = t /\ \A v \in Partners \ {u} : x.read[v] = rooms[r].read[v] /\ x.role[v] = rooms[r].role[v]
      BY <1>7, <1>9, <1>12 DEF before
    <2>3. x \in RoomRecs /\ x.type # "direct"  BY <1>3, <1>9
    <2>4. /\ rooms' = [rooms EXCEPT ![convCall[c].room] = x] /\ x.type = rooms[convCall[c].room].type
          /\ x.read[u] = convCall[c].at /\ x.bumped = convCall[c].at
          /\ \A v \in Partners \ {u} : /\ x.read[v] = rooms[convCall[c].room].read[v]
                                       /\ x.role[v] = rooms[convCall[c].room].role[v]
      BY <1>3, <1>6, <1>9, <2>2
    <2>5. MarkTaken(c, Over, u, x)  BY <1>1, <1>4, <1>10, <2>1, <2>3, <2>4 DEF MarkTaken
    <2> QED BY <1>3, <2>3, <2>5, MarkMoves
  <1> QED BY <1>11, <1>12

\* The second statement of MarkAsRead, for all that is there by then.
LEMMA ReceiptsConv == ASSUME ConvInv, NEW c \in ConvCalls, InsertReceipts(c) PROVE ConvInv'
  <1>1. /\ convCall[c].step = "receipts" /\ ConvMoves(c, Over)
        /\ UNCHANGED <<rooms, posts, microsecond, known, overlaid, between, crossedMarks, crossedBumps, soughtAtOnce, convFaults>>
    BY ConvCallEnds, OverFits DEF InsertReceipts, ConvAt, ConvMoves, races
  <1>2. microsecond \in Nat /\ ConvTypes /\ CallFits(convCall[c])  BY DEF ConvInv, ConvTypes
  <1>3. PICK r \in RoomIds, u \in Partners : r = convCall[c].room /\ convCall[c].by = {u}
    BY <1>1, <1>2 DEF CallFits
  <1>4. Only(convCall[c].by) = u  BY <1>3 DEF Only
  <1> DEFINE due == {p \in PostsIn(r) : u \notin posts[p].by /\ ~posts[p].deleted}
  <1>5. receipts' = receipts \cup {<<u, m>> : m \in due}  BY <1>3, <1>4 DEF InsertReceipts
  <1>6. due \subseteq ConvCalls /\ \A m \in due : posts[m].room = r  BY DEF PostsIn
  <1> HIDE DEF due
  <1>7. /\ receipts' \subseteq Partners \X ConvCalls
        /\ \A v \in Partners, m \in ConvCalls : <<v, m>> \in receipts' => <<v, m>> \in receipts \/ (v = u /\ posts[m].room = r)
    BY <1>2, <1>5, <1>6 DEF ConvTypes
  <1>8. Forward /\ PostsKept /\ r # 0 /\ posts[c].room = 0 /\ RoomIds' = RoomIds
    BY <1>1, <1>2, RoomsAreNumbered DEF Forward, RoomIds, PostsKept, ConvInv, PostFits
  <1>9. ConvTypes'  BY <1>1, <1>2, <1>7, <1>8 DEF ConvTypes, ConvMoves
  <1>10. CallFits(Over)' /\ PagesFit(Over)'  BY <1>1, <1>2, OverFits DEF CallFits, PagesFit
  <1>11. (\A d \in ConvCalls : d # c => convCall'[d] = convCall[d]) /\ convCall'[c] = Over  BY <1>1, TheOthers
  <1>12. MarkingFits(c)' /\ BumpingFits(c)'  BY <1>11, OverFits DEF MarkingFits, Marking, BumpingFits, Bumping
  <1>13. /\ (\A d \in ConvCalls : CallFits(convCall[d])') /\ (\A d \in ConvCalls : PagesFit(convCall[d])')
         /\ (\A m \in ConvCalls : PostFits(m)')
    BY <1>1, <1>7, <1>8, <1>10, OverFits, CallsStay, PagesStay, PostsStay
  <1>14. (\A d \in ConvCalls : MarkingFits(d)') /\ (\A d \in ConvCalls : BumpingFits(d)') /\ (\A m \in ConvCalls : ListFits(m)')
    <2>1. Over.step # "insert"  BY OverFits
    <2> QED BY <1>1, <1>8, <1>12, <2>1, MarkingsStay, BumpsStay, ListsStay
  <1>15. ASSUME NEW s \in RoomIds', NEW v \in Partners PROVE MarkFits(s, v)' /\ ReceiptsFit(s, v)'
    BY <1>1, <1>8, <1>11, OverFits, <1>3, <1>7 DEF ConvInv, RoomIds, MarkFits, InRoom, ReceiptsFit, Sending
  <1>16. RoomsFit'
    <2>1. OfBoth' = OfBoth  BY <1>1 DEF OfBoth, InRoom, RoomIds
    <2>2. \A d \in ConvCalls : convCall'[d].step = "create" => convCall[d].step = "create"  BY <1>11, OverFits
    <2>3. ~soughtAtOnce => ConvsAreOne'  BY <2>1, <2>2 DEF ConvInv, RoomsFit, ConvsAreOne
    <2> QED BY <1>1, <1>8, <2>3 DEF ConvInv, RoomsFit
  <1> QED BY <1>9, <1>13, <1>14, <1>15, <1>16 DEF ConvInv

\* A message is marked deleted; its row stays.
LEMMA UnpostConv == ASSUME ConvInv, NEW c \in ConvCalls, DeleteMessage(c) PROVE ConvInv'
  <1>1. /\ convCall[c].step = "new" /\ ConvMoves(c, Over)
        /\ UNCHANGED <<rooms, receipts, microsecond, known, overlaid, between, crossedMarks, crossedBumps, soughtAtOnce, convFaults>>
    BY ConvCallEnds, OverFits DEF DeleteMessage, ConvAt, ConvMoves, races
  <1>2. PICK n \in ConvCalls : posts' = [posts EXCEPT ![n].deleted = TRUE]  BY DEF DeleteMessage
  <1>3. microsecond \in Nat /\ ConvTypes  BY DEF ConvInv, ConvTypes
  <1>4. posts' \in [ConvCalls -> PostRecs] /\ PostsKept  BY <1>3, <1>2 DEF ConvTypes, PostRecs, PostsKept
  <1>5. Forward /\ posts[c].room = 0 /\ RoomIds' = RoomIds  BY <1>1, <1>3 DEF Forward, RoomIds, ConvInv, PostFits
  <1>6. ConvTypes'  BY <1>1, <1>3, <1>4, <1>5 DEF ConvTypes, ConvMoves
  <1>7. CallFits(Over)' /\ PagesFit(Over)'  BY <1>1, <1>3, OverFits DEF CallFits, PagesFit
  <1>8. (\A d \in ConvCalls : d # c => convCall'[d] = convCall[d]) /\ convCall'[c] = Over  BY <1>1, TheOthers
  <1>9. MarkingFits(c)' /\ BumpingFits(c)'  BY <1>8, OverFits DEF MarkingFits, Marking, BumpingFits, Bumping
  <1>10. /\ (\A d \in ConvCalls : CallFits(convCall[d])') /\ (\A d \in ConvCalls : PagesFit(convCall[d])')
         /\ (\A m \in ConvCalls : PostFits(m)')
    <2>1. Over.step \in {"bump", "ended"} /\ Over.step # "bump"  BY OverFits
    <2>2. \A m \in ConvCalls : posts[m].room # 0 => posts'[m].room = posts[m].room /\ posts'[m].at = posts[m].at
      BY <1>4 DEF PostsKept
    <2> QED BY <1>1, <1>4, <1>5, <1>7, <2>1, <2>2, CallsStay, PagesStay, PostsStay
  <1>11. (\A d \in ConvCalls : MarkingFits(d)') /\ (\A d \in ConvCalls : BumpingFits(d)') /\ (\A m \in ConvCalls : ListFits(m)')
    <2>1. Over.step # "insert"  BY OverFits
    <2> QED BY <1>1, <1>4, <1>5, <1>9, <2>1, MarkingsStay, BumpsStay, ListsStay
  <1>12. ASSUME NEW s \in RoomIds', NEW v \in Partners PROVE MarkFits(s, v)' /\ ReceiptsFit(s, v)'
    BY <1>1, <1>4, <1>5, <1>8, OverFits DEF ConvInv, MarkFits, InRoom, ReceiptsFit, Sending, PostsKept
  <1>13. RoomsFit'
    <2>1. OfBoth' = OfBoth  BY <1>1 DEF OfBoth, InRoom, RoomIds
    <2>2. \A d \in ConvCalls : convCall'[d].step = "create" => convCall[d].step = "create"  BY <1>8, OverFits
    <2>3. ~soughtAtOnce => ConvsAreOne'  BY <2>1, <2>2 DEF ConvInv, RoomsFit, ConvsAreOne
    <2> QED BY <1>1, <1>5, <2>3 DEF ConvInv, RoomsFit
  <1> QED BY <1>6, <1>10, <1>11, <1>12, <1>13 DEF ConvInv

\* A message is seen: those who are marking its room, or about to write receipts for it, will have it
\* between.
LEMMA PostConv == ASSUME ConvInv, NEW c \in ConvCalls, InsertMessage(c) PROVE ConvInv'
  <1> PICK r, t : r = convCall[c].room /\ t = convCall[c].at  OBVIOUS
  <1> DEFINE marking == Writing(Marks \cup {"receipts"}, r)
  <1>1. /\ convCall[c].step = "insert" /\ t # 0
        /\ posts' = [posts EXCEPT ![c] = [room |-> r, by |-> convCall[c].by, at |-> t, deleted |-> FALSE]]
        /\ between' = between \cup UNION {MarkOf(w) : w \in marking}
        /\ convCall' = [convCall EXCEPT ![c] = [convCall[c] EXCEPT !.step = "bump", !.at = 0]]
        /\ UNCHANGED <<rooms, receipts, microsecond, known, overlaid, crossedMarks, crossedBumps, soughtAtOnce, convFaults>>
    BY DEF InsertMessage, ConvAt, races
  <1>2. /\ microsecond \in Nat /\ ConvTypes /\ CallFits(convCall[c]) /\ convCall[c] \in ConvRows /\ posts[c].room = 0
        /\ t \in Nat /\ t <= microsecond /\ Sending(c, r)
    BY <1>1 DEF ConvInv, ConvTypes, PostFits, CallFits, ConvRows, Sending
  <1>3. r \in RoomIds /\ r \in Nat /\ r # 0  BY <1>1, <1>2, RoomsAreNumbered DEF CallFits
  <1>4. PICK p \in PostRecs : /\ posts' = [posts EXCEPT ![c] = p] /\ p.room = r /\ p.at = t
    <2> DEFINE p == [room |-> r, by |-> convCall[c].by, at |-> t, deleted |-> FALSE]
    <2>1. p \in PostRecs /\ p.room = r /\ p.at = t  BY <1>2, <1>3 DEF PostRecs, ConvRows
    <2>2. posts' = [posts EXCEPT ![c] = p]  BY <1>1
    <2> HIDE DEF p
    <2> QED BY <2>1, <2>2
  <1>5. PICK w \in ConvRows : /\ convCall' = [convCall EXCEPT ![c] = w] /\ w.step = "bump" /\ w.at = 0 /\ w.room = r
                              /\ w.by = convCall[c].by
    <2> DEFINE v == [convCall[c] EXCEPT !.step = "bump", !.at = 0]
    <2>1. v \in ConvRows /\ v.step = "bump" /\ v.at = 0 /\ v.room = r /\ v.by = convCall[c].by
      BY <1>2 DEF ConvRows, ConvSteps
    <2>2. convCall' = [convCall EXCEPT ![c] = v]  BY <1>1
    <2> HIDE DEF v
    <2> QED BY <2>1, <2>2
  <1>6. /\ posts'[c] = p /\ \A m \in ConvCalls \ {c} : posts'[m] = posts[m]
        /\ ConvMoves(c, w) /\ convCall'[c] = w /\ \A d \in ConvCalls \ {c} : convCall'[d] = convCall[d]
    BY <1>2, <1>4, <1>5 DEF ConvTypes, ConvMoves
  <1>7. /\ between \subseteq between' /\ between' \subseteq Partners
        /\ \A d \in ConvCalls : Marking(d) /\ convCall[d].room = r => MarkOf(d) \subseteq between'
        /\ \A d \in ConvCalls : convCall[d].step = "receipts" /\ convCall[d].room = r => convCall[d].by \subseteq between'
    <2>1. \A d \in ConvCalls : MarkOf(d) \subseteq Partners  BY <1>2 DEF ConvTypes, ConvRows, MarkOf
    <2>2. /\ marking \subseteq ConvCalls
          /\ \A d \in ConvCalls : Marking(d) /\ convCall[d].room = r => d \in marking
          /\ \A d \in ConvCalls : convCall[d].step = "receipts" /\ convCall[d].room = r =>
                d \in marking /\ MarkOf(d) = convCall[d].by
      BY DEF Marking, Writing, ConvInv, CallFits, MarkOf
    <2>3. between \subseteq Partners /\ between' = between \cup UNION {MarkOf(d) : d \in marking}
      BY <1>1, <1>2 DEF ConvTypes
    <2> HIDE DEF marking
    <2> QED BY <2>1, <2>2, <2>3
  <1> HIDE DEF marking
  <1>8. Forward /\ RoomIds' = RoomIds  BY <1>1, <1>2, <1>7 DEF Forward, RoomIds
  <1>9. ConvTypes'  BY <1>1, <1>2, <1>4, <1>5, <1>7, <1>8 DEF ConvTypes
  <1>10. CallFits(w)' /\ PagesFit(w)'  BY <1>1, <1>2, <1>5, <1>8 DEF CallFits, PagesFit
  <1>11. (\A d \in ConvCalls : CallFits(convCall[d])') /\ (\A d \in ConvCalls : PagesFit(convCall[d])')
    <2>1. \A m \in ConvCalls : posts[m].room # 0 => posts'[m].room = posts[m].room /\ posts'[m].at = posts[m].at
      BY <1>2, <1>6
    <2> QED BY <1>6, <1>8, <1>10, <2>1, CallsStay, PagesStay
  <1>12. \A m \in ConvCalls : PostFits(m)'
    <2> TAKE m \in ConvCalls
    <2>1. PostFits(m)  BY DEF ConvInv
    <2>2. CASE m = c  BY <1>1, <1>2, <1>3, <1>4, <1>5, <1>6, <1>8, <2>2 DEF PostFits
    <2>3. CASE m # c  BY <1>1, <1>6, <1>8, <2>1, <2>3 DEF PostFits
    <2> QED BY <2>2, <2>3
  <1>13. \A u \in Partners : <<u, c>> \notin known \cup receipts  BY <1>2 DEF ConvInv, PostFits
  <1>14. \A m \in ConvCalls, s \in RoomIds : Sending(m, s)' => m # c /\ Sending(m, s) /\ convCall'[m] = convCall[m]
    BY <1>5, <1>6 DEF Sending
  <1>15. ASSUME NEW s \in RoomIds', NEW u \in Partners PROVE MarkFits(s, u)' /\ ReceiptsFit(s, u)'
    <2>1. s \in RoomIds /\ MarkFits(s, u) /\ ReceiptsFit(s, u)  BY <1>8 DEF ConvInv
    <2>2. rooms' = rooms /\ (InRoom(s, u)' <=> InRoom(s, u))  BY <1>1 DEF InRoom
    <2>3. MarkFits(s, u)'  BY <1>1, <1>2, <1>4, <1>6, <1>13, <1>14, <2>1, <2>2 DEF MarkFits
    <2>4. ReceiptsFit(s, u)'  BY <1>1, <1>4, <1>5, <1>6, <1>7, <1>13, <2>1, <2>2 DEF ReceiptsFit
    <2> QED BY <2>3, <2>4
  <1>16. ASSUME NEW d \in ConvCalls PROVE MarkingFits(d)'
    <2> SUFFICES ASSUME Marking(d)' PROVE MarkingFits(d)'  BY DEF MarkingFits
    <2>1. d # c /\ convCall'[d] = convCall[d]  BY <1>5, <1>6 DEF Marking, Marks
    <2>2. Marking(d) /\ MarkOf(d)' = MarkOf(d) /\ MarkingFits(d) /\ convCall[d] \in ConvRows /\ CallFits(convCall[d])
      BY <1>2, <2>1 DEF Marking, MarkOf, ConvInv, ConvTypes
    <2>3. convCall[d].room \in RoomIds /\ convCall[d].room # 0
      BY <1>2, <2>2, RoomsAreNumbered DEF CallFits, Marking, Marks
    <2>4. \A m \in ConvCalls :
             /\ m \in convCall[d].had => posts'[m].room = convCall[d].room /\ posts'[m].at < convCall[d].at
             /\ posts'[m].room = convCall[d].room /\ m \notin convCall[d].had =>
                   MarkOf(d) \subseteq between' /\ (m \in convCall[d].got \/ posts'[m].at > convCall[d].at)
      <3> TAKE m \in ConvCalls
      <3>1. CASE m = c
        <4>1. c \notin convCall[d].had  BY <1>2, <2>2, <2>3 DEF MarkingFits
        <4>2. r = convCall[d].room => c \in convCall[d].got \/ t > convCall[d].at  BY <1>2, <2>2 DEF MarkingFits
        <4> QED BY <1>4, <1>6, <1>7, <2>2, <3>1, <4>1, <4>2
      <3>2. CASE m # c  BY <1>6, <1>7, <2>2, <3>2 DEF MarkingFits
      <3> QED BY <3>1, <3>2
    <2>5. \A m \in ConvCalls : Sending(m, convCall[d].room)' => m \in convCall[d].got \/ convCall'[m].at > convCall[d].at
      <3> TAKE m \in ConvCalls
      <3>1. Sending(m, convCall[d].room)' => Sending(m, convCall[d].room) /\ convCall'[m] = convCall[m]
        BY <2>1, <2>3, <1>14 DEF Sending
      <3> QED BY <2>2, <3>1 DEF MarkingFits
    <2>6. \A e \in ConvCalls : Marking(e)' => Marking(e) /\ convCall'[e] = convCall[e] /\ MarkOf(e)' = MarkOf(e)
      BY <1>5, <1>6 DEF Marking, Marks, MarkOf
    <2> QED BY <1>1, <2>1, <2>2, <2>4, <2>5, <2>6 DEF MarkingFits
  <1>17. RoomsFit'
    <2>1. OfBoth' = OfBoth  BY <1>1 DEF OfBoth, InRoom, RoomIds
    <2>2. \A d \in ConvCalls : convCall'[d].step = "create" => convCall[d].step = "create"  BY <1>5, <1>6
    <2>3. ~soughtAtOnce => ConvsAreOne'  BY <2>1, <2>2 DEF ConvInv, RoomsFit, ConvsAreOne
    <2> QED BY <1>1, <1>8, <2>3 DEF ConvInv, RoomsFit
  <1>18. \A m \in ConvCalls : ListFits(m)'  BY <1>1, <1>5, <1>6 DEF ConvInv, ListFits
  <1>19. ASSUME NEW d \in ConvCalls PROVE BumpingFits(d)'
    <2> SUFFICES ASSUME Bumping(d)' PROVE BumpingFits(d)'  BY DEF BumpingFits
    <2>1. d # c /\ convCall'[d] = convCall[d] /\ Bumping(d) /\ BumpingFits(d)
      BY <1>5, <1>6 DEF Bumping, ConvInv
    <2>2. \A e \in ConvCalls : Bumping(e)' => Bumping(e) /\ convCall'[e] = convCall[e]
      BY <1>5, <1>6 DEF Bumping
    <2>3. \A m \in ConvCalls : convCall[m].step = "bump" => convCall'[m].step = "bump"  BY <1>5, <1>6
    <2> QED BY <1>1, <1>5, <1>6, <2>1, <2>2, <2>3 DEF BumpingFits
  <1> QED BY <1>9, <1>11, <1>12, <1>15, <1>16, <1>17, <1>18, <1>19 DEF ConvInv

\* A page that is not the last is not empty, and its oldest message is the next cursor: whatever is
\* as new as that is on it.
LEMMA PageReaches ==
    ASSUME NEW S, IsFiniteSet(S), NEW age \in [S -> Nat], NEW b \in Nat, \A m \in S : age[m] <= b,
           NEW page, page = {m \in S : Cardinality({n \in S : age[n] > age[m]}) < PageSize}, page # S
    PROVE  /\ Min({age[m] : m \in page}) \in {age[m] : m \in page}
           /\ \A m \in S : m \in page \/ age[m] < Min({age[m2] : m2 \in page})
  <1> DEFINE ages == {age[m] : m \in S}
             shown1 == {age[m] : m \in page}
  <1>1. S # {} /\ ages \subseteq 0..b /\ ages # {}  BY DEF ages
  <1>2. PICK top \in S : \A m \in S : age[m] <= age[top]
    <2> HIDE DEF ages
    <2>1. PICK t \in ages : \A y \in ages : t >= y  BY <1>1, HasLargest
    <2> QED BY <2>1 DEF ages
  <1>3. top \in page  BY <1>2, FS_EmptySet, ConversationAssumption
  <1>4. shown1 \subseteq Nat /\ shown1 # {}  BY <1>3
  <1>5. \E x \in shown1 : \A y \in shown1 : x <= y
    <2> HIDE DEF shown1
    <2> QED BY <1>4, HasLeast
  <1>6. Min(shown1) \in shown1 /\ \A y \in shown1 : Min(shown1) <= y
    <2> HIDE DEF shown1
    <2> QED BY <1>5 DEF Min
  <1>7. PICK low \in page : age[low] = Min(shown1)  BY <1>6
  <1>8. ASSUME NEW m \in S, age[m] >= age[low] PROVE m \in page
    <2> DEFINE newer(x) == {n \in S : age[n] > age[x]}
    <2>1. low \in S /\ newer(m) \subseteq newer(low)  BY <1>7, <1>8
    <2>2. IsFiniteSet(newer(low)) /\ newer(low) \subseteq S  BY FS_Subset
    <2>3. Cardinality(newer(m)) <= Cardinality(newer(low)) /\ Cardinality(newer(m)) \in Nat /\ Cardinality(newer(low)) \in Nat
      <3> HIDE DEF newer
      <3> QED BY <2>1, <2>2, FS_Subset, FS_CardinalityType
    <2>4. Cardinality(newer(low)) < PageSize  BY <1>7
    <2> HIDE DEF newer
    <2>5. Cardinality(newer(m)) < PageSize  BY <2>3, <2>4, ConversationAssumption
    <2> QED BY <2>5 DEF newer
  <1>9. \A m \in S : m \in page \/ age[m] < age[low]
    <2> TAKE m \in S
    <2>1. age[m] \in Nat /\ age[low] \in Nat  BY <1>7
    <2>2. CASE age[m] >= age[low]  BY <1>8, <2>2
    <2> QED BY <2>1, <2>2
  <1> QED BY <1>6, <1>7, <1>9

\* A page is read; it takes along what it shows.
LEMMA PageConv == ASSUME ConvInv, NEW c \in ConvCalls, ReadPage(c) PROVE ConvInv'
  <1> DEFINE asked == convCall[c]
             here == {m \in PostsIn(asked.room) : posts[m].at \in Earlier(asked.at)}
             page == {m \in here : Cardinality({n \in here : posts[n].at > posts[m].at}) < PageSize}
             low == Min({posts[m].at : m \in page})
             more == asked.got \cup page
  <1>1. /\ asked.step = "page"
        /\ UNCHANGED <<rooms, posts, receipts, microsecond, known, overlaid, between, races, convFaults>>
        /\ \E u \in asked.by : convCall' = [convCall EXCEPT ![c] =
              IF ~InRoom(asked.room, u) THEN Over
              ELSE IF page = here THEN [asked EXCEPT !.step = "ended", !.got = more, !.at = 0]
              ELSE [asked EXCEPT !.at = low, !.got = more]]
    BY DEF ReadPage, ConvAt
  <1>2. /\ microsecond \in Nat /\ ConvTypes /\ CallFits(asked) /\ PagesFit(asked) /\ asked \in ConvRows
        /\ convFaults \in 0..MaxConvFaults /\ posts[c].room = 0
    BY <1>1 DEF ConvInv, ConvTypes, PostFits
  <1>3. here \subseteq ConvCalls /\ page \subseteq here /\ more \subseteq ConvCalls
    BY <1>2 DEF PostsIn, ConvRows
  <1>4. \A m \in ConvCalls : posts[m].room # 0 => posts[m].at \in Nat /\ posts[m].at <= microsecond /\ posts[m].at >= 1
    BY <1>2 DEF ConvInv, PostFits, ConvTypes, PostRecs
  <1>5. asked.room # 0 /\ asked.room \in RoomIds  BY <1>1, <1>2, RoomsAreNumbered DEF CallFits
  <1>6. \A m \in here : posts[m].room = asked.room /\ posts[m].at \in Nat /\ posts[m].at <= microsecond /\ posts[m].at >= 1
    BY <1>3, <1>4, <1>5 DEF PostsIn
  <1>7. \A m \in asked.had : m \in asked.got \/ m \in here
    <2> TAKE m \in asked.had
    <2>1. m \in ConvCalls /\ posts[m].room = asked.room /\ (m \in asked.got \/ asked.at = 0 \/ posts[m].at < asked.at)
      BY <1>1, <1>2 DEF PagesFit, ConvRows
    <2> QED BY <1>2, <1>4, <1>5, <2>1 DEF PostsIn, Earlier
  <1>8. page # here => /\ low \in Nat /\ low >= 1 /\ low <= microsecond
                       /\ \A m \in here : m \in page \/ posts[m].at < low
    <2> SUFFICES ASSUME page # here
                 PROVE  /\ low \in Nat /\ low >= 1 /\ low <= microsecond
                        /\ \A m \in here : m \in page \/ posts[m].at < low
      OBVIOUS
    <2> DEFINE age == [m \in here |-> posts[m].at]
    <2>1. IsFiniteSet(here) /\ age \in [here -> Nat] /\ \A m \in here : age[m] <= microsecond /\ age[m] = posts[m].at
      BY <1>3, <1>6, FS_Subset, ConversationAssumption
    <2> HIDE DEF age
    <2>2. page = {m \in here : Cardinality({n \in here : age[n] > age[m]}) < PageSize}  BY <2>1
    <2>3. {posts[m].at : m \in page} = {age[m] : m \in page}  BY <1>3, <2>1
    <2> HIDE DEF page, here
    <2>4. /\ Min({age[m] : m \in page}) \in {age[m] : m \in page}
          /\ \A m \in here : m \in page \/ age[m] < Min({age[m2] : m2 \in page})
      <3>1. /\ microsecond \in Nat /\ IsFiniteSet(here) /\ age \in [here -> Nat] /\ page # here
            /\ \A m \in here : age[m] <= microsecond
        BY <1>2, <2>1
      <3> HIDE DEF low, more
      <3> QED BY <2>2, <3>1, PageReaches
    <2>5. low \in {age[m] : m \in page} /\ \A m \in here : m \in page \/ age[m] < low  BY <2>3, <2>4
    <2> HIDE DEF low
    <2> QED BY <1>3, <1>6, <2>1, <2>5
  <1> HIDE DEF here, page, low, more
  <1> DEFINE Becomes(w) ==
               /\ convCall' = [convCall EXCEPT ![c] = w] /\ w.step \in {"page", "ended"}
               /\ w.at \in Nat /\ w.at <= microsecond /\ w.room \in {asked.room, 0}
               /\ w.step = "page" => w.room = asked.room /\ w.by = asked.by
               /\ w.had \in {asked.had, {}} /\ w.got \in {more, {}}
               /\ \/ w = Over
                  \/ page = here /\ w.step = "ended" /\ w.got = more
                  \/ page # here /\ w.step = "page" /\ w.got = more /\ w.at = low
  <1>9. \E w \in ConvRows : Becomes(w)
    <2>1. PICK u \in asked.by : convCall' = [convCall EXCEPT ![c] =
              IF ~InRoom(asked.room, u) THEN Over
              ELSE IF page = here THEN [asked EXCEPT !.step = "ended", !.got = more, !.at = 0]
              ELSE [asked EXCEPT !.at = low, !.got = more]]
      BY <1>1
    <2>2. CASE ~InRoom(asked.room, u)
      <3>1. Over.room = 0 /\ Over.got = {}  BY DEF Over, Untouched
      <3>2. convCall' = [convCall EXCEPT ![c] = Over]  BY <2>1, <2>2
      <3>3. 0 <= microsecond  BY <1>2
      <3>4. Becomes(Over)
        <4> HIDE DEF asked
        <4> QED BY <3>1, <3>2, <3>3, OverFits
      <3> HIDE DEF Becomes
      <3> QED BY <3>4, OverFits
    <2>3. CASE InRoom(asked.room, u) /\ page = here
      <3> DEFINE v == [asked EXCEPT !.step = "ended", !.got = more, !.at = 0]
      <3>1. convCall' = [convCall EXCEPT ![c] = v]  BY <2>1, <2>3
      <3>2. /\ v \in ConvRows /\ v.step = "ended" /\ v.got = more /\ v.at = 0 /\ v.had = asked.had /\ v.room = asked.room
        BY <1>2, <1>3 DEF ConvRows, ConvSteps
      <3>3. 0 <= microsecond  BY <1>2
      <3>4. Becomes(v)
        <4> HIDE DEF v, asked
        <4> QED BY <2>3, <3>1, <3>2, <3>3
      <3> HIDE DEF Becomes, v
      <3> QED BY <3>2, <3>4
    <2>4. CASE InRoom(asked.room, u) /\ page # here
      <3> DEFINE v == [asked EXCEPT !.at = low, !.got = more]
      <3>1. convCall' = [convCall EXCEPT ![c] = v]  BY <2>1, <2>4
      <3>2. /\ v \in ConvRows /\ v.step = "page" /\ v.got = more /\ v.at = low /\ v.had = asked.had /\ v.room = asked.room
            /\ v.by = asked.by
        BY <1>1, <1>2, <1>3, <1>8, <2>4 DEF ConvRows
      <3>3. Becomes(v)
        <4> HIDE DEF v, asked
        <4> QED BY <1>8, <2>4, <3>1, <3>2
      <3> HIDE DEF Becomes, v
      <3> QED BY <3>2, <3>3
    <2> QED BY <2>2, <2>3, <2>4
  <1>10. PICK w \in ConvRows : Becomes(w)  BY <1>9
  <1>11. /\ convCall' = [convCall EXCEPT ![c] = w] /\ w.step \in {"page", "ended"} /\ w.at <= microsecond
         /\ w.step = "page" => w.room = asked.room /\ w.by = asked.by
         /\ w.room \in {0, asked.room}
    BY <1>10
  <1>12. /\ UNCHANGED <<rooms, posts, receipts, known, overlaid, between>> /\ UNCHANGED <<microsecond, convFaults>>
         /\ UNCHANGED <<crossedMarks, crossedBumps, soughtAtOnce>> /\ ConvMoves(c, w)
    BY <1>1, <1>11 DEF races, ConvMoves
  <1>13. CallFits(w)'
    <2>1. \E u \in Partners : asked.by = {u}  BY <1>1, <1>2 DEF CallFits
    <2> HIDE DEF asked
    <2>2. RoomIds' = RoomIds /\ w.at <= microsecond'  BY <1>11, <1>12 DEF RoomIds
    <2> QED BY <1>5, <1>11, <2>1, <2>2 DEF CallFits
  <1>14. PagesFit(w)'  BY <1>1, <1>2, <1>7, <1>8, <1>10, OverFits DEF more, PagesFit
  <1>15. convCall[c].step # "bump" /\ posts[c].room = 0  BY <1>1, <1>2
  <1>16. /\ microsecond' \in {microsecond, microsecond + 1} /\ convFaults' \in 0..MaxConvFaults
         /\ convFaults' = convFaults /\ w.step \notin {"bump", "receipts", "create", "insert"}
         /\ crossedMarks' \subseteq Partners /\ crossedBumps' \subseteq RoomIds /\ soughtAtOnce' \in BOOLEAN
    BY <1>2, <1>11, <1>12 DEF ConvTypes
  <1>17. convCall'[c] = w  BY <1>12, TheOthers
  <1>18. MarkingFits(c)' /\ BumpingFits(c)'
    BY <1>11, <1>17 DEF MarkingFits, Marking, Marks, BumpingFits, Bumping, Bumps
  <1> HIDE DEF asked
  <1> QED BY <1>12, <1>13, <1>14, <1>15, <1>16, <1>18, OnlyTheCall

\* Every step of the conversations keeps the invariant.
LEMMA NextConv == ConvInv /\ [ConvNext]_convVars => ConvInv'
  <1> SUFFICES ASSUME ConvInv, [ConvNext]_convVars PROVE ConvInv'  OBVIOUS
  <1>1. CASE UNCHANGED convVars
    <2>1. /\ rooms' = rooms /\ posts' = posts /\ receipts' = receipts /\ convCall' = convCall
          /\ microsecond' = microsecond /\ known' = known /\ overlaid' = overlaid /\ between' = between
          /\ crossedMarks' = crossedMarks /\ crossedBumps' = crossedBumps /\ soughtAtOnce' = soughtAtOnce
          /\ convFaults' = convFaults
      BY <1>1 DEF convVars, races
    <2>2. RoomIds' = RoomIds /\ OfBoth' = OfBoth /\ \A r, u : InRoom(r, u)' <=> InRoom(r, u)
      BY <2>1 DEF RoomIds, InRoom, OfBoth
    <2>3. \A c \in ConvCalls : /\ Marking(c)' <=> Marking(c)
                               /\ Bumping(c)' <=> Bumping(c)
                               /\ MarkOf(c)' = MarkOf(c) /\ \A r : Sending(c, r)' <=> Sending(c, r)
      BY <2>1 DEF Marking, Bumping, MarkOf, Sending
    <2>4. ConvTypes'  BY <2>1, <2>2 DEF ConvInv, ConvTypes
    <2>5. RoomsFit' /\ \A c \in ConvCalls : CallFits(convCall[c])' /\ PagesFit(convCall[c])' /\ PostFits(c)' /\ ListFits(c)'
      BY <2>1, <2>2 DEF ConvInv, CallFits, PagesFit, PostFits, ListFits, RoomsFit, ConvsAreOne
    <2>6. \A c \in ConvCalls : MarkingFits(c)' /\ BumpingFits(c)'
      BY <2>1, <2>2, <2>3 DEF ConvInv, MarkingFits, BumpingFits
    <2>7. \A r \in RoomIds', u \in Partners : MarkFits(r, u)' /\ ReceiptsFit(r, u)'
      BY <2>1, <2>2, <2>3 DEF ConvInv, MarkFits, ReceiptsFit
    <2> QED BY <2>2, <2>4, <2>5, <2>6, <2>7 DEF ConvInv
  <1>2. ASSUME NEW c \in ConvCalls, SendToConversation(c) \/ MarkRead(c) \/ GetConversationMessages(c)
        PROVE  ConvInv'
    BY <1>2, EnterConv DEF SendToConversation, MarkRead, GetConversationMessages
  <1> QED
    BY <1>1, <1>2, FindConv, MakeConv, GroupConv, ManageConv, StampConv, PostConv, BumpConv, UnpostConv,
       ReadConv, ReceiptsConv, MemberConv, DropConv, PageConv, FailConv DEF ConvNext

\* The invariant has the property.
LEMMA ConvFollows == ConvInv => ConversationsAreKept
  <1> SUFFICES ASSUME ConvInv PROVE ConversationsAreKept  OBVIOUS
  <1>0. ConvTypes  BY DEF ConvInv
  <1>1. \A m \in ConvCalls : posts[m].at \in Nat  BY <1>0 DEF ConvTypes, PostRecs
  <1>2. \A r \in RoomIds, u \in Partners : rooms[r].read[u] \in Nat /\ r # 0  BY <1>0, RoomsAreNumbered DEF RoomRecs
  <1>3. UnreadIsTrue  BY <1>1, <1>2 DEF UnreadIsTrue, ToRead, PostsIn, ConvInv, MarkFits, Unread
  <1>4. ReceiptsAgree  BY <1>1, <1>2 DEF ReceiptsAgree, Unread, ToRead, PostsIn, ConvInv, ReceiptsFit
  <1>5. OneConversation  BY AtMostOne DEF OneConversation, ConvInv, RoomsFit, ConvsAreOne
  <1>6. ListIsOrdered
    <2> SUFFICES ASSUME convFaults = 0, NEW r \in RoomIds \ crossedBumps, ConvsAt({"bump"}) = {}, NEW m \in PostsIn(r)
                 PROVE  posts[m].at < rooms[r].bumped
      BY DEF ListIsOrdered
    <2>1. m \in ConvCalls /\ posts[m].room = r  BY DEF PostsIn
    <2>2. r # 0  BY <1>0, RoomsAreNumbered
    <2>3. convCall[m].step # "bump"  BY <2>1 DEF ConvsAt
    <2> QED BY <2>1, <2>2, <2>3 DEF ConvInv, ListFits
  <1>7. PagesAreWhole  BY DEF PagesAreWhole, ConvInv, PagesFit, ConvsAt
  <1> QED BY <1>3, <1>4, <1>5, <1>6, <1>7 DEF ConversationsAreKept

\* The variables have their types.
LEMMA ConvTyped == ConvInv => ConvTypeOK
  <1> SUFFICES ASSUME ConvInv PROVE ConvTypeOK  OBVIOUS
  <1>1. ConvTypes  BY DEF ConvInv
  <1>2. \A r \in RoomIds : rooms[r] \in RoomRecs  BY <1>1, RoomsAreNumbered
  <1>3. \A m \in ConvCalls : posts[m].room \in {0} \cup RoomIds /\ convCall[m].room \in {0} \cup RoomIds
    BY <1>1 DEF ConvInv, PostFits, CallFits, ConvTypes, PostRecs
  <1> QED BY <1>1, <1>2, <1>3 DEF ConvTypeOK, ConvTypes, RoomRecs, PostRecs, ConvRows

--------
\* The engagement of the deployed backend (Engagement).

EngKinds == {"none", "follows", "likes", "comment_likes", "bookmarks", "comments", "views", "pins", "videos"}
CallRecs == [step : EngSteps, kind : EngKinds, by : People \cup {"none"}, on : People \cup Clips \cup Remarks \cup {"none"},
             sign : {1, -1}, counted : 0..2, flag : BOOLEAN]
RemarkRecs == [by : People, clip : Clips, pinned : BOOLEAN, deleted : BOOLEAN]
NoticeRecs == [call : Calls, type : {"follows", "likes", "comments"}, to : People, actor : People, read : BOOLEAN]

EngTypes ==
    /\ call \in [Calls -> CallRecs] /\ video \in [Clips -> People \cup {"none"}]
    /\ remark \in [Remarks -> {NoRemark} \cup RemarkRecs]
    /\ rows \subseteq Rows /\ count \in [CounterKeys -> Nat] /\ notices \subseteq NoticeRecs
    /\ engFaults \in 0..MaxEngFaults
    /\ lost \subseteq SharedKeys /\ overlapped \subseteq SharedKeys /\ redeleted \subseteq Remarks

\* The counters of a request, the clip of the comment it is about being v, and those it has still
\* to update: CountersOf and Pending as sets.
KeysAt(r, v) ==
    {k \in CounterKeys :
        \/ r.kind = "follows" /\ (k = <<"followers", r.on>> \/ k = <<"following", r.by>>)
        \/ r.kind = "likes" /\ k = <<"likes", r.on>>
        \/ r.kind = "comment_likes" /\ k = <<"like_count", r.on>>
        \/ r.kind = "comments" /\ k = <<"comments", v>>
        \/ r.kind = "views" /\ k = <<"views", r.on>>}
PendingAt(r, v) == {k \in KeysAt(r, v) : r.step = "count" /\ (r.counted = 0 \/ k[1] = "following")}
SharedAt(r, v) == {<<r.kind, r.on>>} \cup KeysAt(r, v)
ClipOf(r) == IF r.kind = "comments" THEN remark[r.on].clip ELSE "none"

\* What a request is about is there, and each of its steps belongs to one kind.
AboutFits(r) ==
    /\ r.step # "idle" => r.by \in People /\ r.kind # "none"
    /\ r.kind = "follows" => r.on \in People
    /\ r.kind \in {"likes", "bookmarks", "views", "videos"} => r.on \in Clips /\ video[r.on] # "none"
    /\ r.kind \in {"comment_likes", "comments", "pins"} => r.on \in Remarks /\ remark[r.on] # NoRemark
    /\ r.kind = "comments" => remark[r.on].by = r.by
StepFits(r) ==
    /\ r.step = "count" => /\ r.kind \in {"follows", "likes", "comment_likes", "comments", "views"}
                           /\ r.counted = 0 \/ (r.kind = "follows" /\ r.counted = 1)
    /\ r.step = "remove" => r.kind \in {"likes", "comment_likes", "bookmarks"} /\ r.sign = -1 /\ r.counted = 0
    /\ r.step = "delete" => r.kind = "comments" /\ r.sign = -1 /\ r.counted = 0
    /\ r.step = "notify" => r.kind \in {"follows", "likes", "comments"} /\ r.sign = 1
    /\ r.step = "pin" => r.kind = "pins"
    /\ r.kind = "views" => r.sign = 1
CommentsFit ==
    /\ \A m \in Remarks : remark[m] # NoRemark => video[remark[m].clip] # "none"
    /\ \A m \in redeleted : remark[m] # NoRemark

\* Two requests of one user on one thing have overlapped, and whoever is about to delete a row or
\* to count one finds it there unless they did.
Running(c) == call[c].step \notin {"idle", "done"}
OnOne(r, s) == r.kind = s.kind /\ r.by = s.by /\ r.on = s.on
Overlapping(c) == SharedAt(call[c], ClipOf(call[c])) \subseteq overlapped
DeedsAreAlone ==
    \A c, d \in Calls : Running(c) /\ Running(d) /\ OnOne(call[c], call[d]) => c = d \/ Overlapping(c)
HoldsRow(r) ==
    /\ r.step = "remove" \/ (r.step = "count" /\ r.sign = 1 /\ r.kind \in {"follows", "likes", "comment_likes"}) =>
          <<r.kind, r.by, r.on>> \in rows
    /\ r.step = "count" /\ r.sign = 1 /\ r.kind = "comments" => ~remark[r.on].deleted
RowsAreHeld == \A c \in Calls : HoldsRow(call[c]) \/ Overlapping(c)

\* Who or what a counter counts, and which of them a request's row is; the count, with what is on
\* its way, agrees with them unless the property excuses it.
Standers(k) ==
    {x \in People \cup Remarks :
        \/ k[1] = "followers" /\ <<"follows", x, k[2]>> \in rows
        \/ k[1] = "following" /\ <<"follows", k[2], x>> \in rows
        \/ k[1] = "likes" /\ <<"likes", x, k[2]>> \in rows
        \/ k[1] = "like_count" /\ <<"comment_likes", x, k[2]>> \in rows
        \/ k[1] = "comments" /\ x \in Remarks /\ remark[x].clip = k[2] /\ ~remark[x].deleted}
Place(r, k) == IF k[1] \in {"following", "comments"} THEN r.on ELSE r.by
Undisturbed(k) ==
    k \notin lost /\ k \notin overlapped /\ (k[1] = "comments" => \A m \in redeleted : remark[m].clip # k[2])
Surplus(k) == count[k] + Cardinality(Raising(k)) - Cardinality(Lowering(k)) - Cardinality(Standers(k))
Tallies(k) ==
    /\ Undisturbed(k) => Surplus(k) = 0
    /\ k \in FollowKeys \ lost => Surplus(k) >= 0

EngBase == EngTypes /\ (\A c \in Calls : AboutFits(call[c]) /\ StepFits(call[c])) /\ CommentsFit
EngInv == EngBase /\ DeedsAreAlone /\ RowsAreHeld /\ (\A k \in SummaryKeys : Tallies(k)) /\ EveryDeedIsAnnounced

\* The counters have names, and each counts something.
LEMMA SummaryIs == \A k \in SummaryKeys :
                      /\ k \in CounterKeys /\ k = <<k[1], k[2]>>
                      /\ \/ k[1] \in {"followers", "following"} /\ k[2] \in People
                         \/ k[1] \in {"likes", "comments"} /\ k[2] \in Clips
                         \/ k[1] = "like_count" /\ k[2] \in Remarks
  BY DEF SummaryKeys, CounterKeys

\* Counted and Pending are what Standers and PendingAt say.
LEMMA CountedIs == EngTypes => \A k \in SummaryKeys : Counted(k) = Cardinality(Standers(k))
  <1> SUFFICES ASSUME EngTypes, NEW k \in SummaryKeys PROVE Counted(k) = Cardinality(Standers(k))  OBVIOUS
  <1>0. rows \subseteq Rows  BY DEF EngTypes
  <1>1. CASE k[1] = "followers"  BY <1>0, <1>1 DEF Standers, Followers, Rows, Counted
  <1>2. CASE k[1] = "following"  BY <1>0, <1>2 DEF Standers, Following, Rows, Counted
  <1>3. CASE k[1] = "likes"  BY <1>0, <1>3 DEF Standers, Likers, Rows, Counted
  <1>4. CASE k[1] = "like_count"  BY <1>0, <1>4 DEF Standers, CommentLikers, Rows, Counted
  <1>5. CASE k[1] = "comments"  BY <1>5 DEF Standers, Standing, Counted
  <1> QED BY <1>1, <1>2, <1>3, <1>4, <1>5, SummaryIs

\* The counters of a request, as a sequence.
LEMMA CountersIs ==
    ASSUME NEW r \in CallRecs
    PROVE  /\ r.kind = "follows" => /\ Len(CountersOf(r)) = 2
                                    /\ CountersOf(r)[1] = <<"followers", r.on>> /\ CountersOf(r)[2] = <<"following", r.by>>
           /\ r.kind = "likes" => Len(CountersOf(r)) = 1 /\ CountersOf(r)[1] = <<"likes", r.on>>
           /\ r.kind = "comment_likes" => Len(CountersOf(r)) = 1 /\ CountersOf(r)[1] = <<"like_count", r.on>>
           /\ r.kind = "comments" => Len(CountersOf(r)) = 1 /\ CountersOf(r)[1] = <<"comments", remark[r.on].clip>>
           /\ r.kind = "views" => Len(CountersOf(r)) = 1 /\ CountersOf(r)[1] = <<"views", r.on>>
           /\ r.kind \in {"none", "bookmarks", "pins", "videos"} => Len(CountersOf(r)) = 0
  <1>1. CASE r.kind = "follows"  BY <1>1 DEF CountersOf
  <1>2. CASE r.kind = "likes"  BY <1>2 DEF CountersOf
  <1>3. CASE r.kind = "comment_likes"  BY <1>3 DEF CountersOf
  <1>4. CASE r.kind = "comments"  BY <1>4 DEF CountersOf
  <1>5. CASE r.kind = "views"  BY <1>5 DEF CountersOf
  <1>6. CASE r.kind \in {"none", "bookmarks", "pins", "videos"}  BY <1>6 DEF CountersOf
  <1> QED BY <1>1, <1>2, <1>3, <1>4, <1>5, <1>6 DEF CallRecs, EngKinds

\* A request about something has counters, and they are those of KeysAt.
LEMMA KeysAre ==
    ASSUME EngTypes, NEW r \in CallRecs, AboutFits(r), r.step # "idle"
    PROVE  /\ {CountersOf(r)[i] : i \in 1..Len(CountersOf(r))} = KeysAt(r, ClipOf(r))
           /\ KeysOf(r) = SharedAt(r, ClipOf(r))
  <1>0. /\ r.by \in People
        /\ r.kind = "comments" => remark[r.on].clip \in Clips
    BY DEF AboutFits, EngTypes, NoRemark, RemarkRecs
  <1>1. {CountersOf(r)[i] : i \in 1..Len(CountersOf(r))} = KeysAt(r, ClipOf(r))
    <2>1. CASE r.kind = "follows"
      <3>1. {CountersOf(r)[i] : i \in 1..2} = {<<"followers", r.on>>, <<"following", r.by>>}
        <4> DEFINE keys == CountersOf(r)
        <4>1. keys[1] = <<"followers", r.on>> /\ keys[2] = <<"following", r.by>>  BY <2>1, CountersIs
        <4> HIDE DEF keys
        <4>2. {keys[i] : i \in 1..2} = {keys[1], keys[2]}  OBVIOUS
        <4> QED BY <4>1, <4>2 DEF keys
      <3>2. KeysAt(r, ClipOf(r)) = {<<"followers", r.on>>, <<"following", r.by>>}
        BY <1>0, <2>1 DEF KeysAt, CounterKeys, AboutFits
      <3> QED BY <2>1, <3>1, <3>2, CountersIs
    <2>2. CASE r.kind \in {"likes", "comment_likes", "comments", "views"}
      <3>1. {CountersOf(r)[i] : i \in 1..1} = {CountersOf(r)[1]}  OBVIOUS
      <3>2. KeysAt(r, ClipOf(r)) = {CountersOf(r)[1]}
        <4>1. CASE r.kind = "likes"
          <5>1. CountersOf(r)[1] = <<"likes", r.on>>  BY <4>1, CountersIs
          <5>2. r.on \in Clips  BY <1>0, <4>1 DEF AboutFits
          <5>3. KeysAt(r, ClipOf(r)) = {<<"likes", r.on>>}  BY <5>2, <4>1 DEF CounterKeys, KeysAt
          <5> QED BY <5>1, <5>3
        <4>2. CASE r.kind = "comment_likes"
          <5>1. CountersOf(r)[1] = <<"like_count", r.on>>  BY <4>2, CountersIs
          <5>2. r.on \in Remarks  BY <1>0, <4>2 DEF AboutFits
          <5>3. KeysAt(r, ClipOf(r)) = {<<"like_count", r.on>>}  BY <5>2, <4>2 DEF CounterKeys, KeysAt
          <5> QED BY <5>1, <5>3
        <4>3. CASE r.kind = "comments"
          <5>1. CountersOf(r)[1] = <<"comments", remark[r.on].clip>>  BY <4>3, CountersIs
          <5>2. remark[r.on].clip \in Clips /\ ClipOf(r) = remark[r.on].clip
            BY <1>0, <4>3 DEF AboutFits, ClipOf
          <5>3. KeysAt(r, ClipOf(r)) = {<<"comments", remark[r.on].clip>>}
            BY <5>2, <4>3 DEF CounterKeys, KeysAt
          <5> QED BY <5>1, <5>3
        <4>4. CASE r.kind = "views"
          <5>1. CountersOf(r)[1] = <<"views", r.on>>  BY <4>4, CountersIs
          <5>2. r.on \in Clips  BY <1>0, <4>4 DEF AboutFits
          <5>3. KeysAt(r, ClipOf(r)) = {<<"views", r.on>>}  BY <5>2, <4>4 DEF CounterKeys, KeysAt
          <5> QED BY <5>1, <5>3
        <4> QED BY <2>2, <4>1, <4>2, <4>3, <4>4
      <3> QED BY <2>2, <3>1, <3>2, CountersIs
    <2>3. CASE r.kind \in {"none", "bookmarks", "pins", "videos"}  BY <2>3, CountersIs DEF KeysAt
    <2> QED BY <2>1, <2>2, <2>3 DEF CallRecs, EngKinds
  <1> QED BY <1>1 DEF KeysOf, SharedAt

\* What each request has still to count.
PendingAre == \A c \in Calls : Pending(c) = PendingAt(call[c], ClipOf(call[c]))

\* Pending and PendingAt agree.
LEMMA PendingIs == EngBase => PendingAre
  <1> SUFFICES ASSUME EngBase, NEW c \in Calls PROVE Pending(c) = PendingAt(call[c], ClipOf(call[c]))
    BY DEF PendingAre
  <1> DEFINE r == call[c]
  <1>1. r \in CallRecs /\ AboutFits(r) /\ StepFits(r) /\ EngTypes  BY DEF EngBase, EngTypes
  <1>2. CASE r.step # "count"  BY <1>2 DEF Pending, PendingAt
  <1>3. CASE r.step = "count" /\ r.counted = 0
    <2>1. Pending(c) = {CountersOf(r)[i] : i \in 1..Len(CountersOf(r))}  BY <1>3 DEF Pending
    <2> HIDE DEF r
    <2>2. {CountersOf(r)[i] : i \in 1..Len(CountersOf(r))} = KeysAt(r, ClipOf(r))  BY <1>1, <1>3, KeysAre
    <2>3. PendingAt(r, ClipOf(r)) = KeysAt(r, ClipOf(r))  BY <1>3 DEF PendingAt
    <2> QED BY <2>1, <2>2, <2>3 DEF r
  <1>4. CASE r.step = "count" /\ r.kind = "follows" /\ r.counted = 1
    <2>1. r.by \in People  BY <1>1, <1>4 DEF AboutFits
    <2>2. Pending(c) = {CountersOf(r)[i] : i \in 2..Len(CountersOf(r))}  BY <1>4 DEF Pending
    <2> HIDE DEF r
    <2>3. {CountersOf(r)[i] : i \in 2..2} = {CountersOf(r)[2]}  OBVIOUS
    <2>4. {CountersOf(r)[i] : i \in 2..Len(CountersOf(r))} = {<<"following", r.by>>}
      BY <1>1, <1>4, <2>3, CountersIs
    <2>5. PendingAt(r, ClipOf(r)) = {<<"following", r.by>>}  BY <1>4, <2>1 DEF PendingAt, KeysAt, CounterKeys
    <2> QED BY <2>2, <2>4, <2>5 DEF r
  <1> QED BY <1>1, <1>2, <1>3, <1>4 DEF StepFits

\* The same after a step.
LEMMA PendingIsNext == EngBase' => PendingAre'
  BY PendingIs, PTL

\* What a counter is the balance of is finite.
TalliesFinite ==
    \A k \in SummaryKeys :
        /\ IsFiniteSet(Raising(k)) /\ IsFiniteSet(Lowering(k)) /\ IsFiniteSet(Standers(k))
        /\ Cardinality(Raising(k)) \in Nat /\ Cardinality(Lowering(k)) \in Nat /\ Cardinality(Standers(k)) \in Nat
        /\ count[k] \in Nat

\* It is: there are finitely many requests, users and comments.
LEMMA TalliesAreFinite == EngTypes => TalliesFinite
  <1> SUFFICES ASSUME EngTypes, NEW k \in SummaryKeys
               PROVE  /\ IsFiniteSet(Raising(k)) /\ IsFiniteSet(Lowering(k)) /\ IsFiniteSet(Standers(k))
                      /\ count[k] \in Nat
    BY FS_CardinalityType DEF TalliesFinite
  <1>1. IsFiniteSet(Raising(k)) /\ IsFiniteSet(Lowering(k))
    BY FS_Subset, EngagementAssumption DEF Raising, Lowering
  <1>2. IsFiniteSet(Standers(k))  BY FS_Union, EngagementAssumption, FS_Subset DEF Standers
  <1> QED BY <1>1, <1>2, SummaryIs DEF EngTypes

\* Which counters a request has, by its kind.
LEMMA KeyIs ==
    ASSUME NEW r, NEW v, NEW k \in KeysAt(r, v), k \in SummaryKeys
    PROVE  /\ r.kind \in {"follows", "likes", "comment_likes", "comments"}
           /\ r.kind = "follows" => \/ k[1] = "followers" /\ k[2] = r.on
                                    \/ k[1] = "following" /\ k[2] = r.by
           /\ r.kind = "likes" => k[1] = "likes" /\ k[2] = r.on
           /\ r.kind = "comment_likes" => k[1] = "like_count" /\ k[2] = r.on
           /\ r.kind = "comments" => k[1] = "comments" /\ k[2] = v
  BY DEF KeysAt, SummaryKeys

\* Whoever is about to raise a counter that nobody overlapped on is counted already, each for
\* something else: there are no more of them than it should count.
LEMMA RaisersStand ==
    ASSUME EngInv, NEW k \in SummaryKeys, k \notin overlapped
    PROVE  Cardinality(Raising(k)) <= Cardinality(Standers(k))
  <1>1. EngTypes /\ PendingAre /\ TalliesFinite /\ DeedsAreAlone /\ RowsAreHeld
    BY PendingIs, TalliesAreFinite DEF EngInv, EngBase
  <1>2. ASSUME NEW c \in Raising(k)
        PROVE  /\ c \in Calls /\ call[c] \in CallRecs /\ Running(c) /\ ~Overlapping(c)
               /\ k \in KeysAt(call[c], ClipOf(call[c])) /\ HoldsRow(call[c])
               /\ call[c].step = "count" /\ call[c].sign = 1 /\ AboutFits(call[c])
    BY <1>1 DEF Raising, PendingAre, PendingAt, Overlapping, SharedAt, EngTypes, EngInv, EngBase, RowsAreHeld,
       Running
  <1>3. ASSUME NEW c \in Raising(k) PROVE Place(call[c], k) \in Standers(k)
    <2>0. /\ call[c].by \in People /\ k[1] \in {"followers", "following", "likes", "like_count", "comments"}
      BY <1>2, SummaryIs DEF AboutFits
    <2> DEFINE r == call[c]
    <2>1. /\ r.kind \in {"follows", "likes", "comment_likes"} => <<r.kind, r.by, r.on>> \in rows
          /\ r.kind = "comments" => r.on \in Remarks /\ ~remark[r.on].deleted /\ ClipOf(r) = remark[r.on].clip
          /\ r.kind = "follows" => r.on \in People
      BY <1>2 DEF HoldsRow, AboutFits, ClipOf
    <2>2. k \in KeysAt(r, ClipOf(r))  BY <1>2
    <2> HIDE DEF r
    <2>3. CASE r.kind = "follows"
      <3>1. CASE k[1] = "followers" /\ k[2] = r.on  BY <2>0, <2>1, <2>3, <3>1 DEF Place, Standers, r
      <3>2. CASE k[1] = "following" /\ k[2] = r.by  BY <2>0, <2>1, <2>3, <3>2 DEF Place, Standers, r
      <3> QED BY <2>2, <2>3, <3>1, <3>2, KeyIs
    <2>4. CASE r.kind = "likes"
      <3>1. k[1] = "likes" /\ k[2] = r.on  BY <2>2, <2>4, KeyIs
      <3> QED BY <2>0, <2>1, <2>4, <3>1 DEF Place, Standers, r
    <2>5. CASE r.kind = "comment_likes"
      <3>1. k[1] = "like_count" /\ k[2] = r.on  BY <2>2, <2>5, KeyIs
      <3> QED BY <2>0, <2>1, <2>5, <3>1 DEF Place, Standers, r
    <2>6. CASE r.kind = "comments"  BY <2>2, <2>6, KeyIs, <2>0, <2>1 DEF Place, Standers, r
    <2> QED BY <2>2, <2>3, <2>4, <2>5, <2>6, KeyIs
  <1>4. ASSUME NEW c \in Raising(k), NEW d \in Raising(k), Place(call[c], k) = Place(call[d], k) PROVE c = d
    BY <1>2, SummaryIs, <1>4, <1>1 DEF KeysAt, Place, OnOne, AboutFits, DeedsAreAlone
  <1> DEFINE f == [c \in Raising(k) |-> Place(call[c], k)]
  <1>5. f \in Injection(Raising(k), Standers(k))  BY <1>3, <1>4 DEF Injection, IsInjective
  <1>6. IsFiniteSet(Standers(k))  BY <1>1 DEF TalliesFinite
  <1> HIDE DEF f
  <1> QED BY <1>5, <1>6, FS_Injection

\* What a step may do to a counter.
Unmoved(k) ==
    /\ Raising(k)' = Raising(k) /\ Lowering(k)' = Lowering(k)
    /\ count'[k] = count[k] /\ Standers(k)' = Standers(k)
CountsIn(k, c) ==
    /\ c \notin Raising(k) /\ Raising(k)' = Raising(k) \cup {c} /\ Lowering(k)' = Lowering(k) /\ count'[k] = count[k]
    /\ \E x : x \notin Standers(k) /\ Standers(k)' = Standers(k) \cup {x}
CountsOut(k, c) ==
    /\ c \notin Lowering(k) /\ Lowering(k)' = Lowering(k) \cup {c} /\ Raising(k)' = Raising(k) /\ count'[k] = count[k]
    /\ \E x : x \in Standers(k) /\ Standers(k)' = Standers(k) \ {x}
Raised(k, c) ==
    /\ c \in Raising(k) /\ Raising(k)' = Raising(k) \ {c} /\ Lowering(k)' = Lowering(k)
    /\ count'[k] = Shifted(count[k], 1) /\ Standers(k)' = Standers(k)
Lowered(k, c) ==
    /\ c \in Lowering(k) /\ Lowering(k)' = Lowering(k) \ {c} /\ Raising(k)' = Raising(k)
    /\ count'[k] = Shifted(count[k], -1) /\ Standers(k)' = Standers(k)
MovesBy(k, c) ==
    \/ k \in lost' \/ Unmoved(k) \/ CountsIn(k, c) \/ CountsOut(k, c) \/ Raised(k, c) \/ Lowered(k, c)
    \/ ~Undisturbed(k)' /\ k \notin FollowKeys

\* None of it puts the balance out.
LEMMA TalliesStay ==
    ASSUME EngInv, EngTypes', NEW k \in SummaryKeys, NEW c \in Calls,
           Undisturbed(k)' => Undisturbed(k), lost \subseteq lost', MovesBy(k, c)
    PROVE  Tallies(k)'
  <1>1. /\ IsFiniteSet(Raising(k)) /\ IsFiniteSet(Lowering(k)) /\ IsFiniteSet(Standers(k))
        /\ Cardinality(Raising(k)) \in Nat /\ Cardinality(Lowering(k)) \in Nat /\ Cardinality(Standers(k)) \in Nat
        /\ count[k] \in Nat
    BY TalliesAreFinite DEF EngInv, EngBase, TalliesFinite
  <1>2. (Undisturbed(k) => Surplus(k) = 0) /\ (k \in FollowKeys \ lost => Surplus(k) >= 0)
    BY DEF EngInv, Tallies
  <1>3. Surplus(k) = count[k] + Cardinality(Raising(k)) - Cardinality(Lowering(k)) - Cardinality(Standers(k))
    BY DEF Surplus
  <1>4. Surplus(k)' = count'[k] + Cardinality(Raising(k)') - Cardinality(Lowering(k)') - Cardinality(Standers(k)')
    BY DEF Surplus
  <1>5. CASE k \in lost'  BY <1>5 DEF Tallies, Undisturbed
  <1>6. CASE Unmoved(k)
    <2>1. Surplus(k)' = Surplus(k)  BY <1>3, <1>4, <1>6 DEF Unmoved
    <2> QED BY <1>2, <2>1 DEF Tallies
  <1>7. CASE CountsIn(k, c)
    <2>1. Cardinality(Raising(k)') = Cardinality(Raising(k)) + 1  BY <1>1, <1>7, FS_AddElement DEF CountsIn
    <2>2. Cardinality(Standers(k)') = Cardinality(Standers(k)) + 1  BY <1>1, <1>7, FS_AddElement DEF CountsIn
    <2>3. Lowering(k)' = Lowering(k) /\ count'[k] = count[k]  BY <1>7 DEF CountsIn
    <2>4. Surplus(k)' = Surplus(k)  BY <1>1, <1>3, <1>4, <2>1, <2>2, <2>3
    <2> QED BY <1>2, <2>4 DEF Tallies
  <1>8. CASE CountsOut(k, c)
    <2>1. Cardinality(Lowering(k)') = Cardinality(Lowering(k)) + 1  BY <1>1, <1>8, FS_AddElement DEF CountsOut
    <2>2. Cardinality(Standers(k)') = Cardinality(Standers(k)) - 1
      BY <1>1, <1>8, FS_RemoveElement DEF CountsOut
    <2>3. Raising(k)' = Raising(k) /\ count'[k] = count[k]  BY <1>8 DEF CountsOut
    <2>4. Surplus(k)' = Surplus(k)  BY <1>1, <1>3, <1>4, <2>1, <2>2, <2>3
    <2> QED BY <1>2, <2>4 DEF Tallies
  <1>9. CASE Raised(k, c)
    <2>1. Cardinality(Raising(k)') = Cardinality(Raising(k)) - 1  BY <1>1, <1>9, FS_RemoveElement DEF Raised
    <2>2. Lowering(k)' = Lowering(k) /\ Standers(k)' = Standers(k) /\ count'[k] = count[k] + 1
      BY <1>9 DEF Raised, Shifted
    <2>3. Surplus(k)' = Surplus(k)  BY <1>1, <1>3, <1>4, <2>1, <2>2
    <2> QED BY <1>2, <2>3 DEF Tallies
  <1>10. CASE Lowered(k, c)
    <2>1. Cardinality(Lowering(k)') = Cardinality(Lowering(k)) - 1 /\ Cardinality(Lowering(k)) >= 1
      BY <1>1, <1>10, FS_RemoveElement, FS_EmptySet DEF Lowered
    <2>2. /\ Raising(k)' = Raising(k) /\ Standers(k)' = Standers(k)
          /\ count'[k] = IF count[k] > 0 THEN count[k] - 1 ELSE 0
      BY <1>10 DEF Lowered, Shifted
    <2>3. Surplus(k)' >= Surplus(k) /\ (count[k] > 0 => Surplus(k)' = Surplus(k))
      BY <1>1, <1>3, <1>4, <2>1, <2>2
    <2>4. Undisturbed(k) => count[k] > 0  BY RaisersStand, <1>1, <1>2, <1>3, <2>1 DEF Undisturbed
    <2>5. Surplus(k) \in Int /\ Surplus(k)' \in Int  BY <1>1, <1>3, <1>4, <2>1, <2>2
    <2> QED BY <1>2, <2>3, <2>4, <2>5 DEF Tallies
  <1>11. CASE ~Undisturbed(k)' /\ k \notin FollowKeys  BY <1>11 DEF Tallies
  <1> QED BY <1>5, <1>6, <1>7, <1>8, <1>9, <1>10, <1>11 DEF MovesBy

--------
\* What every step leaves of what there was.
Onward ==
    /\ overlapped \subseteq overlapped' /\ lost \subseteq lost' /\ redeleted \subseteq redeleted'
    /\ \A v \in Clips : video[v] # "none" => video'[v] = video[v]
    /\ \A m \in Remarks : remark[m] # NoRemark => /\ remark'[m] # NoRemark /\ remark'[m].clip = remark[m].clip
                                                   /\ remark'[m].by = remark[m].by
    /\ engFaults' = 0 => engFaults = 0

\* What excuses a counter goes on excusing it.
LEMMA ExcusesStay == EngInv /\ Onward => \A k : Undisturbed(k)' => Undisturbed(k)
  <1> SUFFICES ASSUME EngInv, Onward, NEW k, Undisturbed(k)' PROVE Undisturbed(k)  OBVIOUS
  <1>1. ASSUME NEW m \in redeleted PROVE m \in redeleted' /\ remark'[m].clip = remark[m].clip
    BY DEF EngInv, EngBase, EngTypes, CommentsFit, Onward
  <1>2. (k \notin lost' /\ k \notin overlapped') /\ lost \subseteq lost' /\ overlapped \subseteq overlapped'
    BY DEF Undisturbed, Onward
  <1> QED BY <1>1, <1>2 DEF Undisturbed

\* A request that is about something stays about it.
LEMMA AboutStays ==
    ASSUME EngTypes, CommentsFit, Onward, NEW r \in CallRecs, AboutFits(r)
    PROVE  AboutFits(r)' /\ ClipOf(r)' = ClipOf(r)
  BY DEF Onward, AboutFits, ClipOf

\* A request whose addressee is to be told of it.
Told(r) == /\ r.step = "done" /\ r.sign = 1 /\ r.kind \in {"follows", "likes", "comments"}
           /\ Addressee(r) # r.by
\* What a request has to tell does not change with the steps of others.
LEMMA ToldStays ==
    ASSUME EngTypes, CommentsFit, Onward, NEW r \in CallRecs, AboutFits(r)
    PROVE  Told(r)' <=> Told(r)
  <1>1. CASE r.kind = "follows"  BY <1>1 DEF Told, Addressee
  <1>2. CASE r.kind = "likes"  BY <1>2 DEF AboutFits, Onward, Told, Addressee
  <1>3. CASE r.kind = "comments"
    BY <1>3 DEF AboutFits, Onward, EngTypes, RemarkRecs, CommentsFit, Told, Addressee
  <1> QED BY <1>1, <1>2, <1>3 DEF Told

\* A step of one request.
StepOf(c, w) ==
    /\ w \in CallRecs /\ call' = [call EXCEPT ![c] = w] /\ w.step # "idle"
    /\ AboutFits(w)' /\ StepFits(w) /\ Onward /\ EngTypes' /\ CommentsFit'

\* The records of all requests fit after it.
LEMMA BaseStays ==
    ASSUME EngInv, NEW c \in Calls, NEW w, StepOf(c, w)
    PROVE  EngBase' /\ \A d \in Calls : call'[d] = IF d = c THEN w ELSE call[d]
  <1>1. \A d \in Calls : call'[d] = IF d = c THEN w ELSE call[d]  BY DEF StepOf, EngInv, EngBase, EngTypes
  <1>2. ASSUME NEW d \in Calls PROVE AboutFits(call[d])' /\ StepFits(call'[d])
    <2>1. CASE d = c
      <3>1. call'[d] = w  BY <1>1, <2>1
      <3> QED BY <3>1 DEF StepOf, AboutFits
    <2>2. CASE d # c  BY AboutStays, <1>1, <2>2 DEF EngInv, EngBase, EngTypes, StepOf, AboutFits
    <2> QED BY <2>1, <2>2
  <1> QED BY <1>1, <1>2 DEF StepOf, EngBase

\* Which requests are about to raise or lower a counter, before and after.
LEMMA RaisingIs ==
    ASSUME EngInv, NEW c \in Calls, NEW w, StepOf(c, w), NEW k
    PROVE  /\ Raising(k) \subseteq Calls /\ Raising(k)' \subseteq Calls
           /\ Lowering(k) \subseteq Calls /\ Lowering(k)' \subseteq Calls
           /\ \A d \in Calls : d # c => /\ d \in Raising(k)' <=> d \in Raising(k)
                                        /\ d \in Lowering(k)' <=> d \in Lowering(k)
           /\ c \in Raising(k)' <=> (w.sign = 1 /\ k \in PendingAt(w, ClipOf(w)'))
           /\ c \in Lowering(k)' <=> (w.sign = -1 /\ k \in PendingAt(w, ClipOf(w)'))
           /\ c \in Raising(k) <=> (call[c].sign = 1 /\ k \in PendingAt(call[c], ClipOf(call[c])))
           /\ c \in Lowering(k) <=> (call[c].sign = -1 /\ k \in PendingAt(call[c], ClipOf(call[c])))
  <1>1. PendingAre /\ PendingAre'  BY PendingIs, PendingIsNext, BaseStays DEF EngInv
  <1>2. \A d \in Calls : Pending(d) = PendingAt(call[d], ClipOf(call[d]))  BY <1>1 DEF PendingAre
  <1>3. \A d \in Calls : call'[d] = IF d = c THEN w ELSE call[d]  BY BaseStays
  <1>4. Pending(c)' = PendingAt(w, ClipOf(w)')  BY <1>1, <1>3 DEF PendingAre, ClipOf
  <1>5. ASSUME NEW d \in Calls, d # c PROVE Pending(d)' = Pending(d)
    BY AboutStays, <1>3, <1>5, <1>1, <1>2 DEF EngInv, EngBase, EngTypes, StepOf, PendingAre, ClipOf
  <1>6. \A d \in Calls : /\ d \in Raising(k) <=> (k \in Pending(d) /\ call[d].sign = 1)
                         /\ d \in Lowering(k) <=> (k \in Pending(d) /\ call[d].sign = -1)
    BY DEF Raising, Lowering
  <1>7. \A d \in Calls : /\ d \in Raising(k)' <=> (k \in Pending(d)' /\ call'[d].sign = 1)
                         /\ d \in Lowering(k)' <=> (k \in Pending(d)' /\ call'[d].sign = -1)
    BY DEF Raising, Lowering
  <1>8. /\ Raising(k) \subseteq Calls /\ Raising(k)' \subseteq Calls
        /\ Lowering(k) \subseteq Calls /\ Lowering(k)' \subseteq Calls
    BY DEF Raising, Lowering
  <1> QED BY <1>2, <1>3, <1>4, <1>5, <1>6, <1>7, <1>8

\* Requests on one thing share the same.
LEMMA OneShares ==
    ASSUME NEW r, NEW s, OnOne(r, s)
    PROVE  SharedAt(r, ClipOf(r)) = SharedAt(s, ClipOf(s))
  BY DEF OnOne, SharedAt, KeysAt, ClipOf

\* Whom a request meets.
Meets(c, w) ==
    \A d \in Calls : d # c /\ Running(d) /\ OnOne(call[d], w) => SharedAt(w, ClipOf(w)') \subseteq overlapped'

\* A request that goes on meets only those it has overlapped with already.
LEMMA MeetsOn ==
    ASSUME EngInv, NEW c \in Calls, NEW w, StepOf(c, w), Running(c), OnOne(w, call[c])
    PROVE  Meets(c, w)
  <1> SUFFICES ASSUME NEW d \in Calls, d # c, Running(d), OnOne(call[d], w)
               PROVE  SharedAt(w, ClipOf(w)') \subseteq overlapped'
    BY DEF Meets
  <1>1. OnOne(call[c], call[d])  BY DEF OnOne
  <1>2. SharedAt(call[c], ClipOf(call[c])) \subseteq overlapped
    BY <1>1 DEF EngInv, DeedsAreAlone, Overlapping
  <1>3. PICK r \in CallRecs : r = call[c]  BY DEF EngInv, EngBase, EngTypes
  <1>4. ClipOf(r)' = ClipOf(r)  BY <1>3, AboutStays DEF EngInv, EngBase, StepOf
  <1>5. ClipOf(w)' = ClipOf(r)'  BY <1>3 DEF OnOne, ClipOf
  <1>6. SharedAt(w, ClipOf(w)') = SharedAt(r, ClipOf(r))  BY <1>3, <1>4, <1>5 DEF OnOne, SharedAt, KeysAt
  <1> QED BY <1>2, <1>3, <1>6 DEF StepOf, Onward

\* Two requests on one thing have still overlapped.
LEMMA AloneStays ==
    ASSUME EngInv, NEW c \in Calls, NEW w, StepOf(c, w), Meets(c, w)
    PROVE  DeedsAreAlone'
  <1>1. \A d \in Calls : call'[d] = IF d = c THEN w ELSE call[d]  BY BaseStays
  <1>2. ASSUME NEW d \in Calls, NEW e \in Calls, Running(d)', Running(e)', OnOne(call'[d], call'[e]), d # e
        PROVE  Overlapping(d)'
    <2>1. CASE d # c /\ e # c
      <3>1. Running(d) /\ Running(e) /\ OnOne(call[d], call[e])  BY <1>1, <1>2, <2>1 DEF Running
      <3>2. SharedAt(call[d], ClipOf(call[d])) \subseteq overlapped
        BY <1>2, <3>1 DEF EngInv, DeedsAreAlone, Overlapping
      <3>3. PICK r \in CallRecs : r = call[d]  BY DEF EngInv, EngBase, EngTypes
      <3>4. ClipOf(r)' = ClipOf(r)  BY <3>3, AboutStays DEF EngInv, EngBase, StepOf
      <3>5. call'[d] = r  BY <1>1, <2>1, <3>3
      <3>6. SharedAt(r, ClipOf(r)') \subseteq overlapped'  BY <3>2, <3>3, <3>4 DEF StepOf, Onward
      <3> QED BY <3>5, <3>6 DEF Overlapping, ClipOf
    <2>2. CASE d = c  BY <1>1, <1>2, <2>2 DEF Running, OnOne, Meets, Overlapping, ClipOf
    <2>3. CASE e = c  BY <1>1, <1>2, <2>3 DEF Running, OnOne, Meets, ClipOf, SharedAt, KeysAt, Overlapping
    <2> QED BY <2>1, <2>2, <2>3
  <1> QED BY <1>2 DEF DeedsAreAlone

\* What a step of one request leaves of the rows and comments of the others, and what it has itself.
KeepsRows(c, w) ==
    /\ \A x \in rows : x \in rows' \/ x = <<w.kind, w.by, w.on>>
    /\ \A m \in Remarks : remark[m] # NoRemark /\ ~remark[m].deleted => ~remark'[m].deleted \/ (w.kind = "comments" /\ w.on = m)
    /\ HoldsRow(w)' \/ SharedAt(w, ClipOf(w)') \subseteq overlapped'

\* Rows are still held.
LEMMA HeldStays ==
    ASSUME EngInv, NEW c \in Calls, NEW w, StepOf(c, w), Meets(c, w), KeepsRows(c, w)
    PROVE  RowsAreHeld'
  <1>1. \A d \in Calls : call'[d] = IF d = c THEN w ELSE call[d]  BY BaseStays
  <1>2. HoldsRow(call[c])' \/ Overlapping(c)'  BY <1>1 DEF KeepsRows, HoldsRow, Overlapping, ClipOf
  <1>3. ASSUME NEW d \in Calls, d # c PROVE HoldsRow(call[d])' \/ Overlapping(d)'
    <2>1. PICK r \in CallRecs : r = call[d]  BY DEF EngInv, EngBase, EngTypes
    <2>2. ClipOf(r)' = ClipOf(r) /\ AboutFits(r) /\ AboutFits(r)' /\ StepFits(r)
      BY <2>1, AboutStays DEF EngInv, EngBase, StepOf
    <2>3. call'[d] = r  BY <1>1, <1>3, <2>1
    <2>4. HoldsRow(r) \/ SharedAt(r, ClipOf(r)) \subseteq overlapped
      BY <2>1 DEF EngInv, RowsAreHeld, Overlapping
    <2>5. CASE SharedAt(r, ClipOf(r)) \subseteq overlapped
      BY <2>2, <2>5, <2>3 DEF StepOf, Onward, Overlapping, ClipOf
    <2>6. CASE HoldsRow(r) /\ Running(d) /\ OnOne(r, w)
      BY <1>3, <2>1, <2>6, <2>3 DEF Meets, OnOne, ClipOf, SharedAt, KeysAt, Overlapping
    <2>7. CASE HoldsRow(r) /\ ~Running(d)  BY <2>1, <2>7, <2>3 DEF Running, HoldsRow
    <2>8. CASE HoldsRow(r) /\ ~OnOne(r, w)
      BY <2>8, <2>2, <2>3 DEF OnOne, HoldsRow, KeepsRows, AboutFits, StepOf, Onward
    <2> QED BY <2>4, <2>5, <2>6, <2>7, <2>8
  <1> QED BY <1>2, <1>3 DEF RowsAreHeld

\* Nothing is announced, or what has just been done.
Announces(c, w) ==
    /\ call[c].step # "done"
    /\ engFaults' = 0 => \A x : (\E n \in notices' : n.call = x)
                                   <=> ((\E n \in notices : n.call = x) \/ (x = c /\ Told(w)'))

\* Who was told, one request at a time.
LEMMA AnnouncedIs ==
    EveryDeedIsAnnounced <=>
        (engFaults = 0 => \A x : (\E n \in notices : n.call = x) <=> (x \in Calls /\ Told(call[x])))
  BY DEF EveryDeedIsAnnounced, Told

\* The same after a step.
LEMMA AnnouncedIsNext ==
    EveryDeedIsAnnounced' <=>
        (engFaults = 0 => \A x : (\E n \in notices : n.call = x) <=> (x \in Calls /\ Told(call[x])))'
  BY AnnouncedIs, PTL

\* Whoever had to be told is.
LEMMA AnnouncedStays ==
    ASSUME EngInv, NEW c \in Calls, NEW w, StepOf(c, w), Announces(c, w)
    PROVE  EveryDeedIsAnnounced'
  <1> SUFFICES ASSUME engFaults' = 0, NEW x
               PROVE  (\E n \in notices' : n.call = x) <=> (x \in Calls /\ Told(call[x])')
    BY AnnouncedIsNext
  <1>1. \A d \in Calls : call'[d] = IF d = c THEN w ELSE call[d]  BY BaseStays
  <1>2. (\E n \in notices : n.call = x) <=> (x \in Calls /\ Told(call[x]))
    BY AnnouncedIs DEF EngInv, StepOf, Onward
  <1>3. (\E n \in notices' : n.call = x) <=> ((\E n \in notices : n.call = x) \/ (x = c /\ Told(w)'))
    BY DEF Announces
  <1>4. CASE x = c  BY <1>1, <1>4, <1>2, <1>3 DEF Told, Announces, Addressee
  <1>5. CASE x # c /\ x \in Calls
    BY <1>5, ToldStays, <1>1, <1>2, <1>3 DEF EngInv, EngBase, EngTypes, StepOf, Told, Addressee
  <1>6. CASE x \notin Calls  BY <1>2, <1>3, <1>6
  <1> QED BY <1>4, <1>5, <1>6

\* So a step of one request keeps the invariant.
StepFitsIn(c, w) ==
    StepOf(c, w) /\ Meets(c, w) /\ KeepsRows(c, w) /\ Announces(c, w) /\ \A k \in SummaryKeys : MovesBy(k, c)

LEMMA StepKeeps == ASSUME EngInv, NEW c \in Calls, NEW w, StepFitsIn(c, w) PROVE EngInv'
  <1>1. EngBase'  BY BaseStays DEF StepFitsIn
  <1>2. DeedsAreAlone'  BY AloneStays DEF StepFitsIn
  <1>3. RowsAreHeld'  BY HeldStays DEF StepFitsIn
  <1>4. EveryDeedIsAnnounced'  BY AnnouncedStays DEF StepFitsIn
  <1>5. ASSUME NEW k \in SummaryKeys PROVE Tallies(k)'
    BY ExcusesStay, TalliesStay DEF StepFitsIn, StepOf, Onward
  <1> QED BY <1>1, <1>2, <1>3, <1>4, <1>5 DEF EngInv

--------
\* The row that stands for x in a counter of rows.
RowFor(k, x) ==
    CASE k[1] = "followers" -> <<"follows", x, k[2]>>
      [] k[1] = "following" -> <<"follows", k[2], x>>
      [] k[1] = "likes" -> <<"likes", x, k[2]>>
      [] OTHER -> <<"comment_likes", x, k[2]>>

\* Who is counted by a counter of rows is who has the row for it.
LEMMA StandersAre ==
    ASSUME NEW k \in SummaryKeys, k[1] # "comments"
    PROVE  \A x : x \in Standers(k) <=> x \in People \cup Remarks /\ RowFor(k, x) \in rows
  <1>1. CASE k[1] = "followers"  BY <1>1 DEF Standers, RowFor
  <1>2. CASE k[1] = "following"  BY <1>2 DEF Standers, RowFor
  <1>3. CASE k[1] = "likes"  BY <1>3 DEF Standers, RowFor
  <1>4. CASE k[1] = "like_count"  BY <1>4 DEF Standers, RowFor
  <1> QED BY <1>1, <1>2, <1>3, <1>4, SummaryIs

\* A counter of rows has a row of a request exactly if the request has the counter.
LEMMA RowIsFor ==
    ASSUME NEW r \in CallRecs, AboutFits(r), r.step # "idle", NEW v, NEW k \in SummaryKeys, k[1] # "comments",
           r.kind \in {"follows", "likes", "comment_likes", "bookmarks"}
    PROVE  /\ \A x : RowFor(k, x) = <<r.kind, r.by, r.on>> <=> k \in KeysAt(r, v) /\ x = Place(r, k)
           /\ k \in KeysAt(r, v) => Place(r, k) \in People \cup Remarks
  <1>0. k \in CounterKeys /\ k = <<k[1], k[2]>>  BY SummaryIs
  <1>1. k \in KeysAt(r, v) <=> \/ r.kind = "follows" /\ k[1] = "followers" /\ k[2] = r.on
                               \/ r.kind = "follows" /\ k[1] = "following" /\ k[2] = r.by
                               \/ r.kind = "likes" /\ k[1] = "likes" /\ k[2] = r.on
                               \/ r.kind = "comment_likes" /\ k[1] = "like_count" /\ k[2] = r.on
    BY <1>0 DEF KeysAt
  <1>2. r.by \in People /\ (r.kind = "follows" => r.on \in People)  BY DEF AboutFits
  <1>9. \A a, b, d, e, f, g : <<a, b, d>> = <<e, f, g>> <=> a = e /\ b = f /\ d = g  OBVIOUS
  <1>3. CASE k[1] = "followers"  BY <1>3, <1>9, <1>1, <1>2 DEF RowFor, Place
  <1>4. CASE k[1] = "following"  BY <1>4, <1>9, <1>1, <1>2 DEF RowFor, Place
  <1>5. CASE k[1] = "likes"  BY <1>5, <1>9, <1>1, <1>2 DEF RowFor, Place
  <1>6. CASE k[1] = "like_count"  BY <1>6, <1>9, <1>1, <1>2 DEF RowFor, Place
  <1> QED BY <1>3, <1>4, <1>5, <1>6, SummaryIs

\* What a counter counts, when a row comes or goes.
LEMMA StandersMove ==
    ASSUME NEW r \in CallRecs, AboutFits(r), r.step # "idle", NEW v, NEW k \in SummaryKeys,
           r.kind \in {"follows", "likes", "comment_likes", "bookmarks"}, remark' = remark
    PROVE  /\ k \notin KeysAt(r, v) /\ rows' \in {rows, rows \cup {<<r.kind, r.by, r.on>>}, rows \ {<<r.kind, r.by, r.on>>}}
                => Standers(k)' = Standers(k)
           /\ k \in KeysAt(r, v) /\ rows' = rows \cup {<<r.kind, r.by, r.on>>} /\ <<r.kind, r.by, r.on>> \notin rows
                => \E x : x \notin Standers(k) /\ Standers(k)' = Standers(k) \cup {x}
           /\ k \in KeysAt(r, v) /\ rows' = rows \ {<<r.kind, r.by, r.on>>} /\ <<r.kind, r.by, r.on>> \in rows
                => \E x : x \in Standers(k) /\ Standers(k)' = Standers(k) \ {x}
  <1>1. CASE k[1] = "comments"  BY <1>1 DEF Standers, KeysAt
  <1>2. CASE k[1] # "comments"
    <2>1. \A x : x \in Standers(k) <=> x \in People \cup Remarks /\ RowFor(k, x) \in rows
      BY <1>2, StandersAre
    <2>2. \A x : x \in Standers(k)' <=> x \in People \cup Remarks /\ RowFor(k, x) \in rows'
      BY <1>2, SummaryIs DEF Standers, RowFor
    <2>3. /\ \A x : RowFor(k, x) = <<r.kind, r.by, r.on>> <=> k \in KeysAt(r, v) /\ x = Place(r, k)
          /\ k \in KeysAt(r, v) => Place(r, k) \in People \cup Remarks
      BY <1>2, RowIsFor
    <2> DEFINE row == <<r.kind, r.by, r.on>>
               one == Place(r, k)
    <2> HIDE DEF row, one
    <2>4. \A x : RowFor(k, x) = row <=> k \in KeysAt(r, v) /\ x = one  BY <2>3 DEF row, one
    <2>5. k \notin KeysAt(r, v) /\ rows' \in {rows, rows \cup {row}, rows \ {row}} => Standers(k)' = Standers(k)
      BY <2>1, <2>2, <2>4
    <2>6. k \in KeysAt(r, v) /\ rows' = rows \cup {row} /\ row \notin rows
            => one \notin Standers(k) /\ Standers(k)' = Standers(k) \cup {one}
      BY <2>1, <2>2, <2>3, <2>4 DEF one
    <2>7. k \in KeysAt(r, v) /\ rows' = rows \ {row} /\ row \in rows
            => one \in Standers(k) /\ Standers(k)' = Standers(k) \ {one}
      BY <2>1, <2>2, <2>3, <2>4 DEF one
    <2> QED BY <2>5, <2>6, <2>7 DEF row
  <1> QED BY <1>1, <1>2

\* A request's row comes, or goes, and the request is about to count it.
LEMMA RowMoves ==
    ASSUME EngInv, NEW c \in Calls, NEW w, StepOf(c, w), AboutFits(w), call[c].step # "count",
           w.kind \in {"follows", "likes", "comment_likes", "bookmarks"}, w.counted = 0,
           w.kind # "bookmarks" => w.step = "count", remark' = remark, count' = count,
           \/ w.sign = 1 /\ <<w.kind, w.by, w.on>> \notin rows /\ rows' = rows \cup {<<w.kind, w.by, w.on>>}
           \/ /\ w.sign = -1 /\ rows' = rows \ {<<w.kind, w.by, w.on>>}
              /\ \/ <<w.kind, w.by, w.on>> \in rows
                 \/ w.kind # "follows" /\ SharedAt(w, ClipOf(w)') \subseteq overlapped'
    PROVE  \A k \in SummaryKeys : MovesBy(k, c)
  <1> SUFFICES ASSUME NEW k \in SummaryKeys PROVE MovesBy(k, c)  OBVIOUS
  <1> DEFINE v == ClipOf(w)
  <1>1. /\ Raising(k) \subseteq Calls /\ Raising(k)' \subseteq Calls
        /\ Lowering(k) \subseteq Calls /\ Lowering(k)' \subseteq Calls
        /\ \A d \in Calls : d # c => /\ d \in Raising(k)' <=> d \in Raising(k)
                                     /\ d \in Lowering(k)' <=> d \in Lowering(k)
        /\ c \in Raising(k)' <=> (w.sign = 1 /\ k \in PendingAt(w, v'))
        /\ c \in Lowering(k)' <=> (w.sign = -1 /\ k \in PendingAt(w, v'))
        /\ c \notin Raising(k) /\ c \notin Lowering(k)
    BY RaisingIs DEF PendingAt
  <1>2. v' = v /\ w \in CallRecs /\ w.step # "idle"
    <2>1. ClipOf(w)' = ClipOf(w)  BY DEF ClipOf
    <2> QED BY <2>1 DEF StepOf
  <1>3. k \in PendingAt(w, v) <=> k \in KeysAt(w, v)  BY DEF PendingAt, KeysAt
  <1> HIDE DEF v
  <1>4. CASE k \notin KeysAt(w, v)
    <2>1. Standers(k)' = Standers(k)  BY <1>2, <1>4, StandersMove
    <2>2. Raising(k)' = Raising(k) /\ Lowering(k)' = Lowering(k)  BY <1>1, <1>2, <1>3, <1>4
    <2> QED BY <2>1, <2>2 DEF MovesBy, Unmoved
  <1>5. CASE k \in KeysAt(w, v) /\ w.sign = 1  BY <1>2, <1>5, StandersMove, <1>1, <1>3 DEF MovesBy, CountsIn
  <1>6. CASE k \in KeysAt(w, v) /\ w.sign = -1 /\ <<w.kind, w.by, w.on>> \in rows
    <2>1. \E x : x \in Standers(k) /\ Standers(k)' = Standers(k) \ {x}  BY <1>2, <1>6, StandersMove
    <2>2. w.sign # 1 /\ k \in PendingAt(w, v')  BY <1>2, <1>3, <1>6
    <2>3. c \in Lowering(k)' /\ c \notin Raising(k)'  BY <1>1, <1>6, <2>2
    <2>4. Lowering(k)' = Lowering(k) \cup {c} /\ Raising(k)' = Raising(k)  BY <1>1, <2>3
    <2> QED BY <1>1, <2>1, <2>4 DEF MovesBy, CountsOut
  <1>7. CASE k \in KeysAt(w, v) /\ w.kind # "follows" /\ SharedAt(w, v') \subseteq overlapped'
    BY <1>2, <1>7 DEF SharedAt, KeysAt, FollowKeys, MovesBy, Undisturbed
  <1> QED BY <1>4, <1>5, <1>6, <1>7 DEF v

\* Nothing moves while rows, comments and counters stay and nobody comes or goes that counts.
LEMMA NothingMoves ==
    ASSUME EngInv, NEW c \in Calls, NEW w, StepOf(c, w), call[c].step # "count" \/ call[c].kind = "views",
           w.step # "count" \/ w.kind = "views", UNCHANGED <<rows, remark>>,
           \A k \in SummaryKeys : count'[k] = count[k]
    PROVE  \A k \in SummaryKeys : MovesBy(k, c)
  <1> SUFFICES ASSUME NEW k \in SummaryKeys PROVE MovesBy(k, c)  OBVIOUS
  <1>1. /\ k \notin PendingAt(w, ClipOf(w)') /\ k \notin PendingAt(call[c], ClipOf(call[c]))
    BY DEF PendingAt, KeysAt, SummaryKeys
  <1>2. Raising(k)' = Raising(k) /\ Lowering(k)' = Lowering(k)
    <2>1. /\ Raising(k) \subseteq Calls /\ Raising(k)' \subseteq Calls
          /\ Lowering(k) \subseteq Calls /\ Lowering(k)' \subseteq Calls
          /\ \A d \in Calls : d # c => /\ d \in Raising(k)' <=> d \in Raising(k)
                                       /\ d \in Lowering(k)' <=> d \in Lowering(k)
          /\ c \notin Raising(k)' /\ c \notin Lowering(k)' /\ c \notin Raising(k) /\ c \notin Lowering(k)
      BY <1>1, RaisingIs
    <2> QED BY <2>1
  <1>3. Standers(k)' = Standers(k)  BY DEF Standers
  <1> QED BY <1>2, <1>3 DEF MovesBy, Unmoved

--------
\* The record a request begins with.
LEMMA RequestIs ==
    ASSUME NEW kind \in EngKinds, NEW u \in People, NEW x \in People \cup Clips \cup Remarks, NEW step \in EngSteps,
           NEW sign \in {1, -1}
    PROVE  /\ Request(kind, u, x, step, sign) \in CallRecs
           /\ Request(kind, u, x, step, sign).kind = kind /\ Request(kind, u, x, step, sign).by = u
           /\ Request(kind, u, x, step, sign).on = x /\ Request(kind, u, x, step, sign).step = step
           /\ Request(kind, u, x, step, sign).sign = sign /\ Request(kind, u, x, step, sign).counted = 0
  <1>1. IdleCall \in CallRecs /\ IdleCall.counted = 0  BY DEF IdleCall, CallRecs, EngSteps, EngKinds
  <1> DEFINE r == [IdleCall EXCEPT !.step = step, !.kind = kind, !.by = u, !.on = x, !.sign = sign]
  <1>2. r \in CallRecs  BY <1>1 DEF CallRecs
  <1>3. r.kind = kind /\ r.by = u /\ r.on = x /\ r.step = step /\ r.sign = sign /\ r.counted = 0
    BY <1>1 DEF CallRecs
  <1>4. Request(kind, u, x, step, sign) = r  BY DEF Request
  <1> HIDE DEF r
  <1> QED BY <1>2, <1>3, <1>4

\* What a request shares is shared by name.
LEMMA SharedIs ==
    ASSUME EngTypes, NEW r \in CallRecs, AboutFits(r), r.step # "idle", r.kind # "videos"
    PROVE  SharedAt(r, ClipOf(r)) \subseteq SharedKeys
  <1>1. <<r.kind, r.on>> \in SharedKeys  BY DEF AboutFits, SharedKeys, CounterKeys, CallRecs, EngKinds
  <1>2. KeysAt(r, ClipOf(r)) \subseteq SharedKeys  BY DEF KeysAt, SharedKeys
  <1> QED BY <1>1, <1>2 DEF SharedAt

\* How a request starts.
LEMMA StartIs ==
    ASSUME EngInv, NEW c \in Calls, NEW r \in CallRecs, AboutFits(r), r.step # "idle", Starts(c, r)
    PROVE  /\ call[c].step = "idle" /\ call' = [call EXCEPT ![c] = r]
           /\ overlapped \subseteq overlapped' /\ overlapped' \subseteq SharedKeys
           /\ \A d \in Calls : Running(d) /\ OnOne(call[d], r) => SharedAt(r, ClipOf(r)) \subseteq overlapped'
  <1>1. KeysOf(r) = SharedAt(r, ClipOf(r))  BY KeysAre DEF EngInv, EngBase
  <1>2. call[c].step = "idle" /\ call' = [call EXCEPT ![c] = r]  BY DEF Starts
  <1>3. CASE \E d \in Calls : Running(d) /\ OnOne(call[d], r)
    <2>1. PICK d \in Calls : Running(d) /\ OnOne(call[d], r)  BY <1>3
    <2>2. overlapped' = overlapped \cup KeysOf(r)  BY <2>1 DEF Starts, Running, OnOne
    <2>3. r.kind # "videos"
      BY <2>1 DEF Running, OnOne, EngInv, EngBase, StepFits, EngTypes, CallRecs, EngSteps
    <2>4. SharedAt(r, ClipOf(r)) \subseteq SharedKeys  BY <2>3, SharedIs DEF EngInv, EngBase
    <2> QED BY <1>1, <1>2, <2>2, <2>4 DEF EngInv, EngBase, EngTypes
  <1>4. CASE ~\E d \in Calls : Running(d) /\ OnOne(call[d], r)
    BY <1>4, <1>2 DEF Starts, Running, OnOne, EngInv, EngBase, EngTypes
  <1> QED BY <1>3, <1>4

\* A request that starts and leaves the comments: what is left to show is what becomes of the rows.
LEMMA StartFits ==
    ASSUME EngInv, NEW c \in Calls, NEW r \in CallRecs, AboutFits(r), StepFits(r), r.step # "idle", Starts(c, r),
           UNCHANGED <<video, remark, count, notices, engFaults, lost, redeleted>>, rows' \subseteq Rows,
           r.step = "done" => r.kind \notin {"follows", "likes", "comments"}
    PROVE  StepOf(c, r) /\ Meets(c, r) /\ Announces(c, r) /\ call[c].step = "idle"
  <1>1. /\ call[c].step = "idle" /\ call' = [call EXCEPT ![c] = r]
        /\ overlapped \subseteq overlapped' /\ overlapped' \subseteq SharedKeys
        /\ \A d \in Calls : Running(d) /\ OnOne(call[d], r) => SharedAt(r, ClipOf(r)) \subseteq overlapped'
    BY StartIs
  <1>2. EngTypes'  BY <1>1 DEF EngInv, EngBase, EngTypes
  <1>3. Onward  BY <1>1 DEF Onward
  <1>4. AboutFits(r)' /\ CommentsFit' /\ ClipOf(r)' = ClipOf(r)
    BY DEF AboutFits, CommentsFit, ClipOf, EngInv, EngBase
  <1>5. StepOf(c, r)  BY <1>1, <1>2, <1>3, <1>4 DEF StepOf
  <1>6. Meets(c, r)  BY <1>1, <1>4 DEF Meets
  <1>7. ~Told(r)'  BY DEF Told
  <1>8. Announces(c, r)  BY <1>1, <1>7 DEF Announces
  <1> QED BY <1>1, <1>5, <1>6, <1>8

\* A request that starts by inserting its row, or by deleting it.
LEMMA RowStarts ==
    ASSUME EngInv, NEW c \in Calls, NEW r \in CallRecs, AboutFits(r), StepFits(r), Starts(c, r), r.counted = 0,
           r.kind \in {"follows", "likes", "comment_likes", "bookmarks"},
           r.step = (IF r.kind = "bookmarks" THEN "done" ELSE "count"),
           UNCHANGED <<video, remark, count, notices, engFaults, lost, redeleted>>, <<r.kind, r.by, r.on>> \in Rows,
           \/ r.sign = 1 /\ <<r.kind, r.by, r.on>> \notin rows /\ rows' = rows \cup {<<r.kind, r.by, r.on>>}
           \/ r.sign = -1 /\ <<r.kind, r.by, r.on>> \in rows /\ rows' = rows \ {<<r.kind, r.by, r.on>>}
    PROVE  EngInv'
  <1>1. rows' \subseteq Rows  BY DEF EngInv, EngBase, EngTypes
  <1>2. StepOf(c, r) /\ Meets(c, r) /\ Announces(c, r) /\ call[c].step = "idle"  BY <1>1, StartFits
  <1>3. KeepsRows(c, r)  BY DEF HoldsRow, KeepsRows
  <1>4. \A k \in SummaryKeys : MovesBy(k, c)  BY <1>2, RowMoves
  <1> QED BY <1>2, <1>3, <1>4, StepKeeps DEF StepFitsIn

\* A request that starts and only looks.
LEMMA QuietStarts ==
    ASSUME EngInv, NEW c \in Calls, NEW r \in CallRecs, AboutFits(r), StepFits(r), Starts(c, r), r.step # "idle",
           r.step = "count" => r.kind = "views", r.step = "remove" => <<r.kind, r.by, r.on>> \in rows,
           r.step = "done" => r.kind \notin {"follows", "likes", "comments"},
           UNCHANGED <<tables, engFaults, lost, redeleted>>
    PROVE  EngInv'
  <1>1. UNCHANGED <<video, remark, rows, count, notices, engFaults, lost, redeleted>>  BY DEF tables
  <1>2. StepOf(c, r) /\ Meets(c, r) /\ Announces(c, r) /\ call[c].step = "idle"
    BY <1>1, StartFits DEF EngInv, EngBase, EngTypes
  <1>3. KeepsRows(c, r)
    <2>1. HoldsRow(r)'  BY <1>1 DEF HoldsRow
    <2> QED BY <1>1, <2>1 DEF KeepsRows
  <1>4. \A k \in SummaryKeys : MovesBy(k, c)  BY <1>1, <1>2, NothingMoves
  <1> QED BY <1>2, <1>3, <1>4, StepKeeps DEF StepFitsIn

\* Follows.
LEMMA FollowsKeep ==
    ASSUME EngInv, NEW c \in Calls, NEW u \in People, NEW t \in People, FollowUser(c, u, t) \/ UnfollowUser(c, u, t)
    PROVE  EngInv'
  <1>1. CASE FollowUser(c, u, t)
    <2> DEFINE r == Request("follows", u, t, "count", 1)
    <2>1. /\ r \in CallRecs /\ r.kind = "follows" /\ r.by = u /\ r.on = t /\ r.step = "count" /\ r.sign = 1 /\ r.counted = 0
      BY RequestIs DEF EngKinds, EngSteps
    <2>2. /\ Starts(c, r) /\ <<"follows", u, t>> \notin rows /\ rows' = rows \cup {<<"follows", u, t>>}
          /\ UNCHANGED <<video, remark, count, notices, engFaults, lost, redeleted>>
      BY <1>1 DEF FollowUser
    <2> HIDE DEF r
    <2>3. AboutFits(r) /\ StepFits(r) /\ <<"follows", u, t>> \in Rows  BY <2>1 DEF AboutFits, StepFits, Rows
    <2> QED BY <2>1, <2>2, <2>3, RowStarts
  <1>2. CASE UnfollowUser(c, u, t)
    <2> DEFINE r == Request("follows", u, t, "count", -1)
    <2>1. /\ r \in CallRecs /\ r.kind = "follows" /\ r.by = u /\ r.on = t /\ r.step = "count" /\ r.sign = -1 /\ r.counted = 0
      BY RequestIs DEF EngKinds, EngSteps
    <2>2. /\ Starts(c, r) /\ <<"follows", u, t>> \in rows /\ rows' = rows \ {<<"follows", u, t>>}
          /\ UNCHANGED <<video, remark, count, notices, engFaults, lost, redeleted>>
      BY <1>2 DEF UnfollowUser
    <2> HIDE DEF r
    <2>3. AboutFits(r) /\ StepFits(r) /\ <<"follows", u, t>> \in Rows  BY <2>1 DEF AboutFits, StepFits, Rows
    <2> QED BY <2>1, <2>2, <2>3, RowStarts
  <1> QED BY <1>1, <1>2

\* Likes of videos and of comments, bookmarks.
LEMMA ToggleKeeps ==
    ASSUME EngInv, NEW c \in Calls, NEW table \in {"likes", "comment_likes", "bookmarks"}, NEW u \in People,
           NEW x \in Clips \cup Remarks,
           table \in {"likes", "bookmarks"} => x \in Clips /\ video[x] # "none",
           table = "comment_likes" => x \in Remarks /\ remark[x] # NoRemark, Toggle(c, table, u, x)
    PROVE  EngInv'
  <1>1. <<table, u, x>> \in Rows  BY DEF Rows
  <1>2. CASE <<table, u, x>> \in rows
    <2> DEFINE r == Request(table, u, x, "remove", -1)
    <2>1. /\ r \in CallRecs /\ r.kind = table /\ r.by = u /\ r.on = x /\ r.step = "remove" /\ r.sign = -1 /\ r.counted = 0
      BY RequestIs DEF EngKinds, EngSteps
    <2>2. Starts(c, r) /\ UNCHANGED <<tables, engFaults, lost, redeleted>>  BY <1>2 DEF Toggle, tables
    <2> HIDE DEF r
    <2>3. AboutFits(r) /\ StepFits(r)  BY <2>1 DEF AboutFits, StepFits
    <2> QED BY <1>2, <2>1, <2>2, <2>3, QuietStarts
  <1>3. CASE <<table, u, x>> \notin rows
    <2> DEFINE step == IF table = "bookmarks" THEN "done" ELSE "count"
    <2>0. step \in EngSteps  BY DEF EngSteps
    <2> DEFINE r == Request(table, u, x, step, 1)
    <2>1. /\ r \in CallRecs /\ r.kind = table /\ r.by = u /\ r.on = x /\ r.step = step /\ r.sign = 1 /\ r.counted = 0
      <3> HIDE DEF step
      <3> QED BY <2>0, RequestIs DEF EngKinds
    <2>2. /\ Starts(c, r) /\ rows' = rows \cup {<<table, u, x>>}
          /\ UNCHANGED <<video, remark, count, notices, engFaults, lost, redeleted>>
      BY <1>3 DEF Toggle
    <2> HIDE DEF r
    <2>3. AboutFits(r) /\ StepFits(r)  BY <2>1 DEF AboutFits, StepFits
    <2>4. r.step = (IF r.kind = "bookmarks" THEN "done" ELSE "count")  BY <2>1
    <2> QED BY <1>1, <1>3, <2>1, <2>2, <2>3, <2>4, RowStarts
  <1> QED BY <1>2, <1>3

\* So each of the three keeps the invariant.
LEMMA TogglesKeep ==
    ASSUME EngInv, NEW c \in Calls, NEW u \in People,
           \/ \E v \in Clips : LikeVideo(c, u, v) \/ ToggleBookmark(c, u, v)
           \/ \E m \in Remarks : LikeComment(c, u, m)
    PROVE  EngInv'
  <1>1. ASSUME NEW v \in Clips, LikeVideo(c, u, v) PROVE EngInv'  BY <1>1, ToggleKeeps DEF LikeVideo
  <1>2. ASSUME NEW v \in Clips, ToggleBookmark(c, u, v) PROVE EngInv'  BY <1>2, ToggleKeeps DEF ToggleBookmark
  <1>3. ASSUME NEW m \in Remarks, LikeComment(c, u, m) PROVE EngInv'  BY <1>3, ToggleKeeps DEF LikeComment
  <1> QED BY <1>1, <1>2, <1>3

\* Requests that begin by looking only.
LEMMA LooksKeep ==
    ASSUME EngInv, NEW c \in Calls, NEW u \in People,
           \/ \E v \in Clips : ViewVideo(c, u, v)
           \/ \E m \in Remarks : DeleteComment(c, u, m) \/ PinComment(c, u, m)
    PROVE  EngInv'
  <1>1. ASSUME NEW v \in Clips, ViewVideo(c, u, v) PROVE EngInv'
    <2> DEFINE r == Request("views", u, v, "count", 1)
    <2>1. /\ r \in CallRecs /\ r.kind = "views" /\ r.by = u /\ r.on = v /\ r.step = "count" /\ r.sign = 1 /\ r.counted = 0
      BY RequestIs DEF EngKinds, EngSteps
    <2>2. Starts(c, r) /\ video[v] # "none" /\ UNCHANGED <<tables, engFaults, lost, redeleted>>
      BY <1>1 DEF ViewVideo
    <2> HIDE DEF r
    <2>3. AboutFits(r) /\ StepFits(r)  BY <2>1, <2>2 DEF AboutFits, StepFits
    <2> QED BY <2>1, <2>2, <2>3, QuietStarts
  <1>2. ASSUME NEW m \in Remarks, DeleteComment(c, u, m) PROVE EngInv'
    <2> DEFINE r == Request("comments", u, m, "delete", -1)
    <2>1. /\ r \in CallRecs /\ r.kind = "comments" /\ r.by = u /\ r.on = m /\ r.step = "delete" /\ r.sign = -1 /\ r.counted = 0
      BY RequestIs DEF EngKinds, EngSteps
    <2>2. Starts(c, r) /\ remark[m].by = u /\ UNCHANGED <<tables, engFaults, lost, redeleted>>
      BY <1>2 DEF DeleteComment
    <2>3. remark[m] # NoRemark  BY <2>2, EngagementAssumption DEF NoRemark
    <2> HIDE DEF r
    <2>4. AboutFits(r) /\ StepFits(r)  BY <2>1, <2>2, <2>3 DEF AboutFits, StepFits
    <2> QED BY <2>1, <2>2, <2>4, QuietStarts
  <1>3. ASSUME NEW m \in Remarks, PinComment(c, u, m) PROVE EngInv'
    <2> DEFINE q == Request("pins", u, m, "pin", 1)
               r == [q EXCEPT !.flag = remark[m].pinned]
    <2>1. /\ q \in CallRecs /\ q.kind = "pins" /\ q.by = u /\ q.on = m /\ q.step = "pin" /\ q.sign = 1 /\ q.counted = 0
      BY RequestIs DEF EngKinds, EngSteps
    <2>2. Starts(c, r) /\ remark[m] # NoRemark /\ UNCHANGED <<tables, engFaults, lost, redeleted>>
      BY <1>3 DEF PinComment
    <2>3. remark[m].pinned \in BOOLEAN  BY <2>2, Zenon DEF EngInv, EngBase, EngTypes, NoRemark, RemarkRecs
    <2> HIDE DEF q
    <2>4. r \in CallRecs /\ r.kind = "pins" /\ r.by = u /\ r.on = m /\ r.step = "pin"
      BY <2>1, <2>3 DEF CallRecs
    <2>5. PICK s : s = r  OBVIOUS
    <2> HIDE DEF r
    <2>6. s \in CallRecs /\ s.kind = "pins" /\ s.by = u /\ s.on = m /\ s.step = "pin" /\ Starts(c, s)
      BY <2>2, <2>4, <2>5
    <2>7. AboutFits(s) /\ StepFits(s)  BY <2>2, <2>6 DEF AboutFits, StepFits
    <2> QED BY <2>2, <2>6, <2>7, QuietStarts
  <1> QED BY <1>1, <1>2, <1>3

\* A video is put up.
LEMMA UploadKeeps ==
    ASSUME EngInv, NEW c \in Calls, NEW u \in People, NEW v \in Clips, UploadVideo(c, u, v)
    PROVE  EngInv'
  <1> DEFINE r == Request("videos", u, v, "done", 1)
  <1>1. /\ r \in CallRecs /\ r.kind = "videos" /\ r.by = u /\ r.on = v /\ r.step = "done" /\ r.sign = 1 /\ r.counted = 0
    BY RequestIs DEF EngKinds, EngSteps
  <1>2. /\ Starts(c, r) /\ video[v] = "none" /\ video' = [video EXCEPT ![v] = u]
        /\ UNCHANGED <<remark, rows, count, notices, engFaults, lost, redeleted>>
    BY DEF UploadVideo
  <1> HIDE DEF r
  <1>3. u # "none" /\ video'[v] = u /\ \A y \in Clips : y # v => video'[y] = video[y]
    BY <1>2, EngagementAssumption DEF EngInv, EngBase, EngTypes
  <1>4. \A d \in Calls : ~(Running(d) /\ OnOne(call[d], r))
    BY <1>1 DEF Running, OnOne, EngInv, EngBase, StepFits, EngTypes, CallRecs, EngSteps
  <1>5. call[c].step = "idle" /\ call' = [call EXCEPT ![c] = r] /\ overlapped' = overlapped
    BY <1>2, <1>4 DEF Starts, Running, OnOne
  <1>6. EngTypes'  BY <1>1, <1>2, <1>5 DEF EngInv, EngBase, EngTypes
  <1>7. Onward  BY <1>2, <1>3, <1>5 DEF Onward
  <1>8. AboutFits(r)' /\ StepFits(r)  BY <1>1, <1>3 DEF AboutFits, StepFits
  <1>9. CommentsFit'
    BY <1>3, <1>2, EngagementAssumption DEF CommentsFit, EngInv, EngBase, EngTypes, NoRemark, RemarkRecs
  <1>10. StepOf(c, r)  BY <1>1, <1>5, <1>6, <1>7, <1>8, <1>9 DEF StepOf
  <1>11. Meets(c, r)  BY <1>4 DEF Meets
  <1>12. Announces(c, r)
    <2>1. ~Told(r)'  BY <1>1 DEF Told
    <2> QED BY <1>2, <1>5, <2>1 DEF Announces
  <1>13. KeepsRows(c, r)
    <2>1. HoldsRow(r)'  BY <1>1 DEF HoldsRow
    <2> QED BY <1>2, <2>1 DEF KeepsRows
  <1>14. \A k \in SummaryKeys : MovesBy(k, c)  BY <1>1, <1>2, <1>5, <1>10, NothingMoves
  <1> QED BY <1>10, <1>11, <1>12, <1>13, <1>14, StepKeeps DEF StepFitsIn

--------
\* What a counter of comments counts, when one comes or goes; the others do not see it.
LEMMA CommentersMove ==
    ASSUME EngTypes, NEW m \in Remarks, NEW k \in SummaryKeys, remark' \in [Remarks -> {NoRemark} \cup RemarkRecs],
           UNCHANGED rows, \A n \in Remarks : n # m => remark'[n] = remark[n]
    PROVE  /\ k[1] # "comments" => Standers(k)' = Standers(k)
           /\ k[1] = "comments" =>
                 /\ \A x : x # m => (x \in Standers(k)' <=> x \in Standers(k))
                 /\ m \in Standers(k) <=> (remark[m].clip = k[2] /\ ~remark[m].deleted)
                 /\ m \in Standers(k)' <=> (remark'[m].clip = k[2] /\ ~remark'[m].deleted)
  <1>1. CASE k[1] # "comments"  BY <1>1 DEF Standers
  <1>2. CASE k[1] = "comments"  BY <1>2 DEF Standers
  <1> QED BY <1>1, <1>2

\* Somebody comments.
LEMMA PostKeeps ==
    ASSUME EngInv, NEW c \in Calls, NEW u \in People, NEW v \in Clips, NEW m \in Remarks, PostComment(c, u, v, m)
    PROVE  EngInv'
  <1> DEFINE r == Request("comments", u, m, "count", 1)
             new == [NoRemark EXCEPT !.by = u, !.clip = v]
  <1>1. /\ r \in CallRecs /\ r.kind = "comments" /\ r.by = u /\ r.on = m /\ r.step = "count" /\ r.sign = 1 /\ r.counted = 0
    BY RequestIs DEF EngKinds, EngSteps
  <1>2. new \in RemarkRecs /\ new.by = u /\ new.clip = v /\ new.deleted = FALSE  BY DEF NoRemark, RemarkRecs
  <1>3. /\ Starts(c, r) /\ video[v] # "none" /\ remark[m] = NoRemark /\ remark' = [remark EXCEPT ![m] = new]
        /\ UNCHANGED <<video, rows, count, notices, engFaults, lost, redeleted>>
    BY DEF PostComment
  <1> HIDE DEF r, new
  <1>4. /\ remark'[m] = new /\ (\A n \in Remarks : n # m => remark'[n] = remark[n])
        /\ new # NoRemark /\ remark' \in [Remarks -> {NoRemark} \cup RemarkRecs]
    BY <1>2, <1>3, EngagementAssumption DEF EngInv, EngBase, EngTypes, NoRemark
  <1>5. \A d \in Calls : ~(Running(d) /\ OnOne(call[d], r))
    BY <1>1, <1>3 DEF OnOne, EngInv, EngBase, AboutFits
  <1>6. call[c].step = "idle" /\ call' = [call EXCEPT ![c] = r] /\ overlapped' = overlapped
    BY <1>3, <1>5 DEF Starts, Running, OnOne
  <1>7. EngTypes'  BY <1>1, <1>3, <1>4, <1>6 DEF EngInv, EngBase, EngTypes
  <1>8. Onward  BY <1>3, <1>4, <1>6 DEF Onward
  <1>9. AboutFits(r)' /\ StepFits(r) /\ ClipOf(r)' = v  BY <1>1, <1>2, <1>4 DEF AboutFits, StepFits, ClipOf
  <1>10. CommentsFit'  BY <1>2, <1>3, <1>4 DEF CommentsFit, EngInv, EngBase
  <1>11. StepOf(c, r)  BY <1>1, <1>6, <1>7, <1>8, <1>9, <1>10 DEF StepOf
  <1>12. Meets(c, r)  BY <1>5 DEF Meets
  <1>13. Announces(c, r)
    <2>1. ~Told(r)'  BY <1>1 DEF Told
    <2> QED BY <1>3, <1>6, <2>1 DEF Announces
  <1>14. KeepsRows(c, r)
    <2>1. HoldsRow(r)'  BY <1>1, <1>2, <1>4 DEF HoldsRow
    <2> QED BY <1>1, <1>3, <1>4, <2>1 DEF KeepsRows
  <1>15. ASSUME NEW k \in SummaryKeys PROVE MovesBy(k, c)
    <2>1. /\ Raising(k) \subseteq Calls /\ Raising(k)' \subseteq Calls
          /\ Lowering(k) \subseteq Calls /\ Lowering(k)' \subseteq Calls
          /\ \A d \in Calls : d # c => /\ d \in Raising(k)' <=> d \in Raising(k)
                                       /\ d \in Lowering(k)' <=> d \in Lowering(k)
          /\ c \in Raising(k)' <=> k \in PendingAt(r, v)
          /\ c \notin Lowering(k)' /\ c \notin Raising(k) /\ c \notin Lowering(k)
      BY <1>1, <1>6, <1>9, <1>11, RaisingIs DEF PendingAt
    <2>2. k \in PendingAt(r, v) <=> (k[1] = "comments" /\ k[2] = v)  BY SummaryIs, <1>1 DEF PendingAt, KeysAt
    <2>3. /\ k[1] # "comments" => Standers(k)' = Standers(k)
          /\ k[1] = "comments" => /\ \A x : x # m => (x \in Standers(k)' <=> x \in Standers(k))
                                  /\ m \in Standers(k) <=> (remark[m].clip = k[2] /\ ~remark[m].deleted)
                                  /\ m \in Standers(k)' <=> (remark'[m].clip = k[2] /\ ~remark'[m].deleted)
      BY <1>3, <1>4, CommentersMove DEF EngInv, EngBase
    <2>4. k[1] = "comments" => m \notin Standers(k)
      BY <1>3, <2>3, SummaryIs, EngagementAssumption DEF NoRemark
    <2>5. count'[k] = count[k]  BY <1>3
    <2>6. CASE k \in PendingAt(r, v)  BY <2>1, <2>6, <1>2, <1>4, <2>2, <2>3, <2>4, <2>5 DEF MovesBy, CountsIn
    <2>7. CASE k \notin PendingAt(r, v)
      <3>1. Raising(k)' = Raising(k) /\ Lowering(k)' = Lowering(k)  BY <2>1, <2>7
      <3>2. Standers(k)' = Standers(k)  BY <1>2, <1>4, <2>2, <2>3, <2>4, <2>7
      <3> QED BY <2>5, <3>1, <3>2 DEF MovesBy, Unmoved
    <2> QED BY <2>6, <2>7
  <1> QED BY <1>11, <1>12, <1>13, <1>14, <1>15, StepKeeps DEF StepFitsIn

\* A request that goes on.
DeedGoes(c, w) ==
    /\ Running(c) /\ w \in CallRecs /\ w.step # "idle" /\ StepFits(w) /\ OnOne(w, call[c])
    /\ call' = [call EXCEPT ![c] = w]
    /\ UNCHANGED <<video, overlapped>> /\ lost \subseteq lost' /\ lost' \subseteq SharedKeys
    /\ redeleted \subseteq redeleted' /\ redeleted' \subseteq Remarks
    /\ rows' \subseteq Rows /\ count' \in [CounterKeys -> Nat] /\ notices' \subseteq NoticeRecs
    /\ engFaults' \in 0..MaxEngFaults /\ (engFaults' = 0 => engFaults = 0)

\* It stays about what it was about, and meets nobody new.
LEMMA DeedGoesOn ==
    ASSUME EngInv, NEW c \in Calls, NEW w, DeedGoes(c, w), remark' \in [Remarks -> {NoRemark} \cup RemarkRecs],
           \A m \in Remarks : /\ remark'[m].clip = remark[m].clip /\ remark'[m].by = remark[m].by
                              /\ remark'[m] = NoRemark <=> remark[m] = NoRemark,
           \A m \in redeleted' : remark[m] # NoRemark
    PROVE  StepOf(c, w) /\ Meets(c, w)
  <1>1. EngTypes'  BY DEF EngInv, EngBase, EngTypes, DeedGoes
  <1>2. Onward  BY DEF Onward, DeedGoes
  <1>3. CommentsFit'  BY DEF DeedGoes, EngInv, EngBase, EngTypes, CommentsFit
  <1>4. AboutFits(w)'  BY DEF EngInv, EngBase, DeedGoes, Running, AboutFits, OnOne
  <1>5. StepOf(c, w)  BY <1>1, <1>2, <1>3, <1>4 DEF StepOf, DeedGoes
  <1> QED BY <1>5, MeetsOn DEF DeedGoes

\* It holds its row as before, if it goes on at all.
LEMMA GoesHolding ==
    ASSUME EngInv, NEW c \in Calls, NEW w, DeedGoes(c, w), UNCHANGED <<rows, remark>>,
           w.step \in {"notify", "done"} \/ (w.step = "count" /\ call[c].step = "count" /\ w.sign = call[c].sign)
    PROVE  KeepsRows(c, w)
  <1>1. HoldsRow(w)' \/ SharedAt(w, ClipOf(w)') \subseteq overlapped'
    BY OneShares DEF HoldsRow, EngInv, RowsAreHeld, Overlapping, DeedGoes, OnOne, ClipOf
  <1> QED BY <1>1 DEF KeepsRows

--------
\* A request that updates its next counter.
Counting(c, w, key) ==
    /\ w = [call[c] EXCEPT !.counted = call[c].counted + 1, !.step = AfterCount(call[c], call[c].counted + 1)]
    /\ key = CountersOf(call[c])[call[c].counted + 1]

\* What it is then, and what it has left to update.
LEMMA CounterIs ==
    ASSUME EngInv, NEW c \in Calls, call[c].step = "count", NEW w, NEW key, Counting(c, w, key)
    PROVE  /\ w \in CallRecs /\ StepFits(w) /\ OnOne(w, call[c]) /\ w.sign = call[c].sign
           /\ w.step \in {"count", "notify", "done"}
           /\ ~(w.step = "done" /\ w.sign = 1 /\ w.kind \in {"follows", "likes", "comments"})
           /\ key \in CounterKeys /\ key \in PendingAt(call[c], ClipOf(call[c]))
           /\ \A k : k \in PendingAt(w, ClipOf(call[c])) <=> k \in PendingAt(call[c], ClipOf(call[c])) /\ k # key
  <1> DEFINE r == call[c]
             i == r.counted + 1
             next == AfterCount(r, i)
  <1>1. r \in CallRecs /\ AboutFits(r) /\ StepFits(r) /\ EngTypes /\ r.step = "count"
    BY DEF EngInv, EngBase, EngTypes
  <1>2. /\ r.kind \in {"follows", "likes", "comment_likes", "comments", "views"}
        /\ r.counted = 0 \/ (r.kind = "follows" /\ r.counted = 1)
    BY <1>1 DEF StepFits
  <1>3. w = [r EXCEPT !.counted = i, !.step = next] /\ key = CountersOf(r)[i]  BY DEF Counting
  <1> HIDE DEF r
  <1>4. /\ next = "count" <=> r.kind = "follows" /\ r.counted = 0
        /\ next \in {"count", "notify", "done"}
        /\ next = "notify" => r.kind \in {"follows", "likes", "comments"} /\ r.sign = 1
        /\ next = "done" => ~(r.sign = 1 /\ r.kind \in {"follows", "likes", "comments"})
    <2>1. i < Len(CountersOf(r)) <=> r.kind = "follows" /\ r.counted = 0
      <3>1. r.kind = "follows" => Len(CountersOf(r)) = 2  BY <1>1, CountersIs
      <3>2. r.kind # "follows" => Len(CountersOf(r)) = 1  BY <1>1, <1>2, CountersIs
      <3>3. CASE r.kind = "follows" /\ r.counted = 0
        <4>1. i = 1  BY <3>3
        <4>2. 1 < 2  OBVIOUS
        <4>3. Len(CountersOf(r)) = 2  BY <3>1, <3>3
        <4> HIDE DEF i
        <4>4. i < Len(CountersOf(r))  BY <4>1, <4>2, <4>3
        <4> QED BY <3>3, <4>4, Zenon
      <3>4. CASE r.kind = "follows" /\ r.counted = 1
        <4>1. i = 2  BY <3>4
        <4>2. ~(2 < 2) /\ 1 # 0  OBVIOUS
        <4>3. Len(CountersOf(r)) = 2  BY <3>1, <3>4
        <4> HIDE DEF i
        <4>4. ~(i < Len(CountersOf(r)))  BY <4>1, <4>2, <4>3
        <4> QED BY <3>4, <4>2, <4>4, Zenon
      <3>5. CASE r.kind # "follows" /\ r.counted = 0
        <4>1. i = 1  BY <3>5
        <4>2. ~(1 < 1)  OBVIOUS
        <4>3. Len(CountersOf(r)) = 1  BY <3>2, <3>5
        <4> HIDE DEF i
        <4>4. ~(i < Len(CountersOf(r)))  BY <4>1, <4>2, <4>3
        <4> QED BY <3>5, <4>4, Zenon
      <3> QED BY <1>2, <3>3, <3>4, <3>5
    <2> QED BY <2>1 DEF AfterCount
  <1>5. i \in 1..2 /\ next \in EngSteps  BY <1>2, <1>4 DEF EngSteps
  <1>5i. i = r.counted + 1
    OBVIOUS
  <1> HIDE DEF next, i
  <1>6. /\ w \in CallRecs /\ w.kind = r.kind /\ w.by = r.by /\ w.on = r.on /\ w.sign = r.sign
        /\ w.counted = i /\ w.step = next
    <2>1. w = [r EXCEPT !.counted = i, !.step = next]  BY <1>3
    <2>2. i \in 0..2  BY <1>5
    <2>3. r \in CallRecs  BY <1>1
    <2> QED BY <1>5, <2>1, <2>2, <2>3 DEF CallRecs
  <1>7. StepFits(w)  BY <1>1, <1>2, <1>4, <1>5i, <1>6 DEF StepFits
  <1>8. {CountersOf(r)[j] : j \in 1..Len(CountersOf(r))} = KeysAt(r, ClipOf(r))  BY <1>1, KeysAre
  <1>9. i \in 1..Len(CountersOf(r))
    <2>1. r.kind = "follows" => Len(CountersOf(r)) = 2  BY <1>1, CountersIs
    <2>2. r.kind # "follows" => Len(CountersOf(r)) = 1  BY <1>1, <1>2, CountersIs
    <2>3. CASE r.kind = "follows"
      <3>1. i \in 1..2  BY <1>5
      <3> QED BY <2>1, <2>3, <3>1
    <2>4. CASE r.kind # "follows"
      <3>1. i = 1  BY <1>2, <1>5i, <2>4
      <3>2. i \in 1..1  BY <3>1
      <3> QED BY <2>2, <2>4, <3>2
    <2> QED BY <2>3, <2>4
  <1>10. key \in KeysAt(r, ClipOf(r)) /\ key \in CounterKeys  BY <1>3, <1>8, <1>9 DEF KeysAt
  <1>11. CASE r.kind = "follows" /\ r.counted = 0
    <2>1. key = <<"followers", r.on>>  BY <1>1, <1>3, <1>5i, <1>11, CountersIs
    <2>2. \A k : k \in KeysAt(r, ClipOf(r)) => k = <<"followers", r.on>> \/ k = <<"following", r.by>>
      BY <1>11 DEF KeysAt
    <2>3. key \in PendingAt(r, ClipOf(r))  BY <1>1, <1>10, <1>11 DEF PendingAt
    <2>4. KeysAt(w, ClipOf(r)) = KeysAt(r, ClipOf(r))  BY <1>6 DEF KeysAt
    <2>5. \A k : k \in PendingAt(w, ClipOf(r)) <=> k \in KeysAt(r, ClipOf(r)) /\ k[1] = "following"
      BY <1>4, <1>5i, <1>6, <1>11, <2>4 DEF PendingAt
    <2>6. \A k : k \in PendingAt(r, ClipOf(r)) <=> k \in KeysAt(r, ClipOf(r))  BY <1>1, <1>11 DEF PendingAt
    <2>7. \A k \in KeysAt(r, ClipOf(r)) : k[1] = "following" <=> k # key  BY <2>1, <2>2
    <2> QED BY <1>4, <1>6, <1>7, <1>10, <2>3, <2>5, <2>6, <2>7 DEF r, OnOne
  <1>12. CASE r.kind = "follows" /\ r.counted = 1
    <2>1. key = <<"following", r.by>>  BY <1>1, <1>3, <1>5i, <1>12, CountersIs
    <2>2. \A k : k \in KeysAt(r, ClipOf(r)) => k = <<"followers", r.on>> \/ k = <<"following", r.by>>
      BY <1>12 DEF KeysAt
    <2>3. key \in PendingAt(r, ClipOf(r))  BY <1>1, <1>10, <2>1 DEF PendingAt
    <2>4. \A k : k \notin PendingAt(w, ClipOf(r))  BY <1>4, <1>6, <1>12 DEF PendingAt
    <2>5. \A k : k \in PendingAt(r, ClipOf(r)) => k = key  BY <1>12, <2>1, <2>2 DEF PendingAt
    <2> QED BY <1>4, <1>6, <1>7, <1>10, <2>3, <2>4, <2>5 DEF r, OnOne
  <1>13. CASE r.kind # "follows"
    <2>1. r.counted = 0 /\ Len(CountersOf(r)) = 1  BY <1>1, <1>2, <1>13, CountersIs
    <2>2. KeysAt(r, ClipOf(r)) \subseteq {key}  BY <1>3, <1>5i, <1>8, <2>1
    <2>3. key \in PendingAt(r, ClipOf(r))  BY <1>1, <1>10, <2>1 DEF PendingAt
    <2>4. \A k : k \notin PendingAt(w, ClipOf(r))  BY <1>4, <1>6, <1>13 DEF PendingAt
    <2>5. \A k : k \in PendingAt(r, ClipOf(r)) => k = key  BY <2>2 DEF PendingAt
    <2> QED BY <1>4, <1>6, <1>7, <1>10, <2>3, <2>4, <2>5 DEF r, OnOne
  <1> QED BY <1>2, <1>11, <1>12, <1>13

\* A counter, or its update lost.
LEMMA UpdateKeeps == ASSUME EngInv, NEW c \in Calls, UpdateCounter(c) PROVE EngInv'
  <1>1. PICK w : w = [call[c] EXCEPT !.counted = call[c].counted + 1, !.step = AfterCount(call[c], call[c].counted + 1)]
    OBVIOUS
  <1>2. PICK key : key = CountersOf(call[c])[call[c].counted + 1]  OBVIOUS
  <1>3. call[c].step = "count" /\ call' = [call EXCEPT ![c] = w]
    BY <1>1 DEF UpdateCounter, EngInv, EngBase, EngTypes, CallRecs
  <1>4. /\ \/ count' = [count EXCEPT ![key] = Shifted(@, call[c].sign)] /\ NoEngFault /\ UNCHANGED lost
           \/ UNCHANGED count /\ EngFault /\ lost' = lost \cup {key}
        /\ UNCHANGED <<video, remark, rows, notices, overlapped, redeleted>>
    BY <1>2 DEF UpdateCounter
  <1>5. /\ w \in CallRecs /\ StepFits(w) /\ OnOne(w, call[c]) /\ w.sign = call[c].sign
        /\ w.step \in {"count", "notify", "done"}
        /\ ~(w.step = "done" /\ w.sign = 1 /\ w.kind \in {"follows", "likes", "comments"})
        /\ key \in CounterKeys /\ key \in PendingAt(call[c], ClipOf(call[c]))
        /\ \A k : k \in PendingAt(w, ClipOf(call[c])) <=> k \in PendingAt(call[c], ClipOf(call[c])) /\ k # key
    <2>1. Counting(c, w, key)  BY <1>1, <1>2 DEF Counting
    <2>2. call[c].step = "count"  BY <1>3
    <2> QED BY <2>1, <2>2, CounterIs
  <1>6. EngTypes /\ CommentsFit /\ call[c] \in CallRecs /\ call[c].sign \in {1, -1}
    BY DEF EngInv, EngBase, EngTypes, CallRecs
  <1>7. count' \in [CounterKeys -> Nat] /\ lost' \subseteq SharedKeys /\ lost \subseteq lost'
    BY <1>4, <1>5, <1>6 DEF Shifted, EngTypes, SharedKeys
  <1>8. engFaults' \in 0..MaxEngFaults /\ (engFaults' = 0 => engFaults = 0)
    BY <1>4, <1>6, EngagementAssumption DEF EngTypes, EngFault, NoEngFault
  <1>9. DeedGoes(c, w)  BY <1>3, <1>4, <1>5, <1>6, <1>7, <1>8 DEF DeedGoes, Running, EngTypes
  <1>10. StepOf(c, w) /\ Meets(c, w)  BY <1>4, <1>6, <1>9, DeedGoesOn DEF EngTypes, CommentsFit
  <1>11. KeepsRows(c, w)  BY <1>3, <1>4, <1>5, <1>9, GoesHolding
  <1>12. Announces(c, w)
    <2>1. ~Told(w)'  BY <1>5 DEF Told
    <2> QED BY <1>3, <1>4, <2>1 DEF Announces
  <1>13. ASSUME NEW k \in SummaryKeys PROVE MovesBy(k, c)
    <2>0. ClipOf(w)' = ClipOf(call[c])  BY <1>4, <1>5 DEF ClipOf, OnOne
    <2>1. /\ Raising(k) \subseteq Calls /\ Raising(k)' \subseteq Calls
          /\ Lowering(k) \subseteq Calls /\ Lowering(k)' \subseteq Calls
          /\ \A d \in Calls : d # c => /\ d \in Raising(k)' <=> d \in Raising(k)
                                       /\ d \in Lowering(k)' <=> d \in Lowering(k)
          /\ c \in Raising(k)' <=> (w.sign = 1 /\ k \in PendingAt(w, ClipOf(call[c])))
          /\ c \in Lowering(k)' <=> (w.sign = -1 /\ k \in PendingAt(w, ClipOf(call[c])))
          /\ c \in Raising(k) <=> (call[c].sign = 1 /\ k \in PendingAt(call[c], ClipOf(call[c])))
          /\ c \in Lowering(k) <=> (call[c].sign = -1 /\ k \in PendingAt(call[c], ClipOf(call[c])))
      BY <1>10, <2>0, RaisingIs
    <2>2. Standers(k)' = Standers(k)  BY <1>4 DEF Standers
    <2>3. CASE k # key
      <3>1. k \in PendingAt(w, ClipOf(call[c])) <=> k \in PendingAt(call[c], ClipOf(call[c]))  BY <1>5, <2>3
      <3>2. Raising(k)' = Raising(k) /\ Lowering(k)' = Lowering(k)  BY <1>5, <2>1, <3>1
      <3>3. count'[k] = count[k]  BY <1>4, <1>6, <2>3, SummaryIs DEF EngTypes
      <3> QED BY <2>2, <3>2, <3>3 DEF MovesBy, Unmoved
    <2>4. CASE k = key /\ lost' = lost \cup {key}  BY <2>4 DEF MovesBy
    <2>5. CASE k = key /\ count' = [count EXCEPT ![key] = Shifted(@, call[c].sign)]
      <3>1. count'[k] = Shifted(count[k], call[c].sign)  BY <1>5, <1>6, <2>5 DEF EngTypes
      <3>2. k \notin PendingAt(w, ClipOf(call[c])) /\ k \in PendingAt(call[c], ClipOf(call[c]))  BY <1>5, <2>5
      <3>3. CASE call[c].sign = 1  BY <1>5, <2>1, <3>2, <3>3, <2>2, <3>1 DEF MovesBy, Raised
      <3>4. CASE call[c].sign = -1  BY <1>5, <2>1, <3>2, <3>4, <2>2, <3>1 DEF MovesBy, Lowered
      <3> QED BY <1>6, <3>3, <3>4
    <2> QED BY <1>4, <2>3, <2>4, <2>5
  <1> QED BY <1>10, <1>11, <1>12, <1>13, StepKeeps DEF StepFitsIn

\* A request that only takes its next step.
NextStep(c, w, step) == w = [call[c] EXCEPT !.step = step]

\* Nothing but its step is different.
LEMMA StepIs ==
    ASSUME EngTypes, NEW c \in Calls, NEW step \in EngSteps, NEW w, NextStep(c, w, step)
    PROVE  /\ w \in CallRecs /\ OnOne(w, call[c]) /\ w.sign = call[c].sign /\ w.step = step
           /\ w.counted = call[c].counted
           /\ EngGoes(c, step) => call' = [call EXCEPT ![c] = w]
  <1>1. PICK r \in CallRecs : r = call[c]  BY DEF EngTypes
  <1>2. w = [r EXCEPT !.step = step]  BY <1>1 DEF NextStep
  <1>3. w \in CallRecs /\ w.kind = r.kind /\ w.by = r.by /\ w.on = r.on /\ w.sign = r.sign /\ w.step = step /\ w.counted = r.counted
    BY <1>1, <1>2 DEF CallRecs
  <1>4. EngGoes(c, step) => call' = [call EXCEPT ![c] = w]  BY DEF EngGoes, NextStep
  <1> QED BY <1>1, <1>3, <1>4 DEF OnOne

\* A counter nobody's coming or going touches.
LEMMA StaysPut ==
    ASSUME EngInv, NEW c \in Calls, NEW w, StepOf(c, w), NEW k \in SummaryKeys, k \notin PendingAt(w, ClipOf(w)'),
           k \notin PendingAt(call[c], ClipOf(call[c])), count'[k] = count[k], Standers(k)' = Standers(k)
    PROVE  MovesBy(k, c)
  <1>1. /\ Raising(k) \subseteq Calls /\ Raising(k)' \subseteq Calls
        /\ Lowering(k) \subseteq Calls /\ Lowering(k)' \subseteq Calls
        /\ \A d \in Calls : d # c => /\ d \in Raising(k)' <=> d \in Raising(k)
                                     /\ d \in Lowering(k)' <=> d \in Lowering(k)
        /\ c \notin Raising(k)' /\ c \notin Lowering(k)' /\ c \notin Raising(k) /\ c \notin Lowering(k)
    BY RaisingIs
  <1>2. Raising(k)' = Raising(k) /\ Lowering(k)' = Lowering(k)  BY <1>1
  <1> QED BY <1>2 DEF MovesBy, Unmoved

\* What there is in a step that does not start a request.
LEMMA FaultsCount ==
    ASSUME EngInv, EngFault \/ NoEngFault
    PROVE  /\ engFaults' \in 0..MaxEngFaults /\ (engFaults' = 0 => engFaults = 0)
           /\ EngFault => engFaults' # 0
  BY EngagementAssumption DEF EngFault, NoEngFault, EngInv, EngBase, EngTypes

\* Whoever is told is a user.
LEMMA AddresseeIs ==
    ASSUME EngBase, NEW c \in Calls, call[c].kind \in {"follows", "likes", "comments"}, call[c].step # "idle"
    PROVE  Addressee(call[c]) \in People /\ call[c].by \in People
  <1>1. PICK r : r = call[c]  OBVIOUS
  <1>2. AboutFits(r) /\ EngTypes /\ CommentsFit /\ r.kind \in {"follows", "likes", "comments"} /\ r.step # "idle"
    BY <1>1 DEF EngBase
  <1>3. CASE r.kind = "follows"  BY <1>1, <1>2, <1>3 DEF AboutFits, Addressee
  <1>4. CASE r.kind = "likes"  BY <1>2, <1>4, <1>1 DEF AboutFits, EngTypes, Addressee
  <1>5. CASE r.kind = "comments"
    BY <1>2, <1>5, <1>1 DEF AboutFits, EngTypes, CommentsFit, RemarkRecs, Addressee
  <1> QED BY <1>2, <1>3, <1>4, <1>5

\* A notification is written, or is not.
LEMMA NotifyKeeps == ASSUME EngInv, NEW c \in Calls, Notify(c) PROVE EngInv'
  <1>1. PICK w : NextStep(c, w, "done")  BY DEF NextStep
  <1>2. EngTypes /\ CommentsFit /\ EngBase /\ "done" \in EngSteps /\ call[c] \in CallRecs /\ StepFits(call[c])
    BY DEF EngInv, EngBase, EngTypes, EngSteps
  <1>3. /\ call[c].step = "notify" /\ EngGoes(c, "done")
        /\ UNCHANGED <<video, remark, rows, count, lost, overlapped, redeleted>>
        /\ EngFault \/ NoEngFault
    BY DEF Notify, engGhosts
  <1>4. /\ w \in CallRecs /\ OnOne(w, call[c]) /\ w.sign = call[c].sign /\ w.step = "done"
        /\ call' = [call EXCEPT ![c] = w]
    BY <1>1, <1>2, <1>3, StepIs
  <1>5. call[c].kind \in {"follows", "likes", "comments"} /\ call[c].sign = 1  BY <1>2, <1>3 DEF StepFits
  <1>6. Addressee(call[c]) \in People /\ call[c].by \in People  BY <1>2, <1>3, <1>5, AddresseeIs
  <1> DEFINE note == [call |-> c, type |-> call[c].kind, to |-> Addressee(call[c]), actor |-> call[c].by, read |-> FALSE]
  <1>7. note \in NoticeRecs /\ note.call = c  BY <1>5, <1>6 DEF NoticeRecs
  <1>8. \/ Addressee(call[c]) # call[c].by /\ notices' = notices \cup {note}
        \/ notices' = notices /\ (Addressee(call[c]) = call[c].by \/ EngFault)
    BY DEF Notify
  <1> HIDE DEF note
  <1>9. notices' \subseteq NoticeRecs  BY <1>2, <1>7, <1>8 DEF EngTypes
  <1>10. StepFits(w)  BY <1>4, <1>5 DEF StepFits, OnOne
  <1>11. DeedGoes(c, w)  BY <1>2, <1>3, <1>4, <1>9, <1>10, FaultsCount DEF DeedGoes, Running, EngTypes
  <1>12. StepOf(c, w) /\ Meets(c, w)  BY <1>2, <1>3, <1>11, DeedGoesOn DEF EngTypes, CommentsFit
  <1>13. KeepsRows(c, w)  BY <1>3, <1>4, <1>11, GoesHolding
  <1>14. Announces(c, w)  BY <1>3, <1>4, <1>5, <1>7, FaultsCount, <1>8 DEF OnOne, Addressee, Told, Announces
  <1>15. \A k \in SummaryKeys : MovesBy(k, c)  BY <1>3, <1>4, <1>12, NothingMoves
  <1> QED BY <1>12, <1>13, <1>14, <1>15, StepKeeps DEF StepFitsIn

\* The process ends.
LEMMA EndKeeps == ASSUME EngInv, NEW c \in Calls, EndEarly(c) PROVE EngInv'
  <1>1. PICK w : NextStep(c, w, "done")  BY DEF NextStep
  <1>2. EngTypes /\ CommentsFit /\ EngBase /\ "done" \in EngSteps /\ call[c] \in CallRecs /\ StepFits(call[c])
    BY DEF EngInv, EngBase, EngTypes, EngSteps
  <1>3. /\ Running(c) /\ EngGoes(c, "done") /\ EngFault /\ lost' = lost \cup Pending(c)
        /\ UNCHANGED <<video, remark, rows, count, notices, overlapped, redeleted>>
    BY DEF EndEarly, tables, Running
  <1>4. /\ w \in CallRecs /\ OnOne(w, call[c]) /\ w.sign = call[c].sign /\ w.step = "done"
        /\ call' = [call EXCEPT ![c] = w]
    BY <1>1, <1>2, <1>3, StepIs
  <1>5. Pending(c) = PendingAt(call[c], ClipOf(call[c]))  BY <1>2, PendingIs DEF PendingAre
  <1>6. lost' \subseteq SharedKeys  BY <1>2, <1>3, <1>5 DEF EngTypes, PendingAt, KeysAt, SharedKeys
  <1>7. StepFits(w)  BY <1>2, <1>4 DEF StepFits, OnOne
  <1>8. DeedGoes(c, w)  BY <1>2, <1>3, <1>4, <1>6, <1>7, FaultsCount DEF DeedGoes, EngTypes
  <1>9. StepOf(c, w) /\ Meets(c, w)  BY <1>2, <1>3, <1>8, DeedGoesOn DEF EngTypes, CommentsFit
  <1>10. KeepsRows(c, w)  BY <1>3, <1>4, <1>8, GoesHolding
  <1>11. Announces(c, w)  BY <1>3, FaultsCount DEF Announces, Running
  <1>12. ASSUME NEW k \in SummaryKeys PROVE MovesBy(k, c)
    BY <1>3, <1>5, <1>4, <1>9, StaysPut DEF MovesBy, Standers, PendingAt
  <1> QED BY <1>9, <1>10, <1>11, <1>12, StepKeeps DEF StepFitsIn

\* The DELETE of a toggle.
LEMMA RemoveKeeps == ASSUME EngInv, NEW c \in Calls, RemoveRow(c) PROVE EngInv'
  <1> DEFINE step == IF call[c].kind = "bookmarks" THEN "done" ELSE "count"
  <1>1. PICK w : NextStep(c, w, step)  BY DEF NextStep
  <1>2. EngTypes /\ CommentsFit /\ step \in EngSteps /\ call[c] \in CallRecs /\ StepFits(call[c]) /\ AboutFits(call[c])
    BY DEF EngInv, EngBase, EngTypes, EngSteps
  <1>3. /\ call[c].step = "remove" /\ EngGoes(c, step)
        /\ \/ rows' = rows \ {RowOf(c)} /\ NoEngFault /\ UNCHANGED lost
           \/ UNCHANGED rows /\ EngFault /\ lost' = lost \cup KeysOf(call[c])
        /\ UNCHANGED <<video, remark, count, notices, overlapped, redeleted>>
    BY DEF RemoveRow
  <1>4. call[c].kind \in {"likes", "comment_likes", "bookmarks"} /\ call[c].sign = -1 /\ call[c].counted = 0
    BY <1>2, <1>3 DEF StepFits
  <1>5. step \in {"done", "count"} /\ (call[c].kind # "bookmarks" => step = "count") /\ (step = "count" => call[c].kind # "bookmarks")
    OBVIOUS
  <1> HIDE DEF step
  <1>6. /\ w \in CallRecs /\ OnOne(w, call[c]) /\ w.sign = call[c].sign /\ w.step = step /\ w.counted = call[c].counted
        /\ call' = [call EXCEPT ![c] = w]
    BY <1>1, <1>2, <1>3, StepIs
  <1>7. /\ w.kind \in {"likes", "comment_likes", "bookmarks"} /\ w.sign = -1 /\ w.counted = 0
        /\ w.step \in {"done", "count"} /\ (w.kind # "bookmarks" => w.step = "count") /\ (w.step = "count" => w.kind # "bookmarks")
        /\ RowOf(c) = <<w.kind, w.by, w.on>>
    BY <1>4, <1>5, <1>6 DEF OnOne, RowOf
  <1>8. StepFits(w) /\ AboutFits(w)
    <2>1. call[c].step # "idle"  BY <1>3
    <2> QED BY <1>2, <1>6, <1>7, <2>1 DEF StepFits, AboutFits, OnOne
  <1>9. /\ KeysOf(call[c]) = SharedAt(call[c], ClipOf(call[c])) /\ KeysOf(call[c]) \subseteq SharedKeys
        /\ SharedAt(call[c], ClipOf(call[c])) = SharedAt(w, ClipOf(w))
    BY <1>2, <1>3, <1>4, <1>6, KeysAre, SharedIs, OneShares
  <1>10. lost \subseteq lost' /\ lost' \subseteq SharedKeys /\ (EngFault \/ NoEngFault) /\ rows' \subseteq Rows
    BY <1>2, <1>3, <1>9 DEF EngTypes
  <1>11. DeedGoes(c, w)  BY <1>2, <1>3, <1>6, <1>7, <1>8, <1>10, FaultsCount DEF DeedGoes, Running, EngTypes
  <1>12. StepOf(c, w) /\ Meets(c, w)  BY <1>2, <1>3, <1>11, DeedGoesOn DEF EngTypes, CommentsFit
  <1>13. KeepsRows(c, w)
    <2>1. HoldsRow(w)'  BY <1>7 DEF HoldsRow
    <2> QED BY <1>3, <1>7, <2>1 DEF KeepsRows
  <1>14. Announces(c, w)
    <2>1. ~Told(w)'  BY <1>7 DEF Told
    <2> QED BY <1>3, <2>1 DEF Announces
  <1>15. \A k \in SummaryKeys : MovesBy(k, c)
    <2>0. ClipOf(w)' = ClipOf(w)  BY <1>3 DEF ClipOf
    <2>1. CASE rows' = rows \ {RowOf(c)}
      <3>1. <<w.kind, w.by, w.on>> \in rows \/ SharedAt(w, ClipOf(w)') \subseteq overlapped'
        BY <1>3, <1>6, <1>9, <2>0 DEF EngInv, RowsAreHeld, Overlapping, HoldsRow, OnOne
      <3>2. rows' = rows \ {<<w.kind, w.by, w.on>>}  BY <1>7, <2>1
      <3> QED BY <1>3, <1>7, <1>8, <1>12, <3>1, <3>2, RowMoves
    <2>2. CASE UNCHANGED rows /\ lost' = lost \cup KeysOf(call[c])
      BY <1>9, <2>2, <2>0, <1>3, <1>12, StaysPut DEF MovesBy, SharedAt, PendingAt, Standers
    <2> QED BY <1>3, <2>1, <2>2
  <1> QED BY <1>12, <1>13, <1>14, <1>15, StepKeeps DEF StepFitsIn

\* A comment is marked deleted, perhaps once more.
LEMMA DeleteKeeps == ASSUME EngInv, NEW c \in Calls, MarkDeleted(c) PROVE EngInv'
  <1>1. PICK w : NextStep(c, w, "count")  BY DEF NextStep
  <1>2. EngTypes /\ CommentsFit /\ "count" \in EngSteps /\ call[c] \in CallRecs /\ StepFits(call[c]) /\ AboutFits(call[c])
    BY DEF EngInv, EngBase, EngTypes, EngSteps
  <1>3. PICK m : m = call[c].on  OBVIOUS
  <1>4. /\ call[c].step = "delete" /\ EngGoes(c, "count")
        /\ \/ /\ remark' = [remark EXCEPT ![m].deleted = TRUE]
              /\ redeleted' = IF remark[m].deleted THEN redeleted \cup {m} ELSE redeleted
              /\ NoEngFault /\ UNCHANGED lost
           \/ UNCHANGED <<remark, redeleted>> /\ EngFault /\ lost' = lost \cup KeysOf(call[c])
        /\ UNCHANGED <<video, rows, count, notices, overlapped>>
    BY <1>3 DEF MarkDeleted
  <1>5. call[c].kind = "comments" /\ call[c].sign = -1 /\ call[c].counted = 0  BY <1>2, <1>4 DEF StepFits
  <1>6. m \in Remarks /\ remark[m] # NoRemark /\ remark[m] \in RemarkRecs
    BY <1>2, <1>3, <1>4, <1>5 DEF AboutFits, EngTypes
  <1>7. /\ w \in CallRecs /\ OnOne(w, call[c]) /\ w.sign = call[c].sign /\ w.step = "count" /\ w.counted = call[c].counted
        /\ call' = [call EXCEPT ![c] = w]
    BY <1>1, <1>2, <1>4, StepIs
  <1>8. w.kind = "comments" /\ w.on = m /\ w.sign = -1 /\ w.counted = 0  BY <1>3, <1>5, <1>7 DEF OnOne
  <1>9. StepFits(w)  BY <1>7, <1>8 DEF StepFits
  <1>10. /\ remark' \in [Remarks -> {NoRemark} \cup RemarkRecs] /\ \A n \in Remarks : n # m => remark'[n] = remark[n]
         /\ remark'[m].clip = remark[m].clip /\ remark'[m].by = remark[m].by /\ remark'[m] # NoRemark
         /\ remark' # remark => remark'[m].deleted
    <2>1. CASE UNCHANGED remark  BY <1>2, <1>6, <2>1 DEF EngTypes
    <2>2. CASE remark' = [remark EXCEPT ![m].deleted = TRUE]
      <3> DEFINE new == [remark[m] EXCEPT !.deleted = TRUE]
      <3>1. new \in RemarkRecs /\ new.clip = remark[m].clip /\ new.by = remark[m].by /\ new.deleted = TRUE
        BY <1>6 DEF RemarkRecs
      <3>2. remark' = [remark EXCEPT ![m] = new]  BY <2>2
      <3> HIDE DEF new
      <3>3. new # NoRemark  BY <3>1, EngagementAssumption DEF RemarkRecs, NoRemark
      <3> QED BY <1>2, <1>6, <3>1, <3>2, <3>3 DEF EngTypes
    <2> QED BY <1>4, <2>1, <2>2
  <1>11. /\ KeysOf(call[c]) = SharedAt(call[c], ClipOf(call[c])) /\ KeysOf(call[c]) \subseteq SharedKeys
         /\ SharedAt(call[c], ClipOf(call[c])) = SharedAt(w, ClipOf(w))
    BY <1>2, <1>4, <1>5, <1>7, KeysAre, SharedIs, OneShares
  <1>12. /\ lost \subseteq lost' /\ lost' \subseteq SharedKeys /\ (EngFault \/ NoEngFault)
         /\ redeleted \subseteq redeleted' /\ redeleted' \subseteq redeleted \cup {m}
    BY <1>2, <1>4, <1>11 DEF EngTypes
  <1>13. DeedGoes(c, w)  BY <1>2, <1>4, <1>6, <1>7, <1>9, <1>12, FaultsCount DEF DeedGoes, Running, EngTypes
  <1>14. StepOf(c, w) /\ Meets(c, w)  BY <1>6, <1>10, <1>2, <1>12, <1>13, DeedGoesOn DEF CommentsFit
  <1>15. KeepsRows(c, w)  BY <1>7, <1>8, <1>10, <1>4 DEF HoldsRow, KeepsRows
  <1>16. Announces(c, w)
    <2>1. ~Told(w)'  BY <1>8 DEF Told
    <2> QED BY <1>4, <2>1 DEF Announces
  <1>17. ASSUME NEW k \in SummaryKeys PROVE MovesBy(k, c)
    <2> DEFINE v == remark[m].clip
    <2>1. ClipOf(w)' = v /\ ClipOf(w) = v  BY <1>8, <1>10 DEF ClipOf
    <2>2. k \in KeysAt(w, v) <=> (k[1] = "comments" /\ k[2] = v)
      <3>1. k \in CounterKeys /\ k = <<k[1], k[2]>>  BY SummaryIs
      <3>2. k \in KeysAt(w, v) <=> k = <<"comments", v>>  BY <1>8, <3>1 DEF KeysAt
      <3> HIDE DEF v
      <3> QED BY <3>1, <3>2
    <2>3. k \in PendingAt(w, v) <=> k \in KeysAt(w, v)  BY <1>7, <1>8 DEF PendingAt
    <2>4. k \notin PendingAt(call[c], ClipOf(call[c]))  BY <1>4 DEF PendingAt
    <2>5. /\ k[1] # "comments" => Standers(k)' = Standers(k)
          /\ k[1] = "comments" => /\ \A x : x # m => (x \in Standers(k)' <=> x \in Standers(k))
                                  /\ m \in Standers(k) <=> (v = k[2] /\ ~remark[m].deleted)
                                  /\ m \in Standers(k)' <=> (v = k[2] /\ ~remark'[m].deleted)
      BY <1>2, <1>4, <1>6, <1>10, CommentersMove
    <2> HIDE DEF v
    <2>6. CASE k \notin KeysAt(w, v)  BY <2>2, <2>5, <2>6, <1>4, <1>14, <2>1, <2>3, <2>4, StaysPut
    <2>7. CASE k \in KeysAt(w, v) /\ lost' = lost \cup KeysOf(call[c])
      <3>1. k \in lost'  BY <1>11, <2>1, <2>7 DEF SharedAt
      <3> QED BY <3>1 DEF MovesBy
    <2>8. CASE k \in KeysAt(w, v) /\ remark' = [remark EXCEPT ![m].deleted = TRUE] /\ ~remark[m].deleted
      <3>1. remark'[m].deleted  BY <1>2, <1>6, <1>10, <2>8
      <3>2. m \in Standers(k) /\ Standers(k)' = Standers(k) \ {m}  BY <2>2, <2>5, <2>8, <3>1
      <3>3. /\ Raising(k) \subseteq Calls /\ Raising(k)' \subseteq Calls
            /\ Lowering(k) \subseteq Calls /\ Lowering(k)' \subseteq Calls
            /\ \A d \in Calls : d # c => /\ d \in Raising(k)' <=> d \in Raising(k)
                                         /\ d \in Lowering(k)' <=> d \in Lowering(k)
            /\ c \in Raising(k)' <=> w.sign = 1
            /\ c \in Lowering(k)' <=> w.sign = -1
            /\ c \notin Raising(k) /\ c \notin Lowering(k)
        BY <1>14, <2>1, <2>3, <2>4, <2>8, RaisingIs
      <3>4. c \in Lowering(k)' /\ c \notin Raising(k)'  BY <1>8, <3>3
      <3>5. Lowering(k)' = Lowering(k) \cup {c} /\ Raising(k)' = Raising(k)  BY <3>3, <3>4
      <3> QED BY <1>4, <3>2, <3>3, <3>5 DEF MovesBy, CountsOut
    <2>9. CASE k \in KeysAt(w, v) /\ redeleted' = redeleted \cup {m}
      BY <1>10, <2>2, <2>9 DEF v, FollowKeys, MovesBy, Undisturbed
    <2> QED BY <1>4, <2>6, <2>7, <2>8, <2>9
  <1> QED BY <1>14, <1>15, <1>16, <1>17, StepKeeps DEF StepFitsIn

\* A pin is written.
LEMMA PinKeeps == ASSUME EngInv, NEW c \in Calls, WritePin(c) PROVE EngInv'
  <1>1. PICK w : NextStep(c, w, "done")  BY DEF NextStep
  <1>2. EngTypes /\ CommentsFit /\ "done" \in EngSteps /\ call[c] \in CallRecs /\ StepFits(call[c]) /\ AboutFits(call[c])
    BY DEF EngInv, EngBase, EngTypes, EngSteps
  <1>3. PICK m : m = call[c].on  OBVIOUS
  <1>4. /\ call[c].step = "pin" /\ EngGoes(c, "done")
        /\ remark' = [remark EXCEPT ![m].pinned = ~call[c].flag] \/ UNCHANGED remark
        /\ EngFault \/ NoEngFault
        /\ UNCHANGED <<video, rows, count, notices, lost, overlapped, redeleted>>
    BY <1>3 DEF WritePin, engGhosts
  <1>5. call[c].kind = "pins"  BY <1>2, <1>4 DEF StepFits
  <1>6. m \in Remarks /\ remark[m] # NoRemark /\ remark[m] \in RemarkRecs
    BY <1>2, <1>3, <1>4, <1>5 DEF AboutFits, EngTypes
  <1>7. /\ w \in CallRecs /\ OnOne(w, call[c]) /\ w.sign = call[c].sign /\ w.step = "done"
        /\ call' = [call EXCEPT ![c] = w]
    BY <1>1, <1>2, <1>4, StepIs
  <1>8. w.kind = "pins"  BY <1>5, <1>7 DEF OnOne
  <1>9. StepFits(w)  BY <1>7, <1>8 DEF StepFits
  <1>10. /\ remark' \in [Remarks -> {NoRemark} \cup RemarkRecs] /\ \A n \in Remarks : n # m => remark'[n] = remark[n]
         /\ remark'[m].clip = remark[m].clip /\ remark'[m].by = remark[m].by /\ remark'[m] # NoRemark
         /\ remark'[m].deleted = remark[m].deleted
    <2>1. CASE UNCHANGED remark  BY <1>2, <1>6, <2>1 DEF EngTypes
    <2>2. CASE remark' = [remark EXCEPT ![m].pinned = ~call[c].flag]
      <3>0. (~call[c].flag) \in BOOLEAN  BY Zenon
      <3> DEFINE new == [remark[m] EXCEPT !.pinned = ~call[c].flag]
      <3>1. new \in RemarkRecs /\ new.clip = remark[m].clip /\ new.by = remark[m].by /\ new.deleted = remark[m].deleted
        BY <1>6, <3>0 DEF RemarkRecs
      <3>2. remark' = [remark EXCEPT ![m] = new]  BY <2>2
      <3> HIDE DEF new
      <3>3. new # NoRemark  BY <3>1, EngagementAssumption DEF RemarkRecs, NoRemark
      <3> QED BY <1>2, <1>6, <3>1, <3>2, <3>3 DEF EngTypes
    <2> QED BY <1>4, <2>1, <2>2
  <1>11. \A n \in Remarks : /\ remark'[n].clip = remark[n].clip /\ remark'[n].by = remark[n].by
                            /\ remark'[n] = NoRemark <=> remark[n] = NoRemark
                            /\ remark'[n].deleted = remark[n].deleted  BY <1>6, <1>10
  <1>12. DeedGoes(c, w)  BY <1>2, <1>4, <1>7, <1>9, FaultsCount DEF DeedGoes, Running, EngTypes
  <1>13. StepOf(c, w) /\ Meets(c, w)  BY <1>2, <1>4, <1>10, <1>11, <1>12, DeedGoesOn DEF CommentsFit
  <1>14. KeepsRows(c, w)
    <2>1. HoldsRow(w)'  BY <1>7 DEF HoldsRow
    <2> QED BY <1>4, <1>11, <2>1 DEF KeepsRows
  <1>15. Announces(c, w)
    <2>1. ~Told(w)'  BY <1>8 DEF Told
    <2> QED BY <1>4, <2>1 DEF Announces
  <1>16. ASSUME NEW k \in SummaryKeys PROVE MovesBy(k, c)
    BY <1>4, <1>7, <1>11, <1>13, StaysPut DEF PendingAt, Standers
  <1> QED BY <1>13, <1>14, <1>15, <1>16, StepKeeps DEF StepFitsIn

\* Notifications are read: nothing else sees it.
LEMMA RestStays ==
    ASSUME EngInv, UNCHANGED <<call, video, remark, rows, count, engFaults, lost, overlapped, redeleted>>,
           notices' \subseteq NoticeRecs, \A x : (\E n \in notices' : n.call = x) <=> (\E n \in notices : n.call = x)
    PROVE  EngInv'
  <1>1. EngBase'  BY DEF EngInv, EngBase, EngTypes, AboutFits, StepFits, CommentsFit
  <1>2. \A c \in Calls : Overlapping(c)' <=> Overlapping(c)  BY DEF Overlapping, ClipOf
  <1>3. DeedsAreAlone'  BY <1>2 DEF EngInv, DeedsAreAlone, Running
  <1>4. \A c \in Calls : HoldsRow(call[c])' <=> HoldsRow(call[c])  BY DEF HoldsRow
  <1>5. RowsAreHeld'  BY <1>2, <1>4 DEF EngInv, RowsAreHeld
  <1>6. ASSUME NEW k \in SummaryKeys PROVE Tallies(k)'
    <2>1. \A c \in Calls : Pending(c)' = Pending(c)  BY DEF Pending, CountersOf
    <2>2. Raising(k)' = Raising(k) /\ Lowering(k)' = Lowering(k)  BY <2>1 DEF Raising, Lowering
    <2>3. Standers(k)' = Standers(k)  BY DEF Standers
    <2>4. Undisturbed(k)' <=> Undisturbed(k)  BY DEF Undisturbed
    <2>5. Tallies(k)  BY DEF EngInv
    <2> QED BY <2>2, <2>3, <2>4, <2>5 DEF Tallies, Surplus
  <1>7. EveryDeedIsAnnounced'  BY AnnouncedIs, AnnouncedIsNext DEF Told, Addressee, EngInv
  <1> QED BY <1>1, <1>3, <1>5, <1>6, <1>7 DEF EngInv

\* A notification is read, or all of a user's are.
LEMMA ReadsKeep ==
    ASSUME EngInv, NEW u \in People, MarkAllNotificationsRead(u) \/ \E n \in notices : MarkNotificationRead(u, n)
    PROVE  EngInv'
  <1>0. notices \subseteq NoticeRecs  BY DEF EngInv, EngBase, EngTypes
  <1>1. ASSUME NEW n \in notices, MarkNotificationRead(u, n) PROVE EngInv'
    <2> DEFINE new == [n EXCEPT !.read = TRUE]
    <2>1. new \in NoticeRecs /\ new.call = n.call  BY <1>0 DEF NoticeRecs
    <2>2. /\ notices' = (notices \ {n}) \cup {new}
          /\ UNCHANGED <<call, video, remark, rows, count, engFaults, lost, overlapped, redeleted>>
      BY <1>1 DEF MarkNotificationRead, engGhosts
    <2> HIDE DEF new
    <2> QED BY <1>0, <2>1, <2>2, RestStays
  <1>2. CASE MarkAllNotificationsRead(u)
    <2> DEFINE Seen(n) == [n EXCEPT !.read = @ \/ n.to = u]
    <2>1. ASSUME NEW n \in notices PROVE Seen(n) \in NoticeRecs /\ Seen(n).call = n.call
      <3>1. (n.read \/ n.to = u) \in BOOLEAN  BY Zenon
      <3>2. n \in NoticeRecs  BY <1>0
      <3> DEFINE r == (n.read \/ n.to = u)
      <3>3. Seen(n) = [n EXCEPT !.read = r]  OBVIOUS
      <3>4. r \in BOOLEAN  BY <3>1
      <3> HIDE DEF r, Seen
      <3> QED BY <3>2, <3>3, <3>4 DEF NoticeRecs
    <2>2. /\ notices' = {Seen(n) : n \in notices}
          /\ UNCHANGED <<call, video, remark, rows, count, engFaults, lost, overlapped, redeleted>>
      BY <1>2 DEF MarkAllNotificationsRead, engGhosts
    <2> HIDE DEF Seen
    <2> QED BY <2>1, <2>2, RestStays
  <1> QED BY <1>1, <1>2

--------
\* The invariant holds to begin with.
LEMMA InitEng == EngInit => EngInv
  <1> SUFFICES ASSUME EngInit PROVE EngInv  OBVIOUS
  <1>1. PICK owner \in People, likers \in SUBSET People :
          /\ video \in [Clips -> {owner, "none"}]
          /\ rows = {"likes"} \X likers \X {v \in Clips : video[v] # "none"}
          /\ count = [k \in CounterKeys |-> IF k[1] = "likes" /\ video[k[2]] # "none" THEN Cardinality(likers) ELSE 0]
    BY DEF EngInit
  <1>2. /\ call = [c \in Calls |-> IdleCall] /\ remark = [m \in Remarks |-> NoRemark] /\ notices = {}
        /\ engFaults = 0 /\ lost = {} /\ overlapped = {} /\ redeleted = {}
    BY DEF EngInit
  <1>3. Cardinality(likers) \in Nat  BY FS_Subset, FS_CardinalityType, EngagementAssumption
  <1>4. IdleCall \in CallRecs /\ IdleCall.step = "idle" /\ IdleCall.kind = "none"
    BY DEF IdleCall, CallRecs, EngSteps, EngKinds
  <1>5. EngTypes  BY <1>1, <1>3, <1>2, <1>4, EngagementAssumption DEF Rows, EngTypes
  <1>6. EngBase  BY <1>2, <1>4, <1>5 DEF EngBase, AboutFits, StepFits, CommentsFit
  <1>7. DeedsAreAlone /\ RowsAreHeld  BY <1>2, <1>4 DEF DeedsAreAlone, RowsAreHeld, Running, HoldsRow
  <1>8. EveryDeedIsAnnounced  BY <1>2, <1>4 DEF EveryDeedIsAnnounced
  <1>9. ASSUME NEW k \in SummaryKeys PROVE Tallies(k)
    <2>1. Raising(k) = {} /\ Lowering(k) = {}  BY <1>2, <1>4 DEF Raising, Lowering, Pending
    <2>2. Cardinality(Standers(k)) = count[k]
      BY <1>1, SummaryIs, <1>2, EngagementAssumption, FS_EmptySet DEF Standers, NoRemark
    <2>3. Surplus(k) = 0  BY <1>5, <2>1, <2>2, FS_EmptySet, SummaryIs DEF Surplus, EngTypes
    <2> QED BY <2>3 DEF Tallies
  <1> QED BY <1>6, <1>7, <1>8, <1>9 DEF EngInv

\* Every step keeps it.
LEMMA NextEng == EngInv /\ [EngNext]_engVars => EngInv'
  <1> SUFFICES ASSUME EngInv, [EngNext]_engVars PROVE EngInv'  OBVIOUS
  <1>1. ASSUME NEW c \in Calls, NEW u \in People, NEW t \in People, FollowUser(c, u, t) \/ UnfollowUser(c, u, t) PROVE EngInv'
    BY <1>1, FollowsKeep
  <1>2. ASSUME NEW c \in Calls, NEW u \in People, NEW v \in Clips,
               LikeVideo(c, u, v) \/ ToggleBookmark(c, u, v) \/ ViewVideo(c, u, v) \/ UploadVideo(c, u, v)
        PROVE  EngInv'
    BY <1>2, TogglesKeep, LooksKeep, UploadKeeps
  <1>3. ASSUME NEW c \in Calls, NEW u \in People, NEW m \in Remarks,
               LikeComment(c, u, m) \/ DeleteComment(c, u, m) \/ PinComment(c, u, m)
        PROVE  EngInv'
    BY <1>3, TogglesKeep, LooksKeep
  <1>4. ASSUME NEW c \in Calls, NEW u \in People, NEW m \in Remarks, NEW v \in Clips, PostComment(c, u, v, m) PROVE EngInv'
    BY <1>4, PostKeeps
  <1>5. ASSUME NEW c \in Calls, UpdateCounter(c) \/ Notify(c) \/ RemoveRow(c) \/ MarkDeleted(c) \/ WritePin(c) \/ EndEarly(c)
        PROVE  EngInv'
    BY <1>5, UpdateKeeps, NotifyKeeps, RemoveKeeps, DeleteKeeps, PinKeeps, EndKeeps
  <1>6. ASSUME NEW u \in People, MarkAllNotificationsRead(u) \/ \E n \in notices : MarkNotificationRead(u, n) PROVE EngInv'
    BY <1>6, ReadsKeep
  <1>7. CASE UNCHANGED engVars  BY <1>7, RestStays DEF engVars, tables, engGhosts, EngInv, EngBase, EngTypes
  <1>8. CASE EngNext  BY <1>1, <1>2, <1>3, <1>4, <1>5, <1>6, <1>8 DEF EngNext
  <1> QED BY <1>7, <1>8

\* The invariant says what the runs check.
LEMMA EngFollows == EngInv => DeedsAreCounted
  <1> SUFFICES ASSUME EngInv PROVE DeedsAreCounted  OBVIOUS
  <1>1. TalliesFinite /\ (\A k \in SummaryKeys : Counted(k) = Cardinality(Standers(k)) /\ Tallies(k)) /\ EveryDeedIsAnnounced
    BY TalliesAreFinite, CountedIs DEF EngInv, EngBase
  <1>2. CountersExact  BY <1>1 DEF CountersExact, Undisturbed, Tallies, TalliesFinite, Surplus, AddsUp
  <1>3. FollowersNotUndercounted
    BY <1>1 DEF FollowersNotUndercounted, FollowKeys, SummaryKeys, CounterKeys, Tallies, Surplus, TalliesFinite
  <1> QED BY <1>1, <1>2, <1>3 DEF DeedsAreCounted

\* Nor does a variable of it lose its type.
LEMMA EngTyped == EngInv => EngTypeOK
  BY DEF EngInv, EngBase, EngTypes, EngTypeOK, CallRecs, RemarkRecs, NoticeRecs, IdleCall

--------
\* The components together (MCBackend): a behaviour is one of a component,
\* so each invariant holds whichever it is.

\* A step of the whole is, for each component, one of its steps or none.
LEMMA NextOfEach ==
    [Next]_vars => /\ [DMNext]_dmVars /\ [StreamNext]_streamVars /\ [ViewNext]_viewVars
                   /\ [ConvNext]_convVars /\ [EngNext]_engVars /\ [RoomNext]_roomVars
  BY DEF Next, vars, EngagementStep, MessagesStep, RoomStep, StreamStep, ViewerStep, ConversationStep

\* The stream and its viewers keep their invariants in the whole.
LEMMA StreamsInductive == Spec => [](StreamInv /\ ViewInv)
  <1>1. Init => StreamInv /\ ViewInv  BY InitStream, InitView DEF Init
  <1>2. StreamInv /\ ViewInv /\ [Next]_vars => (StreamInv /\ ViewInv)'  BY NextOfEach, NextStream, NextView
  <1> QED BY <1>1, <1>2, PTL DEF Spec

\* The variables of a stream keep their types and a listed session is that of a publisher who is
\* still there; what is shown of its viewers is never above the peak.
THEOREM StreamTypesHold == Spec => [](StreamTypeOK /\ ViewTypeOK)
  <1>1. StreamInv /\ ViewInv => StreamTypeOK /\ ViewTypeOK  BY StreamsFollow, ViewersFollow
  <1> QED BY <1>1, StreamsInductive, PTL

\* However callers of the stream's methods interleave, fail and find the copy expired, a stream has
\* one publisher and Redis what its row says, unless the races the property names happened; and
\* with any number of connections, however often the stream ends and comes back on air, none of
\* those listed as watching is missing from the count, unless an end deleted a count that was not
\* 0, a leave overtook its join or a store failed.
THEOREM StreamsStayServed == Spec => []StreamsAreServed
  <1>1. StreamInv /\ ViewInv => StreamsAreServed  BY StreamsFollow, ViewersFollow DEF StreamsAreServed
  <1> QED BY <1>1, StreamsInductive, PTL

\* So do the chats and the conversations.
LEMMA ChatsInductive == Spec => [](DMInv /\ ConvInv)
  <1>1. Init => DMInv /\ ConvInv  BY InitDM, InitConv DEF Init
  <1>2. DMInv /\ ConvInv /\ [Next]_vars => (DMInv /\ ConvInv)'  BY NextOfEach, NextDM, NextConv
  <1> QED BY <1>1, <1>2, PTL DEF Spec

\* However the requests of two users or of a group interleave, fail or stop between two statements,
\* the unread are what came since the mark, receipts agree with them, two users have one chat, the
\* list is ordered and reading page by page passes no message by, but for the races the property
\* names.
THEOREM ConversationsStayTrue == Spec => []ConversationsAreTrue
  <1>1. DMInv /\ ConvInv => ConversationsAreTrue  BY ChatsFollow, ConvFollows DEF ConversationsAreTrue
  <1> QED BY <1>1, ChatsInductive, PTL

\* Engagement does as well.
LEMMA DeedsInductive == Spec => []EngInv
  <1>1. Init => EngInv  BY InitEng DEF Init
  <1>2. EngInv /\ [Next]_vars => EngInv'  BY NextOfEach, NextEng
  <1> QED BY <1>1, <1>2, PTL DEF Spec

\* However follows, likes, comments and their opposites interleave, lose a statement or stop between
\* two, a counter and the updates still to come are the rows it stands for unless an update of it was
\* lost, two requests of one user met on one of its rows or a comment was deleted again; no user shows
\* fewer followers than the lists; and while nothing failed, exactly those who should be told are.
THEOREM DeedsStayCounted == Spec => []DeedsAreCounted
  <1>1. EngInv => DeedsAreCounted  BY EngFollows
  <1> QED BY <1>1, DeedsInductive, PTL

\* The variables of every component keep their types, and shown counts and listed sessions their
\* bounds, for any users, requests, rooms and lengths of queues: TypesOK, whichever component
\* a behaviour is of.
THEOREM BackendTypesHold == Spec => []TypesOK
  <1>1. Init => RoomInv  BY InitRoom DEF Init
  <1>2. RoomInv /\ [Next]_vars => RoomInv'  BY NextOfEach, NextRoom
  <1>3. Spec => []RoomInv  BY <1>1, <1>2, PTL DEF Spec
  <1>4. RoomInv => RoomTypeOK  BY DEF RoomInv, RoomTypes, ClosedAreLeaving, RoomTypeOK
  <1>5. RoomInv /\ ConvInv /\ StreamInv /\ ViewInv /\ DMInv /\ EngInv => TypesOK
    BY <1>4, ConvTyped, StreamsFollow, ViewersFollow, ChatsFollow, EngTyped DEF TypesOK
  <1> QED BY <1>3, <1>5, StreamsInductive, ChatsInductive, DeedsInductive, PTL

=====

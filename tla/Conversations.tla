---- MODULE Conversations ----
\* The conversations of the messaging-service: finding or making the one
\* of two users, groups and who is in them, sending, reading page by page,
\* and the read marks the unread counts are computed from.  The check of
\* who may do what, the statements that follow and the times they carry
\* are steps of their own; NOW() is the time a statement, or its
\* transaction, starts, not the time its row is seen, so an older time may
\* overwrite a newer one.  No two start in one microsecond.
EXTENDS Integers, FiniteSets, FiniteSetsExt, Sequences

CONSTANTS
    ConvCalls,        \* requests; a message is known by the request that sent it
    Partners,         \* users
    PageSize,         \* messages on one page
    MaxConvFaults     \* statements that fail, processes that stop (bounds them)

ASSUME ConversationAssumption ==
    PageSize \in Nat \ {0} /\ MaxConvFaults \in Nat /\ IsFiniteSet(ConvCalls)

VARIABLES
    rooms,            \* conversations with their participants, in the order they were made
    posts,            \* messages
    receipts,         \* message_read_receipts
    convCall,         \* what each request does
    microsecond,      \* the time the last statement started
    known,            \* messages in the room when the user marked it read or joined it
    overlaid,         \* messages being written when a user took a read mark or joined
    between,          \* users messages came for during one of their MarkAsReads or joinings
    crossedMarks,     \* users with two read marks of one conversation under way at once
    crossedBumps,     \* conversations that two requests moved up at once
    soughtAtOnce,     \* a conversation was looked for while another request was about to make one
    convFaults

races == <<crossedMarks, crossedBumps, soughtAtOnce>>
convVars == <<rooms, posts, receipts, convCall, microsecond, known, overlaid, between, races, convFaults>>

Roles == {"none", "member", "owner"}
NoPost == [room |-> 0, by |-> {}, at |-> 0, deleted |-> FALSE]
ConvSteps == {"new", "create", "check", "insert", "bump", "mark", "receipts", "add", "remove", "page", "ended"}
ConvKinds == {"find", "send", "read", "add", "remove", "walk"}
Untouched == [step |-> "new", kind |-> "find", by |-> {}, room |-> 0, whom |-> {}, at |-> 0, had |-> {}, got |-> {}]
Over == [Untouched EXCEPT !.step = "ended"]
Room(type, role) == [type |-> type, role |-> role, read |-> [u \in Partners |-> 0], bumped |-> 0]

\* There is nothing yet, or the conversation of two users, or a group.
ConvInit ==
    /\ \E type \in {"none", "direct", "group"}, u \in Partners :
          rooms = IF type = "none" THEN <<>>
                  ELSE <<Room(type, [w \in Partners |-> IF type = "group" /\ w = u THEN "owner" ELSE "member"])>>
    /\ posts = [c \in ConvCalls |-> NoPost] /\ receipts = {}
    /\ convCall = [c \in ConvCalls |-> Untouched]
    /\ microsecond = 0 /\ known = {} /\ overlaid = {} /\ between = {}
    /\ crossedMarks = {} /\ crossedBumps = {} /\ soughtAtOnce = FALSE /\ convFaults = 0

--------
ConvAt(c, step) == convCall[c].step = step
ConvGoes(c, step) == convCall' = [convCall EXCEPT ![c] = IF step = "ended" THEN Over ELSE [@ EXCEPT !.step = step]]
ConvSets(c, call) ==
    /\ ConvAt(c, "new")
    /\ convCall' = [convCall EXCEPT ![c] = call]
    /\ UNCHANGED <<rooms, posts, receipts, microsecond, known, overlaid, between, crossedMarks, crossedBumps, convFaults>>
ConvBegins(c, call) == ConvSets(c, call) /\ UNCHANGED soughtAtOnce
StatementStarts == microsecond' = microsecond + 1

RoomIds == DOMAIN rooms
InRoom(r, u) == rooms[r].role[u] # "none"
PostsIn(r) == {m \in ConvCalls : posts[m].room = r}
BeingWritten(r) == {m \in ConvCalls : ConvAt(m, "insert") /\ convCall[m].room = r /\ convCall[m].at # 0}
Only(S) == CHOOSE x \in S : TRUE

\* GetConversationByParticipants: a direct conversation both are in.
OfBoth == {r \in RoomIds : rooms[r].type = "direct" /\ \A u \in Partners : InRoom(r, u)}
FindOrCreateConversation(c) ==
    \E u \in Partners :
        /\ ConvSets(c, IF OfBoth # {} THEN Over ELSE [Untouched EXCEPT !.step = "create", !.by = {u}])
        /\ soughtAtOnce' = (soughtAtOnce \/ \E w \in ConvCalls : ConvAt(w, "create"))

\* One transaction, whose start nothing else of the conversation can precede; the participants have
\* read up to it.
Joined(room, who, role, at) ==
    [room EXCEPT !.role = [u \in Partners |-> IF u \in who THEN role ELSE room.role[u]],
                 !.read = [u \in Partners |-> IF u \in who THEN at ELSE room.read[u]]]
Empty(type) == Room(type, [u \in Partners |-> "none"])
InsertConversation(c) ==
    /\ ConvAt(c, "create") /\ StatementStarts
    /\ rooms' = Append(rooms, Joined(Empty("direct"), Partners, "member", microsecond + 1))
    /\ ConvGoes(c, "ended")
    /\ UNCHANGED <<posts, receipts, known, overlaid, between, races, convFaults>>

\* The creator is the owner; the others named are members.
CreateGroup(c) ==
    /\ ConvAt(c, "new") /\ StatementStarts
    /\ \E u \in Partners, others \in SUBSET Partners :
          rooms' = Append(rooms, Joined(Joined(Empty("group"), others, "member", microsecond + 1),
                                        {u}, "owner", microsecond + 1))
    /\ ConvGoes(c, "ended")
    /\ UNCHANGED <<posts, receipts, known, overlaid, between, races, convFaults>>

\* IsParticipant.
Enters(c, kind, step) ==
    \E r \in RoomIds, u \in Partners :
        /\ InRoom(r, u)
        /\ ConvBegins(c, [Untouched EXCEPT !.step = step, !.kind = kind, !.by = {u}, !.room = r,
                                         !.had = IF kind = "walk" THEN PostsIn(r) ELSE {}])
SendToConversation(c) == Enters(c, "send", "insert")
MarkRead(c) == Enters(c, "read", "mark")
GetConversationMessages(c) == Enters(c, "walk", "page")

\* isMemberWithRole; nothing makes anyone an admin.
MayManage == {"owner"}

AddGroupMembers(c) ==
    \E r \in RoomIds, u \in Partners, who \in Partners :
        /\ rooms[r].role[u] \in MayManage
        /\ ConvBegins(c, [Untouched EXCEPT !.step = "add", !.kind = "add", !.by = {u}, !.room = r, !.whom = {who}])
RemoveGroupMember(c) ==
    \E r \in RoomIds, u \in Partners, who \in Partners :
        /\ u # who => rooms[r].role[u] \in MayManage
        /\ ConvBegins(c, [Untouched EXCEPT !.step = "remove", !.kind = "remove", !.by = {u}, !.room = r, !.whom = {who}])

--------
\* Whose read mark a request sets, and the statements that write a time they were given earlier.
MarkOf(c) == IF convCall[c].kind = "read" THEN convCall[c].by ELSE convCall[c].whom
Writing(steps, r) == {c \in ConvCalls : convCall[c].step \in steps /\ convCall[c].at # 0 /\ convCall[c].room = r}
Marks == {"mark", "add"}
Bumps == {"bump", "add"}

\* A statement, or the transaction it is in, starts; what it writes is seen when it is committed.
\* From now on the reader has the posts before them that are there, but not those being written.
TakeStamp(c) ==
    LET r == convCall[c].room
        marking == IF convCall[c].step \in Marks THEN Writing(Marks, r) ELSE {}
        bumping == IF convCall[c].step \in Bumps THEN Writing(Bumps, r) ELSE {}
    IN /\ convCall[c].step \in {"insert"} \cup Marks \cup Bumps /\ convCall[c].at = 0 /\ StatementStarts
       /\ convCall' = [convCall EXCEPT ![c].at = microsecond + 1, ![c].had = PostsIn(r), ![c].got = BeingWritten(r)]
       /\ crossedMarks' = crossedMarks \cup (MarkOf(c) \cap UNION {MarkOf(w) : w \in marking})
       /\ crossedBumps' = IF bumping = {} THEN crossedBumps ELSE crossedBumps \cup {r}
       /\ UNCHANGED <<rooms, posts, receipts, known, overlaid, between, soughtAtOnce, convFaults>>

InsertMessage(c) ==
    LET call == convCall[c]
        marking == Writing(Marks \cup {"receipts"}, call.room)
    IN /\ ConvAt(c, "insert") /\ call.at # 0
       /\ posts' = [posts EXCEPT ![c] = [room |-> call.room, by |-> call.by, at |-> call.at, deleted |-> FALSE]]
       /\ between' = between \cup UNION {MarkOf(w) : w \in marking}
       /\ convCall' = [convCall EXCEPT ![c].step = "bump", ![c].at = 0]
       /\ UNCHANGED <<rooms, receipts, microsecond, known, overlaid, races, convFaults>>
BumpConversation(c) ==
    /\ ConvAt(c, "bump") /\ convCall[c].at # 0
    /\ rooms' = [rooms EXCEPT ![convCall[c].room].bumped = convCall[c].at]
    /\ ConvGoes(c, "ended")
    /\ UNCHANGED <<posts, receipts, microsecond, known, overlaid, between, races, convFaults>>

\* Only the sender; the row stays.
DeleteMessage(c) ==
    /\ ConvAt(c, "new")
    /\ \E m \in ConvCalls : posts[m].room # 0 /\ ~posts[m].deleted /\ posts' = [posts EXCEPT ![m].deleted = TRUE]
    /\ ConvGoes(c, "ended")
    /\ UNCHANGED <<rooms, receipts, microsecond, known, overlaid, between, races, convFaults>>

\* The user has had what was there when the statement of c started.
Notes(u, c) ==
    /\ known' = known \cup ({u} \X convCall[c].had)
    /\ overlaid' = overlaid \cup ({u} \X convCall[c].got)

\* The two statements of MarkAsRead.
UpdateLastRead(c) ==
    LET r == convCall[c].room
        u == Only(convCall[c].by)
    IN /\ ConvAt(c, "mark") /\ convCall[c].at # 0
       /\ IF InRoom(r, u)
          THEN rooms' = [rooms EXCEPT ![r].read[u] = convCall[c].at] /\ Notes(u, c)
          ELSE UNCHANGED <<rooms, known, overlaid>>
       /\ ConvGoes(c, "receipts")
       /\ UNCHANGED <<posts, receipts, microsecond, between, races, convFaults>>
InsertReceipts(c) ==
    LET u == Only(convCall[c].by)
    IN /\ ConvAt(c, "receipts")
       /\ receipts' = receipts \cup {<<u, m>> : m \in {p \in PostsIn(convCall[c].room) : u \notin posts[p].by /\ ~posts[p].deleted}}
       /\ ConvGoes(c, "ended")
       /\ UNCHANGED <<rooms, posts, microsecond, known, overlaid, between, races, convFaults>>

\* ON CONFLICT DO NOTHING: who is in stays as they are.
InsertMember(c) ==
    LET r == convCall[c].room
        u == Only(convCall[c].whom)
        at == convCall[c].at
    IN /\ ConvAt(c, "add") /\ at # 0
       /\ rooms' = [rooms EXCEPT ![r] = [(IF InRoom(r, u) THEN @ ELSE Joined(@, {u}, "member", at)) EXCEPT !.bumped = at]]
       /\ IF InRoom(r, u) THEN UNCHANGED <<known, overlaid>> ELSE Notes(u, c)
       /\ ConvGoes(c, "ended")
       /\ UNCHANGED <<posts, receipts, microsecond, between, races, convFaults>>
DeleteMember(c) ==
    /\ ConvAt(c, "remove")
    /\ rooms' = [rooms EXCEPT ![convCall[c].room].role[Only(convCall[c].whom)] = "none"]
    /\ ConvGoes(c, "ended")
    /\ UNCHANGED <<posts, receipts, microsecond, known, overlaid, between, races, convFaults>>

\* Earlier than the cursor, if there is one.
Earlier(at) == {t \in 0..microsecond : at = 0 \/ t < at}

\* A page from the newest on; each page checks that the reader is still in.
ReadPage(c) ==
    LET call == convCall[c]
        here == {m \in PostsIn(call.room) : posts[m].at \in Earlier(call.at)}
        page == {m \in here : Cardinality({n \in here : posts[n].at > posts[m].at}) < PageSize}
        got == call.got \cup page
    IN /\ ConvAt(c, "page")
       /\ \E u \in call.by :
             convCall' = [convCall EXCEPT ![c] =
                 IF ~InRoom(call.room, u) THEN Over
                 ELSE IF page = here THEN [@ EXCEPT !.step = "ended", !.got = got, !.at = 0]
                 ELSE [@ EXCEPT !.at = Min({posts[m].at : m \in page}), !.got = got]]
       /\ UNCHANGED <<rooms, posts, receipts, microsecond, known, overlaid, between, races, convFaults>>

\* A statement fails or the process stops; a conversation that is not bumped is only logged.
ConvCallFails(c) ==
    /\ convCall[c].step \notin {"new", "ended"} /\ convFaults < MaxConvFaults
    /\ ConvGoes(c, "ended") /\ convFaults' = convFaults + 1
    /\ UNCHANGED <<rooms, posts, receipts, microsecond, known, overlaid, between, races>>

ConvNext ==
    \E c \in ConvCalls :
        \/ FindOrCreateConversation(c) \/ InsertConversation(c) \/ CreateGroup(c) \/ SendToConversation(c) \/ MarkRead(c)
        \/ GetConversationMessages(c) \/ AddGroupMembers(c) \/ RemoveGroupMember(c) \/ TakeStamp(c) \/ InsertMessage(c)
        \/ BumpConversation(c) \/ DeleteMessage(c) \/ UpdateLastRead(c) \/ InsertReceipts(c)
        \/ InsertMember(c) \/ DeleteMember(c) \/ ReadPage(c) \/ ConvCallFails(c)

ConvSpec == ConvInit /\ [][ConvNext]_convVars

--------
\* Properties.

ConvTypeOK ==
    /\ \A r \in RoomIds : rooms[r] \in [type : {"direct", "group"}, role : [Partners -> Roles],
                                        read : [Partners -> Nat], bumped : Nat]
    /\ posts \in [ConvCalls -> [room : {0} \cup RoomIds, by : SUBSET Partners, at : Nat, deleted : BOOLEAN]]
    /\ convCall \in [ConvCalls -> [step : ConvSteps, kind : ConvKinds, by : SUBSET Partners,
                                   room : {0} \cup RoomIds, whom : SUBSET Partners, at : Nat,
                                   had : SUBSET ConvCalls, got : SUBSET ConvCalls]]
    /\ receipts \cup known \cup overlaid \subseteq Partners \X ConvCalls
    /\ between \cup crossedMarks \subseteq Partners /\ crossedBumps \subseteq RoomIds /\ soughtAtOnce \in BOOLEAN
    /\ microsecond \in Nat /\ convFaults \in 0..MaxConvFaults

ToRead(r, u) == {m \in PostsIn(r) : u \notin posts[m].by /\ ~posts[m].deleted}

\* GetUnreadCount.
Unread(r, u) == {m \in ToRead(r, u) : posts[m].at > rooms[r].read[u]}
ConvsAt(steps) == {c \in ConvCalls : convCall[c].step \in steps}

\* The messages that came since a participant last read or joined are the unread ones, and what was
\* read once is never unread again.  It is so but for the messages that were being written at that
\* moment, which are never counted, and for who marked a conversation read, or was added to it, by
\* two requests at once: the older of their times may be written last.
UnreadIsTrue ==
    \A r \in RoomIds, u \in Partners :
        InRoom(r, u) /\ u \notin crossedMarks => \A m \in ToRead(r, u) :
            <<u, m>> \notin overlaid => (m \in Unread(r, u)) = (<<u, m>> \notin known)

\* What has a receipt is not counted as unread, unless a message came while the reader was marking
\* the conversation read or being added to it.
ReceiptsAgree ==
    \A r \in RoomIds, u \in Partners :
        InRoom(r, u) /\ u \notin between => \A m \in Unread(r, u) : <<u, m>> \notin receipts

\* Two users have one conversation, unless one of them looked for it while a request of the other,
\* or another of the same one, had found none and not yet made it.
OneConversation == ~soughtAtOnce => Cardinality(OfBoth) <= 1

\* A conversation stands in the list where its newest message puts it, or a later addition to it,
\* unless two requests moved it up at once.
ListIsOrdered ==
    convFaults = 0 => \A r \in RoomIds \ crossedBumps : ConvsAt({"bump"}) = {} => \A m \in PostsIn(r) : posts[m].at < rooms[r].bumped

\* Who has read all pages has had every message that was there when they began.
PagesAreWhole == \A c \in ConvsAt({"ended"}) : convCall[c].had \subseteq convCall[c].got

ConversationsAreKept == UnreadIsTrue /\ ReceiptsAgree /\ OneConversation /\ ListIsOrdered /\ PagesAreWhole

=====

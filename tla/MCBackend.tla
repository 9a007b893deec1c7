---- MODULE MCBackend ----
\* Components that share no state, checked in one run: the deployed
\* backend's engagement and conversations, the livestream-service's rooms,
\* streams and viewers, and the messaging-service's conversations.  A
\* behaviour is one of theirs.
EXTENDS Engagement, DirectMessages, LiveRoom, LiveStreams, Conversations, TLC

CONSTANTS a1, a2, a3, b1, b2, u1, Components

VARIABLE active
vars == <<active, engVars, dmVars, roomVars, streamVars, viewVars, convVars>>

Init ==
    /\ active \in Components
    /\ EngInit /\ DMInit /\ RoomInit /\ StreamInit /\ ViewInit /\ ConvInit
    \* What is not in use starts in one way.
    /\ active # "engagement" => \A v \in Clips : video[v] = "none"
    /\ active # "streams" => stream = NoStream
    /\ active # "viewers" => onAir
    /\ active # "conversations" => rooms = <<>>

EngagementStep ==
    active = "engagement" /\ EngNext /\ UNCHANGED <<active, dmVars, roomVars, streamVars, viewVars, convVars>>
MessagesStep ==
    active = "messages" /\ DMNext /\ UNCHANGED <<active, engVars, roomVars, streamVars, viewVars, convVars>>
RoomStep ==
    active = "room" /\ RoomNext /\ UNCHANGED <<active, engVars, dmVars, streamVars, viewVars, convVars>>
StreamStep ==
    active = "streams" /\ StreamNext /\ UNCHANGED <<active, engVars, dmVars, roomVars, viewVars, convVars>>
ViewerStep ==
    active = "viewers" /\ ViewNext /\ UNCHANGED <<active, engVars, dmVars, roomVars, streamVars, convVars>>
ConversationStep ==
    active = "conversations" /\ ConvNext /\ UNCHANGED <<active, engVars, dmVars, roomVars, streamVars, viewVars>>

Next == EngagementStep \/ MessagesStep \/ RoomStep \/ StreamStep \/ ViewerStep \/ ConversationStep

Spec == Init /\ [][Next]_vars

\* Connections b1 and b2 are tabs of one user.
TheUser == [w \in Watchers |-> u1]
TheComponents == {"engagement", "messages", "room", "streams", "viewers", "conversations"}
Symmetry == Permutations({a1, a2, a3}) \cup Permutations({b1, b2})

\* The type invariant of the component in use; nothing of the others changes.
TypesOK ==
    CASE active = "engagement" -> EngTypeOK
      [] active = "messages" -> DMTypeOK
      [] active = "room" -> RoomTypeOK
      [] active = "streams" -> StreamTypeOK
      [] active = "conversations" -> ConvTypeOK
      [] OTHER -> ViewTypeOK

\* A chat of the backend belongs to the two it was made for, and in the messaging-service what is
\* unread is what came since a participant last read.
ConversationsAreTrue ==
    /\ active = "messages" => ChatsBelongToTheirTwo
    /\ active = "conversations" => ConversationsAreKept

\* A stream has one publisher and Redis what its row says; and those who watch it are counted.
StreamsAreServed ==
    /\ active = "streams" => StreamsAreTrue
    /\ active = "viewers" => TheListedAreCounted

=====

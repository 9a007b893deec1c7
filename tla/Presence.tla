---- MODULE Presence ----
\* The presence tracker of the Redis library.  A behaviour is about one
\* user with several devices: the key that tells what is known of them,
\* and the score of their last heartbeat in presence:online; or about one
\* of the sorted sets of users in a room, at a video, in a live stream, or
\* typing, which are alike: entering is ZADD and then EXPIRE, in a
\* pipeline that other commands come between.
\*
\* A key exists while the clock is below its end.
EXTENDS Integers, FiniteSets

CONSTANTS
    PresCalls,         \* requests
    Gadgets,           \* devices of the user, or the users of the set
    OnlineThreshold, PresenceTTL, MemberTTL,
    MaxTick,           \* bounds the clock
    MaxPresFaults      \* commands that fail (bounds them)

ASSUME PresenceAssumption ==
    /\ {OnlineThreshold, PresenceTTL, MemberTTL} \subseteq Nat \ {0} /\ OnlineThreshold < PresenceTTL
    /\ MaxTick \in Nat /\ MaxPresFaults \in Nat

VARIABLES
    about,             \* "user" or "members"
    tick,
    record,            \* presence:<user>
    onlineScore,       \* the user in presence:online, -1 for nothing
    member,            \* the sorted set: a score, or -1
    memberEnd,         \* when the set expires; 0 if it has no end
    presCall,          \* what each request does
    beaten,            \* the last heartbeat, -1 if the user went offline since, or did while it came
    entered,           \* when each user last entered the set; -1 after they left, or for never
    slipped,           \* users whose entry went with an old set before its end was moved
    presFaults

presVars == <<about, tick, record, onlineScore, member, memberEnd, presCall, beaten, entered, slipped, presFaults>>

NoRecord == [status |-> "none", end |-> 0]
Forever == MaxTick + PresenceTTL + 1
PresSteps == {"new", "offline", "expire", "answer", "ended"}
Resting == [step |-> "new", known |-> FALSE, who |-> {}]

PresInit ==
    /\ about \in {"user", "members"} /\ tick = 0
    /\ record = NoRecord /\ onlineScore = -1 /\ beaten = -1
    /\ member = [u \in Gadgets |-> -1] /\ entered = member /\ memberEnd = 0
    /\ presCall = [c \in PresCalls |-> Resting]
    /\ slipped = {} /\ presFaults = 0

--------
Stored == tick < record.end
IsOnline == onlineScore >= 0 /\ tick - onlineScore <= OnlineThreshold

\* GetPresence and GetBulkPresence: what is known of a user, with a status from the score.
GetPresence ==
    IF ~Stored \/ onlineScore < 0 THEN "offline"
    ELSE IF tick - onlineScore <= OnlineThreshold THEN "online" ELSE "away"

PresEnds(c) == presCall' = [presCall EXCEPT ![c] = [Resting EXCEPT !.step = "ended"]]

\* Heartbeat: one script for both keys.
Heartbeat(c) ==
    /\ about = "user" /\ presCall[c].step = "new"
    /\ record' = [status |-> "online", end |-> tick + PresenceTTL]
    /\ onlineScore' = tick
    /\ beaten' = IF \E o \in PresCalls : presCall[o].step = "offline" THEN -1 ELSE tick
    /\ PresEnds(c)
    /\ UNCHANGED <<about, tick, member, memberEnd, entered, slipped, presFaults>>

\* SetOffline reads what is known; its transaction writes it back and removes the score, whichever
\* device has sent a heartbeat since.
SetOffline(c) ==
    /\ about = "user" /\ presCall[c].step = "new"
    /\ presCall' = [presCall EXCEPT ![c].step = "offline", ![c].known = Stored]
    /\ beaten' = -1
    /\ UNCHANGED <<about, tick, record, onlineScore, member, memberEnd, entered, slipped, presFaults>>

ScoreRemoved == -1
WriteOffline(c) ==
    /\ presCall[c].step = "offline"
    /\ record' = IF presCall[c].known THEN [status |-> "offline", end |-> Forever] ELSE record
    /\ onlineScore' = ScoreRemoved /\ beaten' = -1
    /\ PresEnds(c)
    /\ UNCHANGED <<about, tick, member, memberEnd, entered, slipped, presFaults>>

PruneStaleOnlineUsers ==
    /\ onlineScore >= 0 /\ onlineScore <= tick - PresenceTTL
    /\ onlineScore' = -1
    /\ UNCHANGED <<about, tick, record, member, memberEnd, presCall, beaten, entered, slipped, presFaults>>

--------
\* JoinRoom, StartWatching, JoinLiveStream, StartTyping, and what refreshes them.
Enter(c) ==
    /\ about = "members" /\ presCall[c].step = "new"
    /\ \E u \in Gadgets :
          /\ presCall' = [presCall EXCEPT ![c].step = "expire", ![c].who = {u}]
          /\ member' = [member EXCEPT ![u] = tick] /\ entered' = [entered EXCEPT ![u] = tick]
          /\ slipped' = slipped \ {u}
    /\ UNCHANGED <<about, tick, record, onlineScore, memberEnd, beaten, presFaults>>

Members == {u \in Gadgets : member[u] >= 0}
\* EXPIRE moves the end of a set that is there.
MoveEnd(c) ==
    /\ presCall[c].step = "expire"
    /\ memberEnd' = IF Members = {} THEN memberEnd ELSE tick + MemberTTL
    /\ PresEnds(c)
    /\ UNCHANGED <<about, tick, record, onlineScore, member, beaten, entered, slipped, presFaults>>

\* Those who are taken out; a set without members is gone, with its end.
Without(S) ==
    /\ member' = [u \in Gadgets |-> IF u \in S THEN -1 ELSE member[u]]
    /\ memberEnd' = IF Members \subseteq S THEN 0 ELSE memberEnd
Leave(c) ==
    /\ about = "members" /\ presCall[c].step = "new"
    /\ \E u \in Members : Without({u}) /\ entered' = [entered EXCEPT ![u] = -1]
    /\ PresEnds(c)
    /\ UNCHANGED <<about, tick, record, onlineScore, beaten, slipped, presFaults>>

\* PruneRoomMembers, and GetTypingUsers before it lists.
Old == {u \in Members : member[u] <= tick - MemberTTL}
PruneMembers ==
    /\ Old # {} /\ Without(Old)
    /\ UNCHANGED <<about, tick, record, onlineScore, presCall, beaten, entered, slipped, presFaults>>

\* CountActiveViewers leaves out the old ones; the other lists and counts have all.
ActiveViewers == Members \ {u \in Members : member[u] < tick - MemberTTL}

--------
\* Time passes; a set whose end has come is gone.
Tick ==
    /\ tick < MaxTick /\ tick' = tick + 1
    /\ IF memberEnd # 0 /\ tick' >= memberEnd
       THEN /\ Without(Members)
            /\ slipped' = slipped \cup UNION {presCall[c].who : c \in PresCalls}
       ELSE UNCHANGED <<member, memberEnd, slipped>>
    /\ UNCHANGED <<about, record, onlineScore, presCall, beaten, entered, presFaults>>

PresCallFails(c) ==
    /\ presCall[c].step \notin {"new", "ended"} /\ presFaults < MaxPresFaults
    /\ PresEnds(c) /\ presFaults' = presFaults + 1
    /\ UNCHANGED <<about, tick, record, onlineScore, member, memberEnd, beaten, entered, slipped>>

PresNext ==
    \/ \E c \in PresCalls :
          \/ Heartbeat(c) \/ SetOffline(c) \/ WriteOffline(c)
          \/ Enter(c) \/ MoveEnd(c) \/ Leave(c) \/ PresCallFails(c)
    \/ PruneStaleOnlineUsers \/ PruneMembers \/ Tick

PresSpec == PresInit /\ [][PresNext]_presVars

--------
\* Properties.

PresTypeOK ==
    /\ about \in {"user", "members"} /\ tick \in 0..MaxTick
    /\ record \in [status : {"none", "online", "offline"}, end : 0..Forever]
    /\ onlineScore \in -1..MaxTick /\ beaten \in -1..MaxTick
    /\ member \in [Gadgets -> -1..MaxTick] /\ entered \in [Gadgets -> -1..MaxTick]
    /\ memberEnd \in 0..(MaxTick + MemberTTL)
    /\ \A c \in PresCalls : presCall[c].step \in PresSteps /\ presCall[c].who \subseteq Gadgets
    /\ slipped \subseteq Gadgets /\ presFaults \in 0..MaxPresFaults

\* The two ways to ask whether a user is online agree, though one of them needs the key and the
\* other one the score only.
AnswersAgree == IsOnline = (GetPresence = "online")

\* A user is online for the threshold after a heartbeat of any device, unless one went offline
\* later or at that time; and nobody is online who went offline and sent none since.
BeatsCount ==
    about = "user" =>
        /\ beaten >= 0 /\ tick - beaten <= OnlineThreshold => IsOnline
        /\ (IsOnline /\ \A c \in PresCalls : presCall[c].step # "offline") /\ presFaults = 0 => beaten >= 0

\* Whoever has entered within the time to live, and not left, is in the set, unless the set ended
\* between the two commands of the entry; a set has an end when no request is between them.
MembersAreListed ==
    about = "members" /\ presFaults = 0 =>
        /\ \A u \in Gadgets \ slipped : entered[u] >= 0 /\ tick - entered[u] < MemberTTL => u \in ActiveViewers
        /\ (\A c \in PresCalls : presCall[c].step # "expire") =>
               Members = {} \/ memberEnd > tick

PresenceIsTrue == AnswersAgree /\ BeatsCount /\ MembersAreListed

=====

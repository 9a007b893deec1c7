---- MODULE Interactions ----
\* Likes and replies as three services keep them, each beside the others
\* with statements and keys of its own: the like-service (a row, a counter
\* in a table, a counter in Redis that never expires), the comment-service
\* (a row and the comment's counters), and the interaction-service (a row
\* and a cached count for videos, one transaction for comments).
\*
\* The subject is one video or one comment.  A request executes one
\* statement at a time.
EXTENDS Integers, FiniteSets

CONSTANTS
    Fans,             \* users
    Acts,             \* requests
    MaxActFaults      \* statements and calls that fail, keys that Redis loses (bounds them)

ASSUME InteractionAssumption == IsFiniteSet(Fans) /\ IsFiniteSet(Acts) /\ MaxActFaults \in Nat

\* No key: no count is that far below zero.
NoKey == -100
Keepers == {"like", "comment", "interaction", "transaction"}

VARIABLES
    keeper,           \* who keeps the likes: "transaction" is the interaction-service for comments
    marks,            \* users with a row: video_likes or comment_likes
    tally,            \* the counter in a table: video_like_counts or comments.like_count
    cache,            \* Redis: the count, or NoKey
    announced,        \* likes announced on Kafka, less the unlikes
    replies, erased,  \* replies to the comment by author; those deleted
    replyCount,       \* comments.reply_count
    act,              \* what each request does
    repeated,         \* somebody liked what they had liked, or took back what they had not
    clamped,          \* a counter would have gone below zero
    cold,             \* Redis counted from nothing
    mixed,            \* the cache was filled while a like was on its way to it
    stale,            \* the cache was filled with a count that was no longer true
    actFaults

actVars == <<keeper, marks, tally, cache, announced, replies, erased, replyCount, act, repeated, clamped,
             cold, mixed, stale, actFaults>>

ActSteps == {"new", "count", "cache", "announce", "read", "fill", "replycount", "ended"}
Deeds == {"like", "unlike", "look", "reply"}

ActInit ==
    /\ keeper \in Keepers /\ marks \in SUBSET Fans /\ tally = Cardinality(marks)
    /\ cache \in {NoKey} \cup (IF keeper \in {"like", "interaction"} THEN {tally} ELSE {})
    /\ announced = Cardinality(marks) /\ replies = {} /\ erased = {} /\ replyCount = 0
    /\ act = [a \in Acts |-> [step |-> "new", deed |-> "like", who |-> "none", saw |-> 0, raced |-> FALSE]]
    /\ repeated = FALSE /\ clamped = FALSE /\ cold = FALSE /\ mixed = FALSE /\ stale = FALSE
    /\ actFaults = 0

--------
Under(steps, deed) == {a \in Acts : act[a].step \in steps /\ act[a].deed = deed}
Reaches(a, step) == act' = [act EXCEPT ![a].step = step]
\* Those about to fill the cache have read before this.
Raced == [b \in Acts |-> IF act[b].step = "fill" THEN [act[b] EXCEPT !.raced = TRUE] ELSE act[b]]
Starts(a, deed, u, step) ==
    /\ act[a].step = "new"
    /\ act' = [Raced EXCEPT ![a] = [step |-> step, deed |-> deed, who |-> u, saw |-> 0, raced |-> FALSE]]

\* The row; the interaction-service has no counter of its own for videos.
AfterRow == IF keeper = "interaction" THEN "cache" ELSE "count"
Unmoved == <<keeper, replies, erased, replyCount>>

Up(n) == n + 1
Down(n) == IF n = 0 THEN 0 ELSE n - 1

\* LikeVideo and LikeComment.  A row that is there stays: the like-service refuses then, the
\* others go on.
Like(a, u) ==
    /\ IF u \in marks /\ keeper = "like" THEN Starts(a, "like", u, "ended") /\ UNCHANGED repeated
       ELSE /\ Starts(a, "like", u, IF keeper = "transaction" THEN "ended" ELSE AfterRow)
            /\ repeated' = (repeated \/ u \in marks)
    /\ marks' = marks \cup {u}
    /\ tally' = IF keeper = "transaction" THEN Up(tally) ELSE tally
    /\ UNCHANGED <<Unmoved, cache, announced, clamped, cold, mixed, stale, actFaults>>

\* Mutant: everybody takes back what was not there.
RefusesNobody(u) == FALSE

\* Only the comment-service takes back what was not there.
Refuses(u) == u \notin marks /\ keeper # "comment"

Unlike(a, u) ==
    /\ Starts(a, "unlike", u, IF Refuses(u) \/ keeper = "transaction" THEN "ended" ELSE AfterRow)
    /\ marks' = marks \ {u} /\ repeated' = (repeated \/ (u \notin marks /\ keeper = "comment"))
    /\ tally' = IF keeper = "transaction" /\ ~Refuses(u) THEN Down(tally) ELSE tally
    /\ clamped' = (clamped \/ (keeper = "transaction" /\ ~Refuses(u) /\ tally = 0))
    /\ UNCHANGED <<Unmoved, cache, announced, cold, mixed, stale, actFaults>>

\* The second statement: IncrementLikes or DecrementLikes, or the like-service's.
Count(a) ==
    /\ act[a].step = "count"
    /\ tally' = IF act[a].deed = "like" THEN Up(tally) ELSE Down(tally)
    /\ clamped' = (clamped \/ (act[a].deed = "unlike" /\ tally = 0))
    /\ Reaches(a, IF keeper = "like" THEN "cache" ELSE "ended")
    /\ UNCHANGED <<Unmoved, marks, cache, announced, repeated, cold, mixed, stale, actFaults>>

\* The like-service counts in Redis, from zero where there is no key; the interaction-service
\* drops the key.
Cache(a) ==
    /\ act[a].step = "cache"
    /\ IF keeper = "interaction"
       THEN cache' = NoKey /\ stale' = FALSE /\ Reaches(a, "announce") /\ UNCHANGED cold
       ELSE /\ cache' = (IF cache = NoKey THEN 0 ELSE cache) + (IF act[a].deed = "like" THEN 1 ELSE -1)
            /\ act' = [Raced EXCEPT ![a].step = "announce"]
            /\ cold' = (cold \/ cache = NoKey) /\ UNCHANGED stale
    /\ UNCHANGED <<Unmoved, marks, tally, announced, repeated, clamped, mixed, actFaults>>

\* publishEvent; the message may be lost.
Announce(a) ==
    /\ act[a].step = "announce" /\ Reaches(a, "ended")
    /\ announced' = announced + (IF act[a].deed = "like" THEN 1 ELSE -1)
    /\ UNCHANGED <<Unmoved, marks, tally, cache, repeated, clamped, cold, mixed, stale, actFaults>>

--------
\* GetLikeCount and GetVideoLikeCount: what is cached, or what is stored, which is then cached.
GetLikeCount(a, u) ==
    /\ keeper \in {"like", "interaction"} /\ cache = NoKey
    /\ act[a].step = "new"
    /\ act' = [act EXCEPT ![a] = [step |-> "read", deed |-> "look", who |-> u, saw |-> 0, raced |-> FALSE]]
    /\ UNCHANGED <<Unmoved, marks, tally, cache, announced, repeated, clamped, cold, mixed, stale, actFaults>>

ReadCount(a) ==
    /\ act[a].step = "read"
    /\ act' = [act EXCEPT ![a].step = "fill",
                          ![a].saw = IF keeper = "interaction" THEN Cardinality(marks) ELSE tally]
    /\ UNCHANGED <<Unmoved, marks, tally, cache, announced, repeated, clamped, cold, mixed, stale, actFaults>>

FillCache(a) ==
    /\ act[a].step = "fill" /\ Reaches(a, "ended")
    /\ cache' = act[a].saw /\ stale' = act[a].raced
    /\ mixed' = (mixed \/ act[a].raced \/ Under({"count", "cache"}, "like") \cup Under({"count", "cache"}, "unlike") # {})
    /\ UNCHANGED <<Unmoved, marks, tally, announced, repeated, clamped, cold, actFaults>>

\* The interaction-service's key lives five minutes; Redis may lose any.
CacheGoes ==
    /\ cache # NoKey /\ cache' = NoKey /\ stale' = FALSE
    /\ IF keeper = "interaction" THEN UNCHANGED actFaults
       ELSE actFaults < MaxActFaults /\ actFaults' = actFaults + 1
    /\ UNCHANGED <<Unmoved, marks, tally, announced, act, repeated, clamped, cold, mixed>>

--------
\* CreateComment, of a reply.  The interaction-service leaves reply_count alone.
CreateComment(a, u) ==
    /\ keeper \in {"comment", "transaction"} /\ u \notin replies
    /\ Starts(a, "reply", u, IF keeper = "comment" THEN "replycount" ELSE "ended")
    /\ replies' = replies \cup {u}
    /\ UNCHANGED <<keeper, marks, tally, cache, announced, erased, replyCount, repeated, clamped, cold, mixed,
                   stale, actFaults>>

CountReply(a) ==
    /\ act[a].step = "replycount" /\ Reaches(a, "ended") /\ replyCount' = replyCount + 1
    /\ UNCHANGED <<keeper, marks, tally, cache, announced, replies, erased, repeated, clamped, cold, mixed,
                   stale, actFaults>>

\* SoftDelete and DeleteComment, by the author; the comment's count keeps the reply.
DeleteComment(u) ==
    /\ u \in replies \ erased /\ erased' = erased \cup {u}
    /\ UNCHANGED <<keeper, marks, tally, cache, announced, replies, replyCount, act, repeated, clamped, cold,
                   mixed, stale, actFaults>>

\* A statement or call fails, the client goes, or the process ends.  What Redis and Kafka
\* refuse is passed over.
ActFails(a) ==
    /\ act[a].step \notin {"new", "ended"}
    /\ actFaults < MaxActFaults /\ actFaults' = actFaults + 1
    /\ Reaches(a, IF act[a].step = "cache" THEN "announce" ELSE "ended")
    /\ UNCHANGED <<Unmoved, marks, tally, cache, announced, repeated, clamped, cold, mixed, stale>>

ActNext ==
    \/ \E a \in Acts :
          \/ \E u \in Fans : Like(a, u) \/ Unlike(a, u) \/ GetLikeCount(a, u) \/ CreateComment(a, u)
          \/ Count(a) \/ Cache(a) \/ Announce(a) \/ ReadCount(a) \/ FillCache(a) \/ CountReply(a) \/ ActFails(a)
    \/ CacheGoes \/ \E u \in Fans : DeleteComment(u)

ActSpec == ActInit /\ [][ActNext]_actVars

--------
\* Properties.

ActTypeOK ==
    /\ keeper \in Keepers /\ marks \subseteq Fans /\ tally \in Nat /\ {cache, announced} \subseteq Int
    /\ replies \subseteq Fans /\ erased \subseteq replies /\ replyCount \in Nat
    /\ act \in [Acts -> [step : ActSteps, deed : Deeds, who : Fans \cup {"none"}, saw : Nat, raced : BOOLEAN]]
    /\ {repeated, clamped, cold, mixed, stale} \subseteq BOOLEAN /\ actFaults \in 0..MaxActFaults

\* Likes less unlikes that are on their way to a place.
Pending(steps) == Cardinality(Under(steps, "like")) - Cardinality(Under(steps, "unlike"))

\* A counter in a table is the number of rows, once the requests between the two statements
\* have ended, if none failed and it was never held at zero; in the comment-service and in the
\* transaction, if nobody repeated themselves too.
TallyFollowsRows ==
    keeper # "interaction" /\ actFaults = 0 /\ ~clamped /\ (keeper = "like" \/ ~repeated)
        => tally + Pending({"count"}) = Cardinality(marks)

\* The like-service's counter in Redis is the number of rows if it was there from the start,
\* or was filled while no like was under way; so is what it announced.
CounterFollowsRows ==
    keeper = "like" /\ actFaults = 0 =>
        /\ cache # NoKey /\ ~cold /\ ~mixed /\ ~clamped
              => cache + Pending({"count", "cache"}) = Cardinality(marks)
        /\ announced + Pending({"count", "cache", "announce"}) = Cardinality(marks)

\* The interaction-service's cached count is out of date only where a drop is to come, or a
\* reader put back what it had read before.
CacheIsDropped ==
    keeper = "interaction" /\ actFaults = 0 /\ cache # NoKey =>
        cache = Cardinality(marks) \/ stale \/ Under({"cache"}, "like") \cup Under({"cache"}, "unlike") # {}

\* The comment-service counts each reply once, deleted or not.
RepliesAreCounted ==
    keeper = "comment" /\ actFaults = 0 =>
        replyCount + Cardinality(Under({"replycount"}, "reply")) = Cardinality(replies)

LikesAddUp == TallyFollowsRows /\ CounterFollowsRows /\ CacheIsDropped /\ RepliesAreCounted

=====

---- MODULE Recommender ----
\* The recommendation-service.  A behaviour is about the worker that turns
\* engagement events into similar videos; about requests for the feed of
\* one user, from five sources through the ranking to the seen set; about
\* the category scores of a user, raised and scaled by feedback; or about
\* the experiments in Redis and the copy of them in memory.
\*
\* Scores of a ranking are data: any order of the candidates is one.  Keys
\* with an expiry of days do not expire, and no cap on a set is reached
\* but that of the similar videos.
EXTENDS Integers, FiniteSets, FiniteSetsExt, Functions, Sequences, SequencesExt

CONSTANTS
    RecCalls,         \* requests; as many events are published
    Fans,             \* users
    Vids, CreatorOf,  \* videos and who made them
    Published,        \* events that come, as <<user, video, score>>
    TopKSimilarItems, MinInteractions,
    MaxConsecutive,   \* MaxConsecutiveSameCreator
    FeedSize,         \* items of a feed
    SimilarAtFirst, TrendingNow, FollowedNow, NearestNow,   \* what the sources of a feed hold
    Cats, ScoreUnit,  \* categories, and what a score of 1.0 is counted as
    MaxRecFaults      \* commands that fail, restarts (bounds them)

ASSUME RecommenderAssumption ==
    /\ Vids \subseteq Nat \ {0} /\ {TopKSimilarItems, MinInteractions, MaxConsecutive, FeedSize, ScoreUnit} \subseteq Nat \ {0}
    /\ SimilarAtFirst \in [Vids -> SUBSET Vids] /\ TrendingNow \cup FollowedNow \cup NearestNow \subseteq Vids
    /\ Published \subseteq Fans \X Vids \X {-1, 1} /\ MaxRecFaults \in Nat

VARIABLES
    recMode,
    engagements,      \* the topic
    taken, marked,    \* events processed, and those known to be committed
    interactions,     \* interactionBuffer
    begunAt,          \* the event the buffer begins after
    repeated,         \* an event was taken twice into one buffer
    snapshot,         \* the buffer a rebuild works on
    toWrite,          \* videos whose similar ones it has yet to write
    rebuild,          \* what the worker's second goroutine does
    similar,          \* rec:cf:similar
    liked,            \* rec:user:liked and, from the other side, rec:co_users
    watched,          \* what the user of the feed has watched
    seenVids,         \* rec:seen
    affinity,         \* rec:user:liked_cats
    stored, indexed, inMemory,   \* experiments by version: in Redis, in the index, in memory
    recCall,          \* what each request does
    mixed,            \* two requests were between a read and the write that follows
    recFaults

matrixVars == <<engagements, taken, marked, interactions, begunAt, repeated, snapshot, toWrite, rebuild, similar>>
feedPartVars == <<watched, seenVids>>
expVars == <<stored, indexed, inMemory>>
recVars == <<recMode, matrixVars, liked, feedPartVars, affinity, expVars, recCall, mixed, recFaults>>

NoScores == [v \in Vids |-> [u \in Fans |-> 0]]
RecSteps == {"new", "generate", "filter", "mark", "read", "scale", "set", "add", "ids", "load", "keep", "ended"}
NotBegun == [step |-> "new", had |-> {}, lineup |-> <<>>, creators |-> <<>>, scores |-> [k \in Cats |-> 0], name |-> {}]
Experiments == RecCalls

RecInit ==
    /\ recMode \in {"matrix", "feed", "affinity", "experiments"}
    /\ engagements = <<>> /\ taken = 0 /\ marked = 0 /\ interactions = NoScores /\ begunAt = 0 /\ repeated = FALSE
    /\ snapshot = NoScores /\ toWrite = {} /\ rebuild = "idle"
    /\ similar = [v \in Vids |-> IF recMode = "feed" THEN SimilarAtFirst[v] ELSE {}]
    /\ IF recMode = "feed" THEN \E v \in Vids, u \in Fans : watched = {v} /\ liked = {<<u, w>> : w \in Vids}
       ELSE watched = {} /\ liked = {}
    /\ seenVids = {} /\ affinity = [k \in Cats |-> 0]
    /\ stored = [e \in Experiments |-> 0] /\ indexed = {} /\ inMemory = stored
    /\ recCall = [c \in RecCalls |-> NotBegun] /\ mixed = FALSE /\ recFaults = 0

--------
\* The worker.

\* Skips are kept out of the buffer, not out of the liked set.
Positive(event) == event[3] > 0

\* The next event: one that was taken before a restart, or a new one.  One older than the window is kept
\* out of the buffer as well; its score in the liked set may not be written.
processMessage ==
    /\ recMode = "matrix" /\ taken' = taken + 1
    /\ \/ taken < Len(engagements) /\ UNCHANGED engagements
       \/ /\ taken = Len(engagements) /\ taken < Cardinality(RecCalls)
          /\ \E event \in Published : engagements' = Append(engagements, event)
    /\ LET event == engagements'[taken']
       IN /\ interactions' = IF Positive(event) THEN [interactions EXCEPT ![event[2]][event[1]] = @ + event[3]] ELSE interactions
          /\ liked' = liked \cup {<<event[1], event[2]>>}
    /\ UNCHANGED <<recMode, marked, begunAt, repeated, snapshot, toWrite, rebuild, similar, feedPartVars,
                   affinity, expVars, recCall, mixed, recFaults>>

\* The partition is taken away and given back: the process lives, or it does not.  Which of the events
\* had their offsets committed is chosen here, where it first matters.
Reassigned ==
    /\ recMode = "matrix" /\ recFaults < MaxRecFaults /\ recFaults' = recFaults + 1
    /\ marked' \in marked..taken /\ taken' = marked'
    /\ \/ /\ marked' < taken /\ repeated' = TRUE
          /\ UNCHANGED <<interactions, begunAt, snapshot, toWrite, rebuild>>
       \/ /\ interactions' = NoScores /\ begunAt' = marked' /\ repeated' = FALSE
          /\ snapshot' = NoScores /\ toWrite' = {} /\ rebuild' = "idle"
    /\ UNCHANGED <<recMode, engagements, similar, liked, feedPartVars, affinity, expVars, recCall, mixed>>

\* Cosines of the videos with enough interactions, compared without their roots.
Enough(m, v) == Cardinality({u \in Fans : m[v][u] # 0}) >= MinInteractions
DotOf(m, v, w) == MapThenSumSet(LAMBDA u : m[v][u] * m[w][u], Fans)
Closer(m, v, w, x) == DotOf(m, v, w) ^ 2 * DotOf(m, x, x) > DotOf(m, v, x) ^ 2 * DotOf(m, w, w)

Neighbours(m, v) == {w \in Vids \ {v} : Enough(m, v) /\ Enough(m, w) /\ DotOf(m, v, w) > 0}
TopK(m, v) ==
    LET near == Neighbours(m, v)
        size == IF Cardinality(near) < TopKSimilarItems THEN Cardinality(near) ELSE TopKSimilarItems
    IN {top \in kSubset(size, near) : \A w \in top, x \in near \ top : ~Closer(m, v, x, w)}

rebuildMatrix ==
    /\ recMode = "matrix" /\ rebuild = "idle" /\ interactions # NoScores
    /\ snapshot' = interactions /\ rebuild' = "write"
    /\ toWrite' = {v \in Vids : Neighbours(interactions, v) # {}}
    /\ UNCHANGED <<recMode, engagements, taken, marked, interactions, begunAt, repeated, similar, liked, feedPartVars,
                   affinity, expVars, recCall, mixed, recFaults>>

\* DEL, ZADD, EXPIRE; a flush that fails is only logged and may have stopped after the DEL.
WriteSimilar ==
    /\ recMode = "matrix"
    /\ \E v \in toWrite :
          /\ toWrite' = toWrite \ {v}
          /\ \/ \E top \in TopK(snapshot, v) : similar' = [similar EXCEPT ![v] = top] /\ UNCHANGED recFaults
             \/ /\ recFaults < MaxRecFaults /\ recFaults' = recFaults + 1
                /\ similar' = similar \/ similar' = [similar EXCEPT ![v] = {}]
    /\ UNCHANGED <<recMode, engagements, taken, marked, interactions, begunAt, repeated, snapshot, rebuild, liked,
                   feedPartVars, affinity, expVars, recCall, mixed>>

\* Once a window has passed the buffer is emptied, what came since the snapshot included.
EndRebuild ==
    /\ rebuild = "write" /\ toWrite = {}
    /\ rebuild' = "idle" /\ snapshot' = NoScores
    /\ \/ UNCHANGED <<interactions, begunAt, repeated>>
       \/ interactions' = NoScores /\ begunAt' = taken /\ repeated' = FALSE
    /\ UNCHANGED <<recMode, engagements, taken, marked, toWrite, similar, liked, feedPartVars, affinity, expVars,
                   recCall, mixed, recFaults>>

--------
\* The feed.

restOfFeed == <<recMode, matrixVars, liked, affinity, expVars>>

\* GenerateAll: a source that fails is left out, and a video two sources have is one candidate.
CollaborativeFiltering == (UNION {similar[v] : v \in watched}) \ watched
CoUsers == {u \in Fans : \E v \in watched : <<u, v>> \in liked}
RecentInteractionGraph == {v \in Vids : \E u \in CoUsers : <<u, v>> \in liked} \ watched
Sources == {CollaborativeFiltering, NearestNow, TrendingNow, FollowedNow, RecentInteractionGraph}
GetRecommendations(c) ==
    /\ recMode = "feed" /\ recCall[c].step = "new"
    /\ \E working \in SUBSET Sources :
          recCall' = [recCall EXCEPT ![c].had = UNION working, ![c].step = IF UNION working = {} THEN "ended" ELSE "filter"]
    /\ UNCHANGED <<restOfFeed, feedPartVars, mixed, recFaults>>

\* Mutant: the item after a full run is the next best, whoever made it.
FirstLeft(left, creators, last, run) == 1

\* The best item left that does not make a run too long; the best one if all do.
NextItem(left, creators, last, run) ==
    LET allowed == {i \in DOMAIN left : ~(creators[left[i]] = last /\ run >= MaxConsecutive)}
    IN IF allowed = {} THEN 1 ELSE Min(allowed)
injectDiversity(order, creators) ==
    LET Pick(acc, i) ==
            LET at == NextItem(acc.left, creators, acc.last, acc.run)
                item == acc.left[at]
                stays == creators[item] = acc.last /\ acc.run < MaxConsecutive
            IN [left |-> RemoveAt(acc.left, at), out |-> Append(acc.out, item), last |-> creators[item],
                run |-> IF stays THEN acc.run + 1 ELSE 1]
    IN FoldLeft(Pick, [left |-> order, out |-> <<>>, last |-> "nobody", run |-> 0], order).out

\* Features that are not found leave the creator of a candidate unknown; a filter that fails lets all
\* pass.  The ranking puts what is left in some order.
Rank(c) ==
    /\ recCall[c].step = "filter"
    /\ \E known \in {{}, Vids}, passed \in {recCall[c].had, recCall[c].had \ seenVids} :
          /\ recFaults' = recFaults + (IF passed \cap seenVids = {} THEN 0 ELSE 1) /\ recFaults' <= MaxRecFaults
          /\ \E order \in SetToSeqs(passed) :
                LET creators == [v \in Vids |-> IF v \in known THEN CreatorOf[v] ELSE "unknown"]
                IN recCall' = [recCall EXCEPT ![c].lineup = injectDiversity(order, creators),
                                              ![c].creators = creators, ![c].step = "mark"]
    /\ mixed' = (mixed \/ \E d \in RecCalls : recCall[d].step = "mark")
    /\ UNCHANGED <<restOfFeed, feedPartVars>>
Served(c) == {recCall[c].lineup[i] : i \in 1..Min({FeedSize, Len(recCall[c].lineup)})}
MarkSeen(c) ==
    /\ recCall[c].step = "mark"
    /\ \/ seenVids' = seenVids \cup Served(c) /\ UNCHANGED recFaults
       \/ UNCHANGED seenVids /\ recFaults < MaxRecFaults /\ recFaults' = recFaults + 1
    /\ recCall' = [recCall EXCEPT ![c] = [NotBegun EXCEPT !.step = "ended",
                                                      !.lineup = SubSeq(recCall[c].lineup, 1, Cardinality(Served(c)))]]
    /\ UNCHANGED <<restOfFeed, watched, mixed>>

\* RecordFeedback of a view that was nearly whole.
UpdateWatchHistory(c) ==
    /\ recMode = "feed" /\ recCall[c].step = "new"
    /\ \E v \in Vids : watched' = watched \cup {v}
    /\ recCall' = [recCall EXCEPT ![c].step = "ended"]
    /\ UNCHANGED <<restOfFeed, seenVids, mixed, recFaults>>

--------
\* The category scores.

restOfAffinity == <<recMode, matrixVars, liked, feedPartVars, expVars, mixed>>
IncrementCategoryAffinity(c) ==
    /\ recMode = "affinity" /\ recCall[c].step = "new"
    /\ \E k \in Cats, delta \in 1..ScoreUnit :
          /\ affinity' = [affinity EXCEPT ![k] = @ + delta]
          /\ recCall' = [recCall EXCEPT ![c].step = IF affinity[k] + delta > ScoreUnit THEN "read" ELSE "ended"]
    /\ UNCHANGED <<restOfAffinity, recFaults>>

Largest(scores) == Max(Range(scores))
ReadScores(c) ==
    /\ recCall[c].step = "read"
    /\ recCall' = [recCall EXCEPT ![c].scores = affinity, ![c].step = "scale"]
    /\ UNCHANGED <<restOfAffinity, affinity, recFaults>>
normaliseCategoryScores(c) ==
    LET scores == recCall[c].scores
    IN /\ recCall[c].step = "scale"
       /\ affinity' = [k \in Cats |-> (scores[k] * ScoreUnit) \div Largest(scores)]
       /\ recCall' = [recCall EXCEPT ![c].step = "ended"]
       /\ UNCHANGED <<restOfAffinity, recFaults>>

--------
\* The experiments.  An upsert of one writes its next version.

restOfExp == <<recMode, matrixVars, liked, feedPartVars, affinity>>
ExpGoes(c, step) == recCall' = [recCall EXCEPT ![c].step = step]
UpsertExperiment(c) ==
    /\ recMode = "experiments" /\ recCall[c].step = "new"
    /\ \E e \in Experiments :
          /\ stored' = [stored EXCEPT ![e] = @ + 1]
          /\ recCall' = [recCall EXCEPT ![c].step = "add", ![c].name = {e}]
    /\ UNCHANGED <<restOfExp, indexed, inMemory, mixed, recFaults>>
AddToIndex(c) ==
    /\ recCall[c].step = "add"
    /\ indexed' = indexed \cup recCall[c].name
    /\ ExpGoes(c, "ids")
    /\ UNCHANGED <<restOfExp, stored, inMemory, mixed, recFaults>>

\* The tick of refreshLoop; and what it shares with an upsert.
refreshLoop(c) ==
    /\ recMode = "experiments" /\ recCall[c].step = "new"
    /\ ExpGoes(c, "ids")
    /\ UNCHANGED <<restOfExp, expVars, mixed, recFaults>>
ReadIndex(c) ==
    /\ recCall[c].step = "ids"
    /\ recCall' = [recCall EXCEPT ![c].had = indexed, ![c].step = "load"]
    /\ UNCHANGED <<restOfExp, expVars, mixed, recFaults>>
ReadExperiments(c) ==
    /\ recCall[c].step = "load"
    /\ recCall' = [recCall EXCEPT ![c].creators = [e \in Experiments |-> IF e \in recCall[c].had THEN stored[e] ELSE 0],
                                  ![c].step = "keep"]
    /\ UNCHANGED <<restOfExp, expVars, mixed, recFaults>>
KeepExperiments(c) ==
    LET others == {d \in RecCalls \ {c} : recCall[d].step \in {"ids", "load", "keep"}}
    IN /\ recCall[c].step = "keep"
       /\ inMemory' = recCall[c].creators
       /\ mixed' = (mixed \/ others # {})
       /\ ExpGoes(c, "ended")
       /\ UNCHANGED <<restOfExp, stored, indexed, recFaults>>

\* A command fails; a request for the feed that fails before it ranks serves nothing.
RecCallFails(c) ==
    /\ recCall[c].step \in {"filter", "read", "scale", "add", "ids", "load"} /\ recFaults < MaxRecFaults
    /\ ExpGoes(c, "ended") /\ recFaults' = recFaults + 1
    /\ UNCHANGED <<restOfExp, expVars, mixed>>

RecNext ==
    \/ \E c \in RecCalls :
          \/ GetRecommendations(c) \/ Rank(c) \/ MarkSeen(c) \/ UpdateWatchHistory(c)
          \/ IncrementCategoryAffinity(c) \/ ReadScores(c) \/ normaliseCategoryScores(c)
          \/ UpsertExperiment(c) \/ AddToIndex(c) \/ refreshLoop(c) \/ ReadIndex(c) \/ ReadExperiments(c)
          \/ KeepExperiments(c) \/ RecCallFails(c)
    \/ processMessage \/ Reassigned \/ rebuildMatrix \/ WriteSimilar \/ EndRebuild

RecSpec == RecInit /\ [][RecNext]_recVars

--------
\* Properties.

RecTypeOK ==
    /\ engagements \in Seq(Published) /\ {taken, marked, begunAt} \subseteq 0..Len(engagements)
    /\ {interactions, snapshot} \subseteq [Vids -> [Fans -> 0..(2 * Cardinality(RecCalls))]] /\ rebuild \in {"idle", "write"}
    /\ toWrite \subseteq Vids /\ similar \in [Vids -> SUBSET Vids] /\ liked \subseteq Fans \X Vids
    /\ watched \cup seenVids \subseteq Vids /\ affinity \in [Cats -> 0..(2 * ScoreUnit * Cardinality(RecCalls))]
    /\ {stored, inMemory} \subseteq [Experiments -> 0..Cardinality(RecCalls)] /\ indexed \subseteq Experiments
    /\ \A c \in RecCalls : recCall[c].step \in RecSteps
    /\ {repeated, mixed} \subseteq BOOLEAN /\ recFaults \in 0..MaxRecFaults

\* The buffer holds what the events since its start add up to, unless some came again.
BufferIsTrue ==
    ~repeated => \A v \in Vids, u \in Fans :
        interactions[v][u] = Cardinality({i \in (begunAt + 1)..taken : engagements[i] = <<u, v, 1>>})

\* Two videos are similar because one user liked both; and a video that is similar to some has
\* similar ones itself, once a rebuild is over and none of its writes has failed.
SimilarIsEarned ==
    \A v \in Vids : \A w \in similar[v] :
        /\ v # w /\ \E u \in Fans : {<<u, v, 1>>, <<u, w, 1>>} \subseteq Range(engagements)
        /\ toWrite = {} /\ recFaults = 0 => similar[w] # {}

\* Nothing is served twice, unless two requests met or a command failed.
NoRepeats ==
    ~mixed /\ recFaults = 0 =>
        \A c, d \in RecCalls : c # d /\ {recCall[c].step, recCall[d].step} \subseteq {"mark", "ended"} =>
            Served(c) \cap Served(d) = {}

\* A run of one creator is too long only where nobody else is left, every candidate is in the feed
\* once, and those of one creator keep their order.
FeedIsDiverse ==
    \A c \in RecCalls :
        LET line == recCall[c].lineup
            By(i) == recCall[c].creators[line[i]]
        IN recMode = "feed" /\ recCall[c].step = "mark" =>
            /\ IsInjective(line) /\ Range(line) \subseteq recCall[c].had
            /\ \A i \in DOMAIN line : i > MaxConsecutive /\ (\A j \in (i - MaxConsecutive)..i : By(j) = By(i)) =>
                   \A k \in i..Len(line) : By(k) = By(i)

\* No score stays above 1.0.
ScoresAreScaled ==
    recFaults = 0 /\ (\A c \in RecCalls : recCall[c].step \in {"new", "ended"}) => \A k \in Cats : affinity[k] <= ScoreUnit

\* When no call is in the middle of its work, memory has every experiment as Redis has it, unless
\* two loads met or a command failed.
ExperimentsAreLoaded ==
    recMode = "experiments" /\ ~mixed /\ recFaults = 0 /\ (\A c \in RecCalls : recCall[c].step \in {"new", "ended"}) =>
        inMemory = stored

RecommendationsHold ==
    /\ recMode = "matrix" => BufferIsTrue /\ SimilarIsEarned
    /\ recMode = "feed" => NoRepeats /\ FeedIsDiverse
    /\ ScoresAreScaled /\ ExperimentsAreLoaded

=====

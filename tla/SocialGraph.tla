---- MODULE SocialGraph ----
\* The social-graph-service (services/social-graph-service/internal):
\* follows and blocks in PostgreSQL, follower counters and suggestion
\* lists in Redis, follow events in Kafka and the worker that applies them.
\*
\* PostgreSQL has the truth.  A request changes it first and Redis after,
\* in steps that fail without notice; part of its work goes on in
\* goroutines after the answer.  The two topics of the events have no
\* order between them.  The following counters are kept like the follower
\* counters and the sorted sets are never read: both are left out.
EXTENDS Integers, FiniteSets

CONSTANTS
    Members,          \* users
    Asks,             \* HTTP requests; each is used once (bounds everything)
    Duties,           \* the kinds of request that come
    MaxSuggestions,   \* length of a suggestion list
    MaxGraphFaults    \* Redis or Kafka calls that fail, events and goroutines lost

ASSUME GraphAssumption ==
    /\ Duties \subseteq {"follow", "unfollow", "block", "count", "suggest"}
    /\ MaxSuggestions \in Nat /\ MaxGraphFaults \in Nat /\ IsFiniteSet(Members)

VARIABLES
    ask,              \* what each request is doing
    edges, blocks,    \* rows of follows and of blocks
    cached,           \* Redis: follower counters
    suggested,        \* Redis: suggestion lists
    topic,            \* Kafka: follow events not consumed yet
    graphFaults,
    crossed,          \* pairs a follow and a block worked on at once, so far
    unsure            \* viewers whose list was computed while their rows changed, so far

graphVars == <<ask, edges, blocks, cached, suggested, topic, graphFaults, crossed, unsure>>

\* The value of a counter that is not there.
Absent == -2
NoAsk == [step |-> "idle", duty |-> "none", by |-> "none", on |-> "none",
          found |-> {}, skip |-> {}, value |-> 0]
FollowEvents == [ask : Asks, type : {"followed", "unfollowed"}, from : Members, to : Members]

\* Any graph, with the counters and lists of a cold cache.
GraphInit ==
    /\ ask = [q \in Asks |-> NoAsk]
    /\ edges \in SUBSET {e \in Members \X Members : e[1] # e[2]}
    /\ blocks = {}
    /\ cached = [u \in Members |-> Absent]
    /\ suggested = [u \in Members |-> {}]
    /\ topic = {}
    /\ graphFaults = 0 /\ crossed = {} /\ unsure = {}

--------
FollowersOf(u) == {e[1] : e \in {f \in edges : f[2] = u}}
FollowingIDs(u) == {e[2] : e \in {f \in edges : f[1] = u}}
\* Whom the user blocked and who blocked the user.
BlockedIDs(u) == {b[2] : b \in {c \in blocks : c[1] = u}} \cup {b[1] : b \in {c \in blocks : c[2] = u}}

GraphFault == graphFaults < MaxGraphFaults /\ graphFaults' = graphFaults + 1
NoGraphFault == UNCHANGED graphFaults
AskGoes(q, step) == ask' = [ask EXCEPT ![q].step = step]

\* A request that computes v's list has read rows of v and not saved yet.
Computing(v) == \E q \in Asks : ask[q].by = v /\ ask[q].step \in {"blocked", "expand", "save"}
\* Rows of a and b change: whoever's list is being computed becomes unsure.
Disturbs(a, b) == unsure' = unsure \cup {v \in {a, b} : Computing(v)}

Inserting(a, b) == \E q \in Asks : /\ ask[q].duty = "follow" /\ {ask[q].by, ask[q].on} = {a, b}
                                   /\ ask[q].step \in {"reverse", "insert"}

\* INCR starts from 0 when there is no counter.
Incremented(n) == IF n = Absent THEN 1 ELSE n + 1
\* DECR with a floor of 0.
Decremented(n) == IF n \in {Absent, 0} THEN 0 ELSE n - 1

--------
\* Follow.

Ask(q, duty, a, b, step) ==
    /\ duty \in Duties /\ ask[q].step = "idle"
    /\ ask' = [ask EXCEPT ![q] = [NoAsk EXCEPT !.duty = duty, !.by = a, !.on = b, !.step = step]]

\* The first of two look-ups: has the follower blocked the followee?
BeginFollow(q, a, b) ==
    /\ a # b /\ <<a, b>> \notin blocks
    /\ Ask(q, "follow", a, b, "reverse")
    /\ UNCHANGED <<edges, blocks, cached, suggested, topic, graphFaults, crossed, unsure>>

\* The second: has the followee blocked the follower?
CheckReverse(q) ==
    /\ ask[q].step = "reverse"
    /\ AskGoes(q, IF <<ask[q].on, ask[q].by>> \in blocks THEN "done" ELSE "insert")
    /\ UNCHANGED <<edges, blocks, cached, suggested, topic, graphFaults, crossed, unsure>>

\* INSERT ... ON CONFLICT DO NOTHING: an existing edge ends the request.
InsertEdge(q) ==
    /\ ask[q].step = "insert"
    /\ LET e == <<ask[q].by, ask[q].on>> IN
          /\ edges' = edges \cup {e}
          /\ IF e \in edges THEN AskGoes(q, "done") /\ UNCHANGED unsure
                            ELSE AskGoes(q, "incr") /\ Disturbs(e[1], e[2])
    /\ UNCHANGED <<blocks, cached, suggested, topic, graphFaults, crossed>>

\* The pipeline; an error is logged.
IncrementCount(q) ==
    /\ ask[q].step = "incr"
    /\ \/ cached' = [cached EXCEPT ![ask[q].on] = Incremented(@)] /\ NoGraphFault
       \/ UNCHANGED cached /\ GraphFault
    /\ AskGoes(q, "publish")
    /\ UNCHANGED <<edges, blocks, suggested, topic, crossed, unsure>>

--------
\* Unfollow and block.

DeleteEdge(q, a, b) ==
    /\ <<a, b>> \in edges
    /\ Ask(q, "unfollow", a, b, "decr")
    /\ edges' = edges \ {<<a, b>>}
    /\ Disturbs(a, b)
    /\ UNCHANGED <<blocks, cached, suggested, topic, graphFaults, crossed>>

DecrementCount(q) ==
    /\ ask[q].step = "decr"
    /\ \/ cached' = [cached EXCEPT ![ask[q].on] = Decremented(@)] /\ NoGraphFault
       \/ UNCHANGED cached /\ GraphFault
    /\ AskGoes(q, "publish")
    /\ UNCHANGED <<edges, blocks, suggested, topic, crossed, unsure>>

\* One transaction: the block, and the edges of both directions.
BlockUser(q, a, b) ==
    /\ a # b /\ Ask(q, "block", a, b, "forget")
    /\ blocks' = blocks \cup {<<a, b>>}
    /\ edges' = edges \ {<<a, b>>, <<b, a>>}
    /\ Disturbs(a, b)
    /\ crossed' = IF Inserting(a, b) THEN crossed \cup {{a, b}} ELSE crossed
    /\ UNCHANGED <<cached, suggested, topic, graphFaults>>

\* The counters of both are deleted.  No event tells the worker.
ForgetCounts(q) ==
    /\ ask[q].step = "forget"
    /\ \/ /\ cached' = [cached EXCEPT ![ask[q].by] = Absent, ![ask[q].on] = Absent]
          /\ NoGraphFault
       \/ UNCHANGED cached /\ GraphFault
    /\ AskGoes(q, "drop_by")
    /\ UNCHANGED <<edges, blocks, suggested, topic, crossed, unsure>>

--------
\* After the answer: the event, and the suggestion lists of both.

PublishFollowEvent(q) ==
    /\ ask[q].step = "publish"
    /\ \/ /\ topic' = topic \cup {[ask |-> q, from |-> ask[q].by, to |-> ask[q].on, type |->
                                   IF ask[q].duty = "follow" THEN "followed" ELSE "unfollowed"]}
          /\ NoGraphFault
       \/ UNCHANGED topic /\ GraphFault
    /\ AskGoes(q, "drop_by")
    /\ UNCHANGED <<edges, blocks, cached, suggested, crossed, unsure>>

\* Mutant: only the one who asked is thought of.
InvalidateOwnCache(q) ==
    /\ ask[q].step \in {"drop_by", "drop_on"}
    /\ suggested' = [suggested EXCEPT ![ask[q].by] = {}]
    /\ AskGoes(q, IF ask[q].step = "drop_by" THEN "drop_on" ELSE "done")
    /\ UNCHANGED <<edges, blocks, cached, topic, graphFaults, crossed, unsure>>

\* Its error is dropped; the goroutine may not live to do it.
InvalidateSuggestionsCache(q) ==
    /\ ask[q].step \in {"drop_by", "drop_on"}
    /\ LET v == IF ask[q].step = "drop_by" THEN ask[q].by ELSE ask[q].on IN
          \/ suggested' = [suggested EXCEPT ![v] = {}] /\ NoGraphFault /\ UNCHANGED unsure
          \/ UNCHANGED suggested /\ GraphFault /\ unsure' = unsure \cup {v}
    /\ AskGoes(q, IF ask[q].step = "drop_by" THEN "drop_on" ELSE "done")
    /\ UNCHANGED <<edges, blocks, cached, topic, crossed>>

--------
\* The worker: it applies every event to the counters once more.

ApplyToCount(e) ==
    cached' = [cached EXCEPT ![e.to] = IF e.type = "followed" THEN Incremented(@) ELSE Decremented(@)]

\* handleFollowed, handleUnfollowed.
HandleMessage(e) ==
    /\ e \in topic /\ topic' = topic \ {e}
    /\ \/ /\ ApplyToCount(e)
          /\ suggested' = [suggested EXCEPT ![e.from] = {}, ![e.to] = {}]
          /\ NoGraphFault
       \/ /\ UNCHANGED suggested /\ GraphFault
          /\ (UNCHANGED cached \/ (e.type = "unfollowed" /\ ApplyToCount(e)))
    /\ UNCHANGED <<ask, edges, blocks, crossed, unsure>>

\* A rebalance or a restart: offsets are never committed and reading starts at the end.
WorkerRestarts ==
    /\ topic # {} /\ GraphFault /\ topic' = {}
    /\ UNCHANGED <<ask, edges, blocks, cached, suggested, crossed, unsure>>

--------
\* Reading the counter: Redis, or PostgreSQL and then Redis.

GetFollowerCount(q, u) ==
    /\ Ask(q, "count", u, u, IF cached[u] = Absent THEN "load" ELSE "done")
    /\ UNCHANGED <<edges, blocks, cached, suggested, topic, graphFaults, crossed, unsure>>

LoadCount(q) ==
    /\ ask[q].step = "load"
    /\ ask' = [ask EXCEPT ![q].step = "warm", ![q].value = Cardinality(FollowersOf(ask[q].by))]
    /\ UNCHANGED <<edges, blocks, cached, suggested, topic, graphFaults, crossed, unsure>>

WarmCount(q) ==
    /\ ask[q].step = "warm"
    /\ cached' = [cached EXCEPT ![ask[q].by] = ask[q].value]
    /\ AskGoes(q, "done")
    /\ UNCHANGED <<edges, blocks, suggested, topic, graphFaults, crossed, unsure>>

\* The TTL of a counter.
CountExpires(u) ==
    /\ cached[u] # Absent /\ GraphFault
    /\ cached' = [cached EXCEPT ![u] = Absent]
    /\ UNCHANGED <<ask, edges, blocks, suggested, topic, crossed, unsure>>

--------
\* Suggestions: the cached list, or who is followed by those the viewer
\* follows, computed over several queries and saved after the answer.

\* A cached list that is not empty is the answer.
GetSuggestions(q, v) ==
    /\ \/ suggested[v] # {} /\ Ask(q, "suggest", v, v, "done")
       \/ suggested[v] = {} /\ Ask(q, "suggest", v, v, "following")
    /\ UNCHANGED <<edges, blocks, cached, suggested, topic, graphFaults, crossed, unsure>>

\* Whoever follows nobody gets, and saves, an empty list.
ReadFollowing(q) ==
    /\ ask[q].step = "following"
    /\ LET followees == FollowingIDs(ask[q].by) IN
          ask' = [ask EXCEPT ![q].skip = followees, ![q].found = followees,
                             ![q].step = IF followees = {} THEN "save" ELSE "blocked"]
    /\ UNCHANGED <<edges, blocks, cached, suggested, topic, graphFaults, crossed, unsure>>

ReadBlocked(q) ==
    /\ ask[q].step = "blocked"
    /\ ask' = [ask EXCEPT ![q].skip = @ \cup BlockedIDs(ask[q].by), ![q].step = "expand"]
    /\ UNCHANGED <<edges, blocks, cached, suggested, topic, graphFaults, crossed, unsure>>

\* The search at depth 2: the followees of the followees, less the skipped.  Which of
\* them score best, and which nodes cannot be read and are passed over, is left open.
ComputeSuggestions(q) ==
    /\ ask[q].step = "expand"
    /\ LET v == ask[q].by
           candidates == (UNION {FollowingIDs(w) : w \in ask[q].found}) \ (ask[q].skip \cup {v}) IN
          \E list \in SUBSET candidates :
             /\ Cardinality(list) <= MaxSuggestions
             /\ ask' = [ask EXCEPT ![q].found = list, ![q].step = "save"]
    /\ UNCHANGED <<edges, blocks, cached, suggested, topic, graphFaults, crossed, unsure>>

SaveSuggestions(q) ==
    /\ ask[q].step = "save"
    /\ \/ suggested' = [suggested EXCEPT ![ask[q].by] = ask[q].found] /\ NoGraphFault
       \/ UNCHANGED suggested /\ GraphFault
    /\ AskGoes(q, "done")
    /\ UNCHANGED <<edges, blocks, cached, topic, crossed, unsure>>

GraphNext ==
    \/ \E q \in Asks, a, b \in Members :
          BeginFollow(q, a, b) \/ DeleteEdge(q, a, b) \/ BlockUser(q, a, b)
    \/ \E q \in Asks, u \in Members : GetFollowerCount(q, u) \/ GetSuggestions(q, u)
    \/ \E q \in Asks :
          \/ CheckReverse(q) \/ InsertEdge(q) \/ IncrementCount(q) \/ DecrementCount(q)
          \/ ForgetCounts(q) \/ PublishFollowEvent(q) \/ InvalidateSuggestionsCache(q)
          \/ LoadCount(q) \/ WarmCount(q)
          \/ ReadFollowing(q) \/ ReadBlocked(q) \/ ComputeSuggestions(q) \/ SaveSuggestions(q)
    \/ \E e \in topic : HandleMessage(e)
    \/ \E u \in Members : CountExpires(u)
    \/ WorkerRestarts

GraphSpec == GraphInit /\ [][GraphNext]_graphVars

--------
\* Properties.

AskSteps == {"idle", "reverse", "insert", "incr", "decr", "forget", "publish", "drop_by", "drop_on",
             "load", "warm", "following", "blocked", "expand", "save", "done"}
Counts == Nat \cup {Absent}

GraphTypeOK ==
    /\ \A q \in Asks : /\ DOMAIN ask[q] = DOMAIN NoAsk /\ ask[q].step \in AskSteps
                       /\ ask[q].found \subseteq Members /\ ask[q].value \in Nat
    /\ edges \subseteq Members \X Members /\ blocks \subseteq Members \X Members
    /\ cached \in [Members -> Counts]
    /\ suggested \in [Members -> SUBSET Members]
    /\ topic \subseteq FollowEvents
    /\ graphFaults \in 0..MaxGraphFaults
    /\ crossed \subseteq SUBSET Members /\ unsure \subseteq Members

\* Nobody follows a user when one of the two has blocked the other, except where the
\* block was committed between the checks of a follow and its insert.
BlockedDoNotFollow ==
    \A b \in blocks : ({b, <<b[2], b[1]>>} \cap edges # {}) => {b[1], b[2]} \in crossed

\* A request that changed rows of v has still to drop v's list.
DropPending(v) ==
    \E q \in Asks :
        \/ v \in {ask[q].by, ask[q].on} /\ ask[q].step \in {"incr", "decr", "forget", "publish", "drop_by"}
        \/ v = ask[q].on /\ ask[q].step = "drop_on"

\* Once the lists were dropped, the list of a viewer suggests nobody the viewer follows,
\* blocked or was blocked by, unless it was being computed while that changed or could
\* not be dropped.
SuggestionsAreFresh ==
    \A v \in Members \ unsure :
        ~DropPending(v) => suggested[v] \cap ({v} \cup FollowingIDs(v) \cup BlockedIDs(v)) = {}

\* What a block, a follow or an unfollow says holds in the graph and in what is made of it.
TheGraphIsRespected == BlockedDoNotFollow /\ SuggestionsAreFresh

=====

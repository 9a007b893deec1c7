---- MODULE Reviews ----
\* What people do with the moderation-service's verdicts: a moderator
\* decides on an item of the queue, the owner appeals a rejection, a
\* moderator decides on the appeal, and the owner looks at it through a
\* cache.  A request reads rows, checks them, and writes whole rows back
\* later, in no transaction.
\*
\* The rows are kept by the Repository the service is written against.
EXTENDS Integers, FiniteSets

CONSTANTS
    Works,            \* moderated contents, all of one owner
    Visits,           \* requests; an appeal has the name of the one that made it
    MaxAppeals,       \* MaxAppealsPerUser
    MaxReviewFaults   \* requests that do not get to their end (bounds them)

ASSUME ReviewAssumption ==
    IsFiniteSet(Visits) /\ MaxAppeals \in Nat \ {0} /\ MaxReviewFaults \in Nat

VARIABLES
    result,           \* status of each content's result
    item,             \* of its item in the queue; "none": it never needed one
    appeal,           \* the appeals' rows
    appealCache,      \* the status Redis has for each of them, or "none"
    visit,            \* what each request does
    reviewsMet, appealsMet, looksMet, \* requests that met another of their kind
    reviewFaults

reviewVars == <<result, item, appeal, appealCache, visit, reviewsMet, appealsMet, looksMet, reviewFaults>>

Rulings == {"approved", "rejected"}
AppealRow == [of : Works, status : {"none", "pending", "approved", "denied"}]
VisitSteps == {"new", "item", "result", "duplicate", "count", "create", "note",
               "reverse", "decide", "drop", "fill", "ended"}

ReviewInit ==
    /\ \E w \in Works : result = [v \in Works |-> IF v = w THEN "rejected" ELSE "human_review"]
    /\ item = [w \in Works |-> IF result[w] = "rejected" THEN "none" ELSE "human_review"]
    /\ LET w == CHOOSE w \in Works : TRUE
       IN /\ appeal = [v \in Visits |-> [of |-> w, status |-> "none"]]
          /\ visit = [v \in Visits |-> [step |-> "new", work |-> w, appeal |-> v, ruling |-> "approved",
                                        saw |-> "none"]]
    /\ appealCache = [v \in Visits |-> "none"]
    /\ reviewsMet = {} /\ appealsMet = FALSE /\ looksMet = {} /\ reviewFaults = 0

--------
Steps(v, step) == visit' = [visit EXCEPT ![v].step = step]
Doing(steps) == {v \in Visits : visit[v].step \in steps}
OnItem(w) == {v \in Doing({"item", "result"}) : visit[v].work = w}
OnAppeal(a) == {v \in Doing({"reverse", "decide"}) : visit[v].appeal = a}
Appealing == {"duplicate", "count", "create"}
Active == {a \in Visits : appeal[a].status = "pending"}

\* A method begins: what it reads first, and which others it meets.
Begins(v, step, w, a, ruling, saw) ==
    /\ visit[v].step = "new"
    /\ visit' = [visit EXCEPT ![v] =
                    [step |-> step, work |-> w, appeal |-> a, ruling |-> ruling, saw |-> saw]]

EscalateStaleItems ==
    /\ \E w \in Works : item[w] = "human_review"
    /\ item' = [w \in Works |-> IF item[w] = "human_review" THEN "escalated" ELSE item[w]]
    /\ UNCHANGED <<result, appeal, appealCache, visit, reviewsMet, appealsMet, looksMet, reviewFaults>>

MayReview(w) == item[w] \in {"human_review", "escalated"}

ReviewContent(v, w, ruling) ==
    /\ MayReview(w)
    /\ Begins(v, "item", w, v, ruling, "none")
    /\ reviewsMet' = reviewsMet \cup (IF OnItem(w) # {} THEN {w} ELSE {})
    /\ UNCHANGED <<result, item, appeal, appealCache, appealsMet, looksMet, reviewFaults>>

UpdateQueueItem(v) ==
    /\ visit[v].step = "item"
    /\ item' = [item EXCEPT ![visit[v].work] = visit[v].ruling]
    /\ Steps(v, "result")
    /\ UNCHANGED <<result, appeal, appealCache, reviewsMet, appealsMet, looksMet, reviewFaults>>

UpdateResult(v) ==
    /\ visit[v].step = "result"
    /\ result' = [result EXCEPT ![visit[v].work] = visit[v].ruling]
    /\ Steps(v, "ended")
    /\ UNCHANGED <<item, appeal, appealCache, reviewsMet, appealsMet, looksMet, reviewFaults>>

--------
AppealDecision(v, w) ==
    /\ result[w] = "rejected"
    /\ Begins(v, "duplicate", w, v, "approved", "none")
    /\ appealsMet' = (appealsMet \/ Doing(Appealing) # {})
    /\ UNCHANGED <<result, item, appeal, appealCache, reviewsMet, looksMet, reviewFaults>>

AppealsOf(w) == {a \in Visits : appeal[a].status # "none" /\ appeal[a].of = w}

\* A look-up that fails is taken for one that found nothing.
GetAppealByResultID(v) ==
    /\ visit[v].step = "duplicate"
    /\ \/ /\ Steps(v, IF AppealsOf(visit[v].work) = {} THEN "count" ELSE "ended")
          /\ UNCHANGED reviewFaults
       \/ /\ reviewFaults < MaxReviewFaults /\ reviewFaults' = reviewFaults + 1
          /\ Steps(v, "count")
    /\ UNCHANGED <<result, item, appeal, appealCache, reviewsMet, appealsMet, looksMet>>

CountActiveAppeals(v) ==
    /\ visit[v].step = "count"
    /\ Steps(v, IF Cardinality(Active) < MaxAppeals THEN "create" ELSE "ended")
    /\ UNCHANGED <<result, item, appeal, appealCache, reviewsMet, appealsMet, looksMet, reviewFaults>>

CreateAppeal(v) ==
    /\ visit[v].step = "create"
    /\ appeal' = [appeal EXCEPT ![v] = [of |-> visit[v].work, status |-> "pending"]]
    /\ visit' = [visit EXCEPT ![v].step = "note", ![v].saw = "pending"]
    /\ UNCHANGED <<result, item, appealCache, reviewsMet, appealsMet, looksMet, reviewFaults>>

\* Who reads an appeal while another one decides on it may put back what it read.
LooksMeet == looksMet' = looksMet \cup {visit[x].appeal : x \in Doing({"note", "fill"})}

ReviewAppeal(v, a, ruling) ==
    /\ appeal[a].status = "pending"
    /\ Begins(v, IF ruling = "approved" THEN "reverse" ELSE "decide", appeal[a].of, a, ruling, "none")
    /\ reviewsMet' = reviewsMet \cup (IF OnAppeal(a) # {} THEN {appeal[a].of} ELSE {})
    /\ UNCHANGED <<result, item, appeal, appealCache, appealsMet, looksMet, reviewFaults>>

\* Mutant: an approved appeal leaves the result as it was.
ReverseResultNot(v) ==
    /\ visit[v].step = "reverse" /\ Steps(v, "decide")
    /\ UNCHANGED <<result, item, appeal, appealCache, reviewsMet, appealsMet, looksMet, reviewFaults>>

\* An error is ignored: the appeal is approved although the result stays rejected.
ReverseResult(v) ==
    /\ visit[v].step = "reverse" /\ Steps(v, "decide")
    /\ \/ /\ result' = [result EXCEPT ![visit[v].work] = "approved"]
          /\ UNCHANGED reviewFaults
       \/ /\ reviewFaults < MaxReviewFaults /\ reviewFaults' = reviewFaults + 1
          /\ UNCHANGED result
    /\ UNCHANGED <<item, appeal, appealCache, reviewsMet, appealsMet, looksMet>>

UpdateAppeal(v) ==
    /\ visit[v].step = "decide"
    /\ appeal' = [appeal EXCEPT ![visit[v].appeal].status =
                     IF visit[v].ruling = "approved" THEN "approved" ELSE "denied"]
    /\ Steps(v, "drop") /\ LooksMeet
    /\ UNCHANGED <<result, item, appealCache, reviewsMet, appealsMet, reviewFaults>>

\* invalidateAppealCache; Redis may fail, which is ignored.
DropCache(v) ==
    /\ visit[v].step = "drop" /\ Steps(v, "ended")
    /\ \/ appealCache' = [appealCache EXCEPT ![visit[v].appeal] = "none"] /\ UNCHANGED reviewFaults
       \/ reviewFaults < MaxReviewFaults /\ reviewFaults' = reviewFaults + 1 /\ UNCHANGED appealCache
    /\ UNCHANGED <<result, item, appeal, reviewsMet, appealsMet, looksMet>>

--------
\* What is cached is answered as it is; otherwise the row is read, and cached.
GetAppealStatus(v, a) ==
    /\ appealCache[a] = "none" /\ appeal[a].status # "none"
    /\ Begins(v, "fill", appeal[a].of, a, "approved", appeal[a].status)
    /\ UNCHANGED <<result, item, appeal, appealCache, reviewsMet, appealsMet, looksMet, reviewFaults>>

cacheAppealStatus(v) ==
    /\ visit[v].step \in {"note", "fill"} /\ Steps(v, "ended")
    /\ appealCache' = [appealCache EXCEPT ![visit[v].appeal] = visit[v].saw]
    /\ UNCHANGED <<result, item, appeal, reviewsMet, appealsMet, looksMet, reviewFaults>>

CacheExpires(a) ==
    /\ appealCache[a] # "none" /\ appealCache' = [appealCache EXCEPT ![a] = "none"]
    /\ UNCHANGED <<result, item, appeal, visit, reviewsMet, appealsMet, looksMet, reviewFaults>>

\* A statement fails, the client goes, the process ends: the request stops where it is.
VisitEnds(v) ==
    /\ visit[v].step \notin {"new", "ended"} /\ Steps(v, "ended")
    /\ reviewFaults < MaxReviewFaults /\ reviewFaults' = reviewFaults + 1
    /\ UNCHANGED <<result, item, appeal, appealCache, reviewsMet, appealsMet, looksMet>>

ReviewNext ==
    \/ EscalateStaleItems
    \/ \E v \in Visits :
          \/ \E w \in Works : AppealDecision(v, w) \/ \E d \in Rulings : ReviewContent(v, w, d)
          \/ \E a \in Visits : GetAppealStatus(v, a) \/ \E d \in Rulings : ReviewAppeal(v, a, d)
          \/ UpdateQueueItem(v) \/ UpdateResult(v) \/ GetAppealByResultID(v) \/ CountActiveAppeals(v)
          \/ CreateAppeal(v) \/ ReverseResult(v) \/ UpdateAppeal(v) \/ DropCache(v)
          \/ cacheAppealStatus(v) \/ CacheExpires(v) \/ VisitEnds(v)

ReviewSpec == ReviewInit /\ [][ReviewNext]_reviewVars

--------
\* Properties.

ReviewTypeOK ==
    /\ result \in [Works -> {"human_review"} \cup Rulings]
    /\ item \in [Works -> {"none", "human_review", "escalated"} \cup Rulings]
    /\ appeal \in [Visits -> AppealRow]
    /\ appealCache \in [Visits -> {"none", "pending", "approved", "denied"}]
    /\ visit \in [Visits -> [step : VisitSteps, work : Works, appeal : Visits, ruling : Rulings,
                             saw : {"none", "pending", "approved", "denied"}]]
    /\ reviewsMet \subseteq Works /\ appealsMet \in BOOLEAN /\ looksMet \subseteq Visits
    /\ reviewFaults \in 0..MaxReviewFaults

\* Where moderators did not meet and no call failed, a result says what was decided last: an
\* approved appeal if there is one, or else what the queue's item says, once its review ended.
ResultsFollowDecisions ==
    \A w \in Works : w \notin reviewsMet /\ reviewFaults = 0 =>
        /\ (\E a \in AppealsOf(w) : appeal[a].status = "approved") => result[w] = "approved"
        /\ item[w] \in Rulings /\ OnItem(w) = {} /\ result[w] # item[w] =>
              \E a \in AppealsOf(w) : appeal[a].status = "approved" \/ OnAppeal(a) # {}

\* Appeals that did not meet are one to a result, and one more for each call that failed, which
\* may have been the look-up for an earlier one; no more are active than a user may have, even so.
AppealsAreFew ==
    ~appealsMet => /\ \A w \in Works : Cardinality(AppealsOf(w)) <= 1 + reviewFaults
                   /\ Cardinality(Active) <= MaxAppeals

\* The owner is shown a decided appeal as pending only by who read it before the decision,
\* or where dropping it from the cache is still to come or failed.
AppealsAreShown ==
    \A a \in Visits :
        appealCache[a] \in {"none", appeal[a].status}
        \/ a \in looksMet \/ reviewFaults > 0 \/ \E v \in Doing({"drop"}) : visit[v].appeal = a

DecisionsStand == ResultsFollowDecisions /\ AppealsAreFew /\ AppealsAreShown

=====

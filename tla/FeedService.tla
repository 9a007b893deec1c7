---- MODULE FeedService ----
\* The feed-service.  A behaviour is about the feed of one user, which
\* requests of a session read page by page, rebuild when its mark is
\* missing, and which a worker rebuilds too; or about the trending sets,
\* which a worker recalculates as a whole, or for the one video whose
\* events reach a threshold.
\*
\* A pipeline is as many steps as it has commands that matter here.
EXTENDS Naturals, FiniteSets

CONSTANTS
    PageCalls,        \* requests, and goroutines of the precompute worker
    Films, RankOf,    \* videos, and the score of each in a feed
    Recommendations,  \* the sets a build may be given
    PageLimit,        \* items of a page
    Spare,            \* what is fetched beyond it, to make up for what was seen
    TrendFilms,       \* the videos there are when the trends are looked at
    FetchBatch,       \* fetchBatch: how many of them a full pass takes
    Viral,            \* viralThreshold
    QueueSize,        \* events the trending updater takes
    TrendCap,         \* entries kept in the global trending set
    MaxViews,         \* bounds the engagement of a video
    MaxPageFaults     \* commands and statements that fail, keys that expire, videos that go (bounds them)

ASSUME FeedServiceAssumption ==
    /\ Films \subseteq Nat \ {0} /\ Recommendations \subseteq SUBSET Films /\ RankOf \in [Films -> Nat \ {0}]
    /\ TrendFilms \subseteq Films /\ PageLimit \in Nat \ {0} /\ Spare \in Nat /\ Viral \in Nat \ {0} /\ QueueSize \in Nat
    /\ FetchBatch \in Nat \ {0} /\ TrendCap \in Nat \ {0} /\ MaxViews \in Nat /\ MaxPageFaults \in Nat

VARIABLES
    matter,           \* "pages" or "trends"
    releases,         \* videos that are published
    videoMeta,        \* feed:video:meta:<video>
    feedSet,          \* the feed's sorted set
    precomputed,      \* the mark of a feed that was built
    seenSet,          \* what the session has seen
    shownSet,         \* what the session was shown
    shownAgain,       \* it was shown a video once more
    cursors,          \* the cursors it was given
    pageCall,         \* what each request or goroutine does
    builtOf,          \* the items of the last build that was finished
    buildsMet,        \* two of the session's builds and invalidations overlapped
    pagesMet,         \* two of the session's requests overlapped
    recent,           \* videos made within windowHours
    views,            \* engagement of each video
    trending,         \* feed:trending: the engagement an entry was scored by
    trendingCategory, \* the same in the set of its category
    events,           \* the channel of the trending updater
    eventCounts,      \* its counters
    missed,           \* events that found the channel full
    updater,          \* what it does
    pageFaults

pageVars == <<matter, releases, videoMeta, feedSet, precomputed, seenSet, shownSet, shownAgain, cursors, pageCall, builtOf,
              buildsMet, pagesMet, recent, views, trending, trendingCategory, events, eventCounts, missed, updater,
              pageFaults>>
trendState == <<recent, views, trending, trendingCategory, events, eventCounts, missed, updater>>
pageState == <<videoMeta, feedSet, precomputed, seenSet, shownSet, shownAgain, cursors, pageCall, builtOf, buildsMet, pagesMet>>

PageSteps == {"new", "recommend", "del", "zadd", "mark", "fetch", "filter", "see", "undo", "ended"}
Unasked == [step |-> "new", reads |-> FALSE, at |-> 0, items |-> {}, next |-> 0]
IdleUpdater == [step |-> "wait", todo |-> {}, now |-> {}, of |-> 0]

FeedServiceInit ==
    /\ matter \in {"pages", "trends"}
    /\ releases = (IF matter = "pages" THEN Films ELSE TrendFilms) /\ videoMeta = {} /\ feedSet = {} /\ precomputed = FALSE /\ seenSet = {}
    /\ shownSet = {} /\ shownAgain = FALSE /\ cursors = {0} /\ pageCall = [c \in PageCalls |-> Unasked]
    /\ builtOf = {} /\ buildsMet = FALSE /\ pagesMet = FALSE
    /\ views = [v \in Films |-> 0] /\ eventCounts = views /\ missed = views /\ events = {}
    /\ recent = releases /\ trending = [v \in {} |-> 0] /\ trendingCategory = trending /\ updater = IdleUpdater
    /\ pageFaults = 0

--------
\* Descending by score, then by name.
Precedes(v, w) == RankOf[v] > RankOf[w] \/ (RankOf[v] = RankOf[w] /\ v > w)
First(S, n) == {v \in S : Cardinality({w \in S : Precedes(w, v)}) < n}
Lowest(S) == CHOOSE v \in S : \A w \in S : v = w \/ Precedes(w, v)

PageGoes(c, step) == pageCall' = [pageCall EXCEPT ![c] = IF step = "ended" THEN [Unasked EXCEPT !.step = step] ELSE [@ EXCEPT !.step = step]]
InSteps(S) == {c \in PageCalls : pageCall[c].step \in S}
Building == InSteps({"recommend", "del", "zadd", "mark", "undo"})
Reading == {c \in PageCalls : pageCall[c].reads}

\* HasPrecomputedFeed; the page that is asked for begins below the cursor, 0 for the first.
GetForYouFeed(c) ==
    /\ matter = "pages" /\ pageCall[c].step = "new"
    /\ \E at \in cursors :
          pageCall' = [pageCall EXCEPT ![c] = [Unasked EXCEPT !.reads = TRUE, !.at = at,
                                                   !.step = IF precomputed THEN "fetch" ELSE "recommend"]]
    /\ pagesMet' = (pagesMet \/ Reading # {})
    /\ buildsMet' = (buildsMet \/ (~precomputed /\ Building # {}))
    /\ UNCHANGED <<matter, releases, videoMeta, feedSet, precomputed, seenSet, shownSet, shownAgain, cursors, builtOf, trendState, pageFaults>>

\* GetUsersNeedingPrecompute: the worker builds a feed that has no mark.
precomputeFeedType(c) ==
    /\ matter = "pages" /\ pageCall[c].step = "new" /\ ~precomputed
    /\ PageGoes(c, "recommend")
    /\ buildsMet' = (buildsMet \/ Building # {})
    /\ UNCHANGED <<matter, releases, videoMeta, feedSet, precomputed, seenSet, shownSet, shownAgain, cursors, builtOf, pagesMet, trendState, pageFaults>>

\* GetVideosByIDs for what is recommended, trending or followed: those whose metadata is kept, or
\* that are published.
buildForYouFeedCache(c) ==
    /\ pageCall[c].step = "recommend"
    /\ \E R \in Recommendations :
          /\ videoMeta' = videoMeta \cup (R \cap releases)
          /\ pageCall' = [pageCall EXCEPT ![c].step = "del", ![c].items = R \cap (videoMeta \cup releases)]
    /\ UNCHANGED <<matter, releases, feedSet, precomputed, seenSet, shownSet, shownAgain, cursors, builtOf, buildsMet, pagesMet, trendState, pageFaults>>

\* PrecomputeFeed: a pipeline that deletes, adds, and leaves the mark.
DeleteFeed(c) ==
    /\ pageCall[c].step = "del"
    /\ feedSet' = {} /\ PageGoes(c, "zadd")
    /\ UNCHANGED <<matter, releases, videoMeta, precomputed, seenSet, shownSet, shownAgain, cursors, builtOf, buildsMet, pagesMet, trendState, pageFaults>>
AddItems(c) ==
    /\ pageCall[c].step = "zadd"
    /\ feedSet' = feedSet \cup pageCall[c].items /\ videoMeta' = videoMeta \cup pageCall[c].items
    /\ PageGoes(c, "mark")
    /\ UNCHANGED <<matter, releases, precomputed, seenSet, shownSet, shownAgain, cursors, builtOf, buildsMet, pagesMet, trendState, pageFaults>>
MarkPrecomputed(c) ==
    /\ pageCall[c].step = "mark"
    /\ precomputed' = TRUE /\ builtOf' = pageCall[c].items
    /\ IF pageCall[c].reads THEN pageCall' = [pageCall EXCEPT ![c].step = "fetch", ![c].items = {}]
       ELSE PageGoes(c, "ended")
    /\ UNCHANGED <<matter, releases, videoMeta, feedSet, seenSet, shownSet, shownAgain, cursors, buildsMet, pagesMet, trendState, pageFaults>>

\* InvalidateFeed: the feed, then its mark.
InvalidateFeed(c) ==
    /\ matter = "pages" /\ pageCall[c].step = "new"
    /\ feedSet' = {} /\ PageGoes(c, "undo")
    /\ buildsMet' = (buildsMet \/ Building # {})
    /\ UNCHANGED <<matter, releases, videoMeta, precomputed, seenSet, shownSet, shownAgain, cursors, builtOf, pagesMet, trendState, pageFaults>>
DeleteMark(c) ==
    /\ pageCall[c].step = "undo"
    /\ precomputed' = FALSE /\ PageGoes(c, "ended")
    /\ UNCHANGED <<matter, releases, videoMeta, feedSet, seenSet, shownSet, shownAgain, cursors, builtOf, buildsMet, pagesMet, trendState, pageFaults>>

Below(at) == {v \in feedSet : at = 0 \/ RankOf[v] < at}

\* getFromSortedSet: the next cursor is the last of the items that still have metadata.
getFromSortedSet(c) ==
    LET n == PageLimit + Spare
        zs == First(Below(pageCall[c].at), n)
        items == zs \cap (videoMeta \cup releases)
    IN /\ pageCall[c].step = "fetch"
       /\ videoMeta' = videoMeta \cup (zs \cap releases)
       /\ pageCall' = [pageCall EXCEPT ![c].step = IF items = {} THEN "see" ELSE "filter", ![c].items = items,
              ![c].next = IF Cardinality(Below(pageCall[c].at)) > n /\ items # {} THEN RankOf[Lowest(items)] ELSE 0]
       /\ UNCHANGED <<matter, releases, feedSet, precomputed, seenSet, shownSet, shownAgain, cursors, builtOf, buildsMet, pagesMet, trendState, pageFaults>>

\* deduplicateAndMark: what was not seen, up to the limit; then it is marked, and shown.
FilterSeenVideos(c) ==
    /\ pageCall[c].step = "filter"
    /\ pageCall' = [pageCall EXCEPT ![c].step = "see", ![c].items = First(@ \ seenSet, PageLimit)]
    /\ UNCHANGED <<matter, releases, videoMeta, feedSet, precomputed, seenSet, shownSet, shownAgain, cursors, builtOf, buildsMet, pagesMet, trendState, pageFaults>>
Shows(c, items) ==
    /\ shownSet' = shownSet \cup items
    /\ shownAgain' = (shownAgain \/ items \cap shownSet # {})
    /\ cursors' = cursors \cup {pageCall[c].next}
    /\ PageGoes(c, "ended")
MarkVideosAsSeen(c) ==
    /\ pageCall[c].step = "see" /\ Shows(c, pageCall[c].items)
    /\ seenSet' = seenSet \cup pageCall[c].items
    /\ UNCHANGED <<matter, releases, videoMeta, feedSet, precomputed, builtOf, buildsMet, pagesMet, trendState, pageFaults>>

\* A failure: a build that fails leaves the request to read what is there; what cannot be filtered
\* or marked is shown all the same.
PageCallFails(c) ==
    /\ pageFaults < MaxPageFaults /\ pageFaults' = pageFaults + 1
    /\ \/ /\ c \in Building \/ pageCall[c].step = "fetch"
          /\ PageGoes(c, IF c \in Building /\ pageCall[c].reads THEN "fetch" ELSE "ended")
          /\ UNCHANGED <<shownSet, shownAgain, cursors>>
       \/ pageCall[c].step = "filter" /\ Shows(c, First(pageCall[c].items, PageLimit))
       \/ pageCall[c].step = "see" /\ Shows(c, pageCall[c].items)
    /\ UNCHANGED <<matter, releases, videoMeta, feedSet, precomputed, seenSet, builtOf, buildsMet, pagesMet, trendState>>

\* A video is unpublished, by another service; nobody tells this one.
Unpublish ==
    /\ pageFaults < MaxPageFaults /\ pageFaults' = pageFaults + 1
    /\ \E v \in releases : releases' = releases \ {v}
    /\ UNCHANGED <<matter, pageState, trendState>>
FeedKeyExpires ==
    /\ matter = "pages" /\ pageFaults < MaxPageFaults /\ pageFaults' = pageFaults + 1
    /\ \/ feedSet' = {} /\ UNCHANGED <<videoMeta, precomputed>>
       \/ precomputed' = FALSE /\ UNCHANGED <<videoMeta, feedSet>>
       \/ videoMeta' = {} /\ UNCHANGED <<feedSet, precomputed>>
    /\ UNCHANGED <<matter, releases, seenSet, shownSet, shownAgain, cursors, pageCall, builtOf, buildsMet, pagesMet, trendState>>

--------
\* SendEvent: an engagement is in the table; its event is queued, or dropped when the channel is
\* full.  The events of one video are alike; each has its number.
SendEvent ==
    /\ matter = "trends"
    /\ \E v \in TrendFilms :
          /\ views[v] < MaxViews
          /\ views' = [views EXCEPT ![v] = @ + 1]
          /\ IF Cardinality(events) < QueueSize
             THEN events' = events \cup {[video |-> v, n |-> views[v] + 1]} /\ UNCHANGED missed
             ELSE missed' = [missed EXCEPT ![v] = @ + 1] /\ UNCHANGED events
    /\ UNCHANGED <<matter, releases, pageState, recent, trending, trendingCategory, eventCounts, updater, pageFaults>>

\* handleEvent: the one that reaches the threshold has its video scored anew.
handleEvent ==
    /\ matter = "trends" /\ updater.step = "wait"
    /\ \E e \in events :
          LET v == e.video
              viral == eventCounts[v] + 1 >= Viral
          IN /\ \A o \in events : o.video = v => e.n <= o.n
             /\ events' = events \ {e}
             /\ eventCounts' = [eventCounts EXCEPT ![v] = IF viral THEN 0 ELSE @ + 1]
             /\ updater' = IF viral THEN [step |-> "stats", todo |-> {v}, now |-> {}, of |-> v] ELSE updater
    /\ UNCHANGED <<matter, releases, pageState, recent, views, trending, trendingCategory, missed, pageFaults>>

\* Time passes: the oldest of the window leaves it.  A video has its number as it was made.
VideoAges ==
    /\ matter = "trends"
    /\ \E v \in recent : (\A w \in recent : v <= w) /\ recent' = recent \ {v}
    /\ UNCHANGED <<matter, releases, pageState, views, trending, trendingCategory, events, eventCounts, missed, updater, pageFaults>>

\* GetRecentVideoIDs: the newest of the window.
RecentVideos == {v \in recent \cap releases : Cardinality({w \in recent \cap releases : w > v}) < FetchBatch}

\* Every hour: all counters begin anew, and the videos of the window are scored.
RecalculateAll ==
    /\ matter = "trends" /\ updater.step = "wait"
    /\ eventCounts' = [v \in Films |-> 0]
    /\ updater' = IF RecentVideos = {} THEN updater
                  ELSE [step |-> "stats", todo |-> RecentVideos, now |-> {}, of |-> 0]
    /\ UNCHANGED <<matter, releases, pageState, recent, views, trending, trendingCategory, events, missed, pageFaults>>

\* GetVideoEngagementStats of those that are published, then UpsertTrendingScore for each: a
\* pipeline writes the score to the global set and then to that of the category.
Entering == {v \in updater.todo : v \in releases}
GetVideoEngagementStats ==
    /\ updater.step = "stats"
    /\ updater' = [step |-> "upsert", todo |-> {[video |-> v, n |-> views[v]] : v \in Entering}, now |-> {},
                   of |-> updater.of]
    /\ UNCHANGED <<matter, releases, pageState, recent, views, trending, trendingCategory, events, eventCounts, missed, pageFaults>>
Scored(board, s) == [v \in DOMAIN board \cup {s.video} |-> IF v = s.video THEN s.n ELSE board[v]]
UpsertTrendingScore ==
    /\ updater.step = "upsert" /\ updater.todo # {}
    /\ \E s \in updater.todo :
          /\ trending' = Scored(trending, s)
          /\ updater' = [updater EXCEPT !.step = "category", !.todo = @ \ {s}, !.now = {s}]
    /\ UNCHANGED <<matter, releases, pageState, recent, views, trendingCategory, events, eventCounts, missed, pageFaults>>
UpsertInCategory ==
    /\ updater.step = "category"
    /\ \E s \in updater.now : trendingCategory' = Scored(trendingCategory, s)
    /\ updater' = [updater EXCEPT !.step = "upsert", !.now = {}]
    /\ UNCHANGED <<matter, releases, pageState, recent, views, trending, events, eventCounts, missed, pageFaults>>

\* TrimTrendingSet after all: the lowest go, of the global set only.
TrimTrendingSet ==
    /\ updater.step = "upsert" /\ updater.todo = {}
    /\ IF updater.of # 0 THEN UNCHANGED trending
       ELSE \E K \in SUBSET DOMAIN trending :
                /\ Cardinality(K) = IF Cardinality(DOMAIN trending) > TrendCap THEN TrendCap ELSE Cardinality(DOMAIN trending)
                /\ \A v \in K, w \in DOMAIN trending \ K : trending[v] >= trending[w]
                /\ trending' = [v \in K |-> trending[v]]
    /\ updater' = IdleUpdater
    /\ UNCHANGED <<matter, releases, pageState, recent, views, trendingCategory, events, eventCounts, missed, pageFaults>>

\* The updater's statement fails: the counters were reset all the same.  A score that is not
\* written, to one of the sets or to both, is logged and the next is taken; so is a trim.
UpdaterFails ==
    /\ updater.step # "wait" /\ pageFaults < MaxPageFaults
    /\ \/ updater.step = "stats" /\ updater' = IdleUpdater
       \/ /\ updater.step = "upsert" /\ updater.todo # {}
          /\ \E s \in updater.todo :
                \/ updater' = [updater EXCEPT !.todo = @ \ {s}]
                \/ updater' = [updater EXCEPT !.step = "category", !.todo = @ \ {s}, !.now = {s}]
       \/ updater.step = "upsert" /\ updater.todo = {} /\ updater' = IdleUpdater
       \/ updater.step = "category" /\ updater' = [updater EXCEPT !.step = "upsert", !.now = {}]
    /\ pageFaults' = pageFaults + 1
    /\ UNCHANGED <<matter, releases, pageState, recent, views, trending, trendingCategory, events, eventCounts, missed>>

FeedServiceNext ==
    \/ \E c \in PageCalls :
          \/ GetForYouFeed(c) \/ precomputeFeedType(c) \/ buildForYouFeedCache(c) \/ DeleteFeed(c)
          \/ AddItems(c) \/ MarkPrecomputed(c) \/ InvalidateFeed(c) \/ DeleteMark(c)
          \/ getFromSortedSet(c) \/ FilterSeenVideos(c) \/ MarkVideosAsSeen(c) \/ PageCallFails(c)
    \/ Unpublish \/ FeedKeyExpires
    \/ SendEvent \/ handleEvent \/ VideoAges \/ RecalculateAll \/ GetVideoEngagementStats
    \/ UpsertTrendingScore \/ UpsertInCategory \/ TrimTrendingSet \/ UpdaterFails

FeedServiceSpec == FeedServiceInit /\ [][FeedServiceNext]_pageVars

--------
\* Properties.

FeedServiceTypeOK ==
    /\ matter \in {"pages", "trends"} /\ releases \subseteq Films /\ videoMeta \subseteq Films
    /\ feedSet \subseteq Films /\ precomputed \in BOOLEAN /\ seenSet \subseteq Films /\ builtOf \subseteq Films
    /\ shownSet \subseteq Films /\ shownAgain \in BOOLEAN /\ cursors \subseteq {0} \cup {RankOf[v] : v \in Films}
    /\ pageCall \in [PageCalls -> [step : PageSteps, reads : BOOLEAN, at : {0} \cup {RankOf[v] : v \in Films},
                                   items : SUBSET Films, next : {0} \cup {RankOf[v] : v \in Films}]]
    /\ buildsMet \in BOOLEAN /\ pagesMet \in BOOLEAN
    /\ views \in [Films -> 0..MaxViews] /\ missed \in [Films -> 0..MaxViews] /\ eventCounts \in [Films -> 0..Viral]
    /\ recent \subseteq Films /\ DOMAIN trending \subseteq Films /\ DOMAIN trendingCategory \subseteq Films /\ Cardinality(events) <= QueueSize
    /\ updater.step \in {"wait", "stats", "upsert", "category"} /\ pageFaults \in 0..MaxPageFaults

\* A session is shown no video twice, whatever is rebuilt between its requests, unless two of
\* them were answered at a time, or what was seen could not be read or written.
NothingIsShownTwice == ~pagesMet /\ pageFaults = 0 => ~shownAgain

\* Following the cursors comes to an end: each is below the one it was given for.
CursorsDescend == \A c \in PageCalls : pageCall[c].next # 0 /\ pageCall[c].at # 0 => pageCall[c].next < pageCall[c].at

\* A feed with a mark is what one build has put there, unless another, or an invalidation, came
\* between; and it has only what was published or still has its metadata.
FeedsAreOfOneBuild ==
    precomputed /\ ~buildsMet /\ Building = {} /\ pageFaults = 0 => feedSet = builtOf /\ feedSet \subseteq videoMeta

\* The score of a video that a full pass takes lags behind its engagement by no more than what is
\* queued, what is counted below the threshold and what was dropped, unless a recalculation
\* failed.  Nothing bounds the lag of an older one: every pass forgets what was counted for it.
Lag(v) == views[v] - trending[v]
TrendsKeepUp ==
    updater.step = "wait" /\ pageFaults = 0 =>
        \A v \in DOMAIN trending \cap RecentVideos : Lag(v) <= Cardinality({e \in events : e.video = v}) + eventCounts[v] + missed[v]
\* What trends does so in its category and by the same score, whatever full and single passes came
\* one upon the other, unless one of the two writes failed.
TrendsHaveACategory ==
    pageFaults = 0 => \A v \in DOMAIN trending :
        (\A s \in updater.now : s.video # v) => v \in DOMAIN trendingCategory /\ trendingCategory[v] = trending[v]

FeedsAreServed ==
    /\ NothingIsShownTwice /\ CursorsDescend /\ FeedsAreOfOneBuild
    /\ TrendsKeepUp /\ TrendsHaveACategory


=====

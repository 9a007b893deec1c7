---- MODULE FeedCache ----
\* The feeds the Redis library keeps per reader: the following feed, which
\* a new clip is pushed to chunk by chunk, the For-You feed, which is
\* replaced or appended to, and the metadata of the clips, kept once under
\* their author.  A script and a transaction are one step; a chunk of a
\* fan-out, of a removal, and every other command is a step of its own.
\*
\* Clips are numbers: the later or the better one is the higher.
EXTENDS Naturals, FiniteSets

CONSTANTS
    FeedCalls,        \* requests
    FeedReaders,      \* a chunk has one of them
    FeedClips,
    FeedWindow,       \* entries a feed keeps
    MaxFeedFaults     \* commands that fail and keys that expire (bounds them)

ASSUME FeedAssumption == FeedClips \subseteq Nat \ {0} /\ FeedWindow \in Nat \ {0} /\ MaxFeedFaults \in Nat

VARIABLES
    following,        \* following_feed:<reader>
    forYou,           \* foryou_feed:<reader>
    itemMeta,         \* feed_meta:<author>:<clip>: none or the request whose item it holds
    feedCall,         \* what each request does
    delivered,        \* clips that came to a following feed since it was last begun
    thinned,          \* readers from whose following feed a clip was taken since then
    takenDown,        \* clips whose removal is through
    broughtBack,      \* clips that were fed in while, or after, they were being removed
    lastItem,         \* the request that last wrote a clip's item
    itemCrossed,      \* the counters of an item were written over a later item
    feedFaults

feedVars == <<following, forYou, itemMeta, feedCall, delivered, thinned, takenDown, broughtBack,
              lastItem, itemCrossed, feedFaults>>

FeedSteps == {"new", "meta", "fan", "metas", "replace", "append", "remove", "counters", "ended"}
Unfed == [step |-> "new", clips |-> {}, readers |-> {}, todo |-> {}, read |-> {}]

FeedInit ==
    /\ following = [r \in FeedReaders |-> {}] /\ forYou = following /\ delivered = following
    /\ itemMeta = [v \in FeedClips |-> {}] /\ lastItem = itemMeta
    /\ feedCall = [c \in FeedCalls |-> Unfed]
    /\ thinned = {} /\ takenDown = {} /\ broughtBack = {} /\ itemCrossed = FALSE /\ feedFaults = 0

--------
\* ZADD and ZREMRANGEBYRANK 0 -(window+1): the highest are left.
Newest(F) == {v \in F : Cardinality({w \in F : w > v}) < FeedWindow}

Feeds(c, step) == feedCall' = [feedCall EXCEPT ![c] = IF step = "ended" THEN [Unfed EXCEPT !.step = step]
                                                      ELSE [@ EXCEPT !.step = step]]
FeedBegins(c, step, clips, readers, todo) ==
    /\ feedCall[c].step = "new"
    /\ feedCall' = [feedCall EXCEPT ![c] = [step |-> step, clips |-> clips, readers |-> readers, todo |-> todo, read |-> {}]]
    /\ UNCHANGED <<following, forYou, itemMeta, delivered, thinned, takenDown, lastItem, itemCrossed, feedFaults>>
\* Clips that are gone, or on their way out, are fed in.
FedIn(clips) ==
    broughtBack \cup {v \in clips : v \in takenDown
                                    \/ \E d \in FeedCalls : feedCall[d].step = "remove" /\ v \in feedCall[d].clips}

\* PushToFollowingFeed: the metadata, then the followers' feeds, a chunk at a time.
PushToFollowingFeed(c) ==
    \E v \in FeedClips, R \in SUBSET FeedReaders :
        FeedBegins(c, "meta", {v}, R, R) /\ broughtBack' = FedIn({v})
FanOut(c) ==
    /\ feedCall[c].step = "fan"
    /\ \E r \in feedCall[c].todo :
          /\ following' = [following EXCEPT ![r] = Newest(@ \cup feedCall[c].clips)]
          /\ delivered' = [delivered EXCEPT ![r] = @ \cup feedCall[c].clips]
          /\ IF feedCall[c].todo = {r} THEN Feeds(c, "ended")
             ELSE feedCall' = [feedCall EXCEPT ![c].todo = @ \ {r}]
    /\ UNCHANGED <<forYou, itemMeta, thinned, takenDown, broughtBack, lastItem, itemCrossed, feedFaults>>

\* SetForYouFeed: the metadata of each clip, then the feed at once.
SetForYouFeed(c) ==
    \E V \in SUBSET FeedClips, r \in FeedReaders :
        /\ Cardinality(V) \in 1..FeedWindow
        /\ FeedBegins(c, "metas", V, {r}, V) /\ broughtBack' = FedIn(V)
ReplaceFeed(c) ==
    /\ feedCall[c].step = "replace"
    /\ forYou' = [r \in FeedReaders |-> IF r \in feedCall[c].readers THEN feedCall[c].clips ELSE forYou[r]]
    /\ Feeds(c, "ended")
    /\ UNCHANGED <<following, itemMeta, delivered, thinned, takenDown, broughtBack, lastItem, itemCrossed, feedFaults>>

\* AppendToForYouFeed: the feed first, the metadata after.
AppendToForYouFeed(c) ==
    \E v \in FeedClips, r \in FeedReaders :
        FeedBegins(c, "append", {v}, {r}, {}) /\ broughtBack' = FedIn({v})
AddToFeed(c) ==
    /\ feedCall[c].step = "append"
    /\ forYou' = [r \in FeedReaders |-> IF r \in feedCall[c].readers THEN Newest(forYou[r] \cup feedCall[c].clips) ELSE forYou[r]]
    /\ Feeds(c, "meta")
    /\ UNCHANGED <<following, itemMeta, delivered, thinned, takenDown, broughtBack, lastItem, itemCrossed, feedFaults>>

\* setFeedItemMeta: the item as the request has it.
Writes(c, v) ==
    /\ itemMeta' = [itemMeta EXCEPT ![v] = {c}] /\ lastItem' = [lastItem EXCEPT ![v] = {c}]
    /\ UNCHANGED <<following, forYou, delivered, thinned, takenDown, broughtBack, itemCrossed, feedFaults>>
setFeedItemMeta(c) ==
    /\ feedCall[c].step = "meta"
    /\ \E v \in feedCall[c].clips : Writes(c, v)
    /\ Feeds(c, IF feedCall[c].todo = {} THEN "ended" ELSE "fan")
setNextItemMeta(c) ==
    /\ feedCall[c].step = "metas"
    /\ \E v \in feedCall[c].todo :
          /\ Writes(c, v)
          /\ feedCall' = [feedCall EXCEPT ![c].todo = @ \ {v},
                                          ![c].step = IF feedCall[c].todo = {v} THEN "replace" ELSE "metas"]

\* UpdateVideoEngagement: the item is read, its counters set, and written back.
UpdateVideoEngagement(c) ==
    /\ feedCall[c].step = "new"
    /\ \E v \in FeedClips :
          /\ itemMeta[v] # {}
          /\ feedCall' = [feedCall EXCEPT ![c].step = "counters", ![c].clips = {v}, ![c].read = itemMeta[v]]
    /\ UNCHANGED <<following, forYou, itemMeta, delivered, thinned, takenDown, broughtBack, lastItem, itemCrossed, feedFaults>>
WriteCounters(c) ==
    /\ feedCall[c].step = "counters"
    /\ \E v \in feedCall[c].clips :
          /\ itemMeta' = [itemMeta EXCEPT ![v] = feedCall[c].read]
          /\ itemCrossed' = (itemCrossed \/ feedCall[c].read # lastItem[v])
    /\ Feeds(c, "ended")
    /\ UNCHANGED <<following, forYou, delivered, thinned, takenDown, broughtBack, lastItem, feedFaults>>

--------
\* InvalidateVideoFromFeeds: from both feeds of the readers, a chunk at a time.
InvalidateVideoFromFeeds(c) ==
    \E v \in FeedClips :
        /\ FeedBegins(c, "remove", {v}, {}, FeedReaders)
        /\ broughtBack' = (broughtBack \cup {w \in {v} : \E d \in FeedCalls \ {c} :
                               w \in feedCall[d].clips /\ feedCall[d].step # "counters"})
RemoveFromFeeds(c) ==
    /\ feedCall[c].step = "remove"
    /\ \E r \in feedCall[c].todo :
          /\ following' = [following EXCEPT ![r] = @ \ feedCall[c].clips]
          /\ forYou' = [forYou EXCEPT ![r] = @ \ feedCall[c].clips]
          /\ thinned' = thinned \cup {r}
          /\ IF feedCall[c].todo = {r} THEN Feeds(c, "ended") /\ takenDown' = takenDown \cup feedCall[c].clips
             ELSE feedCall' = [feedCall EXCEPT ![c].todo = @ \ {r}] /\ UNCHANGED takenDown
    /\ UNCHANGED <<itemMeta, delivered, broughtBack, lastItem, itemCrossed, feedFaults>>

\* InvalidateUserFeed, InvalidateFollowerFeeds, or the end of a feed's time to live.
InvalidateFeeds ==
    /\ feedFaults < MaxFeedFaults /\ feedFaults' = feedFaults + 1
    /\ \E R \in SUBSET FeedReaders :
          /\ following' = [r \in FeedReaders |-> IF r \in R THEN {} ELSE following[r]]
          /\ delivered' = [r \in FeedReaders |-> IF r \in R THEN {} ELSE delivered[r]]
          /\ thinned' = thinned \ R
          /\ forYou' = forYou \/ forYou' = [r \in FeedReaders |-> IF r \in R THEN {} ELSE forYou[r]]
    /\ UNCHANGED <<itemMeta, feedCall, takenDown, broughtBack, lastItem, itemCrossed>>

MetaExpires ==
    /\ feedFaults < MaxFeedFaults /\ feedFaults' = feedFaults + 1
    /\ \E v \in FeedClips : itemMeta[v] # {} /\ itemMeta' = [itemMeta EXCEPT ![v] = {}]
    /\ UNCHANGED <<following, forYou, feedCall, delivered, thinned, takenDown, broughtBack, lastItem, itemCrossed>>

\* A command fails: the rest of the chunks, or the metadata, is not written.
FeedCallFails(c) ==
    /\ feedCall[c].step \notin {"new", "ended"} /\ feedFaults < MaxFeedFaults
    /\ Feeds(c, "ended") /\ feedFaults' = feedFaults + 1
    /\ UNCHANGED <<following, forYou, itemMeta, delivered, thinned, takenDown, broughtBack, lastItem, itemCrossed>>

FeedNext ==
    \/ \E c \in FeedCalls :
          \/ PushToFollowingFeed(c) \/ FanOut(c) \/ SetForYouFeed(c) \/ ReplaceFeed(c)
          \/ AppendToForYouFeed(c) \/ AddToFeed(c) \/ setFeedItemMeta(c) \/ setNextItemMeta(c)
          \/ UpdateVideoEngagement(c) \/ WriteCounters(c)
          \/ InvalidateVideoFromFeeds(c) \/ RemoveFromFeeds(c) \/ FeedCallFails(c)
    \/ InvalidateFeeds \/ MetaExpires

FeedSpec == FeedInit /\ [][FeedNext]_feedVars

--------
\* Reading.  A page has the clips below its cursor, 0 for the first page; the cursor of the next
\* one is its last clip, shown or not.
PageAfter(F, cursor) == LET below == {v \in F : cursor = 0 \/ v < cursor}
                        IN {v \in below : \A w \in below : w <= v}
NextCursor(page) == IF page = {} THEN 0 ELSE CHOOSE v \in page : \A w \in page : v <= w

\* hydrateResults looks the metadata up under the reader, where it is for their own clips only.
hydrateResults(page, own) == {v \in page : itemMeta[v] # {} /\ v \in own}

\* What n pages have shown, and the cursor after them; a cursor of 0 is the end.
AfterPages(F, own) ==
    LET paging[n \in 0..Cardinality(FeedClips) + 1] ==
            IF n = 0 THEN [shown |-> {}, cursor |-> 0]
            ELSE LET before == paging[n - 1]
                     page == IF n > 1 /\ before.cursor = 0 THEN {} ELSE PageAfter(F, before.cursor)
                 IN [shown |-> before.shown \cup hydrateResults(page, own), cursor |-> NextCursor(page)]
    IN paging[Cardinality(FeedClips) + 1]

--------
\* Properties.

FeedTypeOK ==
    /\ following \in [FeedReaders -> SUBSET FeedClips] /\ forYou \in [FeedReaders -> SUBSET FeedClips]
    /\ delivered \in [FeedReaders -> SUBSET FeedClips] /\ thinned \subseteq FeedReaders
    /\ itemMeta \in [FeedClips -> SUBSET FeedCalls] /\ lastItem \in [FeedClips -> SUBSET FeedCalls]
    /\ feedCall \in [FeedCalls -> [step : FeedSteps, clips : SUBSET FeedClips, readers : SUBSET FeedReaders,
                                   todo : SUBSET (FeedReaders \cup FeedClips), read : SUBSET FeedCalls]]
    /\ takenDown \subseteq FeedClips /\ broughtBack \subseteq FeedClips
    /\ itemCrossed \in BOOLEAN /\ feedFaults \in 0..MaxFeedFaults

\* In whatever order the pushes of concurrent authors arrive, a following feed has the newest of
\* the clips delivered to it; after a clip was taken from it, it has no others.
FeedsHaveTheNewest ==
    \A r \in FeedReaders : /\ r \notin thinned => \A v \in delivered[r] :
                                  v \in following[r] <=> Cardinality({w \in delivered[r] : w > v}) < FeedWindow
                           /\ following[r] \subseteq delivered[r]
                           /\ Cardinality(following[r]) <= FeedWindow /\ Cardinality(forYou[r]) <= FeedWindow

\* A clip that was taken down is in nobody's feed, unless a request fed it in meanwhile or later.
TakenDownStaysAway ==
    \A v \in takenDown \ broughtBack, r \in FeedReaders : v \notin following[r] \cup forYou[r]

\* What a feed offers has its metadata, unless it expired, or its append is not through; and the
\* metadata is the item written last, unless an update of the counters crossed with a new item.
ItemsAreKept ==
    /\ feedFaults = 0 =>
           \A r \in FeedReaders : \A v \in following[r] \cup forYou[r] :
               itemMeta[v] # {} \/ \E c \in FeedCalls : feedCall[c].step = "meta" /\ v \in feedCall[c].clips
    /\ ~itemCrossed => \A v \in FeedClips : itemMeta[v] \in {{}, lastItem[v]}

\* Whatever a feed has and whatever of it is the reader's own: page after page they get all whose
\* metadata is found, and then the end.
PagesReachTheEnd ==
    \A feed, own \in SUBSET FeedClips :
        AfterPages(feed, own) = [shown |-> hydrateResults(feed, own), cursor |-> 0]

FeedsAreKept == FeedsHaveTheNewest /\ TakenDownStaysAway /\ ItemsAreKept /\ PagesReachTheEnd

=====

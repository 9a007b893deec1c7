---- MODULE SearchIndex ----
\* Elasticsearch as it is filled and read.  A behaviour is about the
\* RealTimeIndexer, from the topic through the bulk queue to the index;
\* about a reader who takes the pages of one search, or scrolls; or about
\* the history of what one user searched for, kept in Redis.
\*
\* A document is what the filters of the queries look at: is_active,
\* is_deleted or is_banned (gone), and privacy_level or status (public).
\* What matches the words of a search, and its score, are data.
EXTENDS Naturals, FiniteSets, Functions, Sequences, SequencesExt

CONSTANTS
    Docs,            \* documents a reader searches
    MaxChanges,      \* events of the topic
    QueueRoom,       \* cfg.Workers * 100
    BatchSize,       \* items that make a flush (500)
    PerPage,
    Savers, Terms,   \* goroutines that save a search, and what is searched for
    HistorySize,     \* 50
    SuggestLimit,    \* suggestions asked for
    MaxSearchFaults  \* requests that fail, restarts, changes under a reader (bounds them)

ASSUME SearchAssumption ==
    /\ Docs \subseteq Nat /\ {QueueRoom, BatchSize, PerPage, HistorySize, SuggestLimit} \subseteq Nat \ {0}
    /\ {MaxChanges, MaxSearchFaults} \subseteq Nat

VARIABLES
    searchMode,
    filtering,       \* the filters of the indexer
    changes,         \* the topic, for one document
    read, committed, \* events read, and those known to be committed
    inHand,          \* the item Add waits with
    queued, batch,   \* bi.queue and bi.buf, as numbers of events
    inIndex,         \* what the index has for it
    unindexed,       \* events that were read and did not reach the index
    score,           \* how the documents rank
    found,           \* those the query finds now
    reader,
    unsteady,        \* documents found or lost while the reader reads
    history,         \* search:history
    saving,
    pushed,          \* terms pushed since the last DEL
    overlapped,      \* two saves were under way at once, or a save failed between its commands
    searchFaults

indexVars == <<filtering, changes, read, committed, inHand, queued, batch, inIndex, unindexed>>
readerVars == <<score, found, reader, unsteady>>
historyVars == <<history, saving, pushed, overlapped>>
searchVars == <<searchMode, indexVars, readerVars, historyVars, searchFaults>>

--------
\* Documents, and the queries.

Fields == {"active", "gone", "public"}
Absent == <<>>
Bare == [f \in Fields |-> "unset"]
Document(active, gone, public) == [active |-> active, gone |-> gone, public |-> public]
LiveDoc == Document("yes", "no", "yes")
GoneDoc == Document("no", "yes", "yes")
SecretDoc == Document("yes", "no", "no")

\* A query names the fields it requires and the ways it can be paged.
Active == [active |-> "yes"]
Kept == [active |-> "yes", gone |-> "no"]
AsksFor(needs, ways) == [needs |-> needs, ways |-> ways]

FullTextSearch == AsksFor(Kept, {"from", "after"})
SearchByHashtag == AsksFor(Kept, {"from", "after"})
SearchByLocation == AsksFor(Kept, {"from", "after"})
GetTrending == AsksFor(Kept, {"from", "after"})
FindSimilarVideos == AsksFor(Kept, {"first"})
GetPersonalizedFeed == AsksFor(LiveDoc, {"from"})
buildFullTextQuery == AsksFor(Kept, {"from"})
buildTrendingQuery == AsksFor(Kept, {"from"})
buildGeoQuery == AsksFor(Active, {"from"})
UserSearch == AsksFor(Kept, {"from", "after"})
Autocomplete == AsksFor(Kept, {"first"})
FuzzySearch == AsksFor(Kept, {"first"})
FindSimilarUsers == AsksFor(Kept, {"first"})
PeopleYouMayKnow == AsksFor(Kept, {"first"})
GetTrendingCreators == AsksFor(Kept, {"from"})

CombinedSearch == {buildFullTextQuery, buildTrendingQuery, buildGeoQuery}
VideoQueries ==
    CombinedSearch \cup {FullTextSearch, SearchByHashtag, SearchByLocation, GetTrending, FindSimilarVideos,
                         GetPersonalizedFeed}
UserQueries == {UserSearch, Autocomplete, FuzzySearch, FindSimilarUsers, PeopleYouMayKnow, GetTrendingCreators}

\* The searches of the search-service: of an index with a status, or with none.
SearchVideos == AsksFor([public |-> "yes"], {"from"})
SearchUsers == AsksFor(Active, {"from"})
SearchHashtags == AsksFor(<<>>, {"from"})
SearchForProducts == AsksFor(Active, {"from"})
SearchSounds == AsksFor(<<>>, {"from"})
ServiceQueries == {SearchVideos, SearchUsers, SearchHashtags, SearchForProducts, SearchSounds}

AllQueries == VideoQueries \cup UserQueries \cup ServiceQueries

Finds(q, doc) == doc # Absent /\ \A f \in DOMAIN q.needs : doc[f] = q.needs[f]

--------
NoReader == [step |-> "idle", way |-> "first", page |-> 0, got |-> <<>>, last |-> 0, snapshot |-> <<>>, open |-> FALSE]
NotSaving == [step |-> "idle", term |-> ""]

SearchInit ==
    /\ searchMode \in {"index", "reader", "history"}
    /\ filtering \in BOOLEAN /\ (searchMode # "index" => ~filtering)
    /\ changes = <<>> /\ read = 0 /\ committed = 0 /\ inHand = 0 /\ queued = <<>> /\ batch = <<>>
    /\ inIndex = Absent /\ unindexed = {}
    /\ score \in [Docs -> 1..Cardinality(Docs)] /\ found \in SUBSET Docs
    /\ \E way \in (UNION {q.ways : q \in AllQueries}) \cup {"scroll"} : reader = [NoReader EXCEPT !.way = way]
    /\ searchMode # "reader" => found = {} /\ reader.way = "first" /\ \A d \in Docs : score[d] = 1
    /\ unsteady = {}
    /\ history = <<>> /\ saving = [s \in Savers |-> NotSaving] /\ pushed = <<>> /\ overlapped = FALSE
    /\ searchFaults = 0

\* What s has from place m to place n.
Between(s, m, n) == SubSeq(s, m, IF n < Len(s) THEN n ELSE Len(s))
GoesWrong == searchFaults < MaxSearchFaults /\ searchFaults' = searchFaults + 1

--------
\* The indexer.  What concerns one document goes through one topic and
\* one goroutine.

Whole(doc) == [type |-> "created", body |-> doc]
Partial(fields) == [type |-> "updated", body |-> fields]
Deleted == [type |-> "deleted", body |-> Bare]
Events ==
    {Whole(doc) : doc \in {LiveDoc, GoneDoc, SecretDoc}} 
    \cup {Partial(Bare), Partial([Bare EXCEPT !.gone = "yes"]), Deleted}

\* A partial update comes with no document.
ActiveContentFilter(event) == event.type # "updated" /\ (event.type = "created" => event.body.gone # "yes")
PrivacyFilter(event) == event.type = "created" => event.body.public = "yes"
Accepted(event) == filtering => ActiveContentFilter(event) /\ PrivacyFilter(event)

\* What Elasticsearch does with an item: an update of what is not there makes it (doc_as_upsert).
BulkIndex(doc, event) ==
    CASE event.type = "deleted" -> Absent
      [] event.type = "created" -> event.body
      [] OTHER -> [f \in Fields |-> IF event.body[f] # "unset" THEN event.body[f]
                                    ELSE IF doc = Absent THEN "unset" ELSE doc[f]]

Applied(items) == FoldLeft(LAMBDA doc, n : BulkIndex(doc, changes[n]), inIndex, items)

\* The event after those read, again or for the first time; its offset may be committed from here on.
consumeTopic ==
    /\ searchMode = "index" /\ inHand = 0 /\ read < MaxChanges
    /\ read' = read + 1
    /\ IF read < Len(changes) THEN UNCHANGED changes ELSE \E event \in Events : changes' = Append(changes, event)
    /\ inHand' = IF Accepted(changes'[read']) THEN read' ELSE 0
    /\ UNCHANGED <<searchMode, filtering, committed, queued, batch, inIndex, unindexed, readerVars, historyVars,
                   searchFaults>>

\* Add waits for room in the channel.
Add ==
    /\ inHand # 0 /\ Len(queued) < QueueRoom
    /\ queued' = Append(queued, inHand) /\ inHand' = 0
    /\ UNCHANGED <<searchMode, filtering, changes, read, committed, batch, inIndex, unindexed, readerVars, historyVars,
                   searchFaults>>

\* The items of a flush are applied in order but those that are lost: all when the request fails.
flush(items) ==
    \E rejected \in SUBSET ToSet(items) :
        /\ IF rejected = {} THEN UNCHANGED searchFaults ELSE GoesWrong
        /\ inIndex' = Applied(SelectSeq(items, LAMBDA n : n \notin rejected))
        /\ unindexed' = (unindexed \ ToSet(items)) \cup rejected
        /\ batch' = <<>>

\* The only goroutine of the bulk indexer takes the oldest item, and flushes when there are enough.
Dispatch ==
    /\ queued # <<>> /\ queued' = Tail(queued)
    /\ LET items == Append(batch, Head(queued))
       IN IF Len(items) >= BatchSize THEN flush(items)
          ELSE batch' = items /\ UNCHANGED <<inIndex, unindexed, searchFaults>>
    /\ UNCHANGED <<searchMode, filtering, changes, read, committed, inHand, readerVars, historyVars>>

FlushInterval ==
    /\ batch # <<>> /\ flush(batch)
    /\ UNCHANGED <<searchMode, filtering, changes, read, committed, inHand, queued, readerVars, historyVars>>

Underway == ToSet(queued) \cup ToSet(batch) \cup ({inHand} \ {0})

\* The process dies: what it held is gone, and it goes on from a committed offset.
Crash ==
    /\ searchMode = "index" /\ read > 0 /\ GoesWrong
    /\ \E n \in committed..read : committed' = n /\ read' = n /\ unindexed' = unindexed \cup {k \in Underway : k <= n}
    /\ inHand' = 0 /\ queued' = <<>> /\ batch' = <<>>
    /\ UNCHANGED <<searchMode, filtering, changes, inIndex, readerVars, historyVars>>

\* Stop: Add gives up what it waits with, the offsets are committed, and the dispatcher may see that it
\* is done before it has taken all of the queue; what it took it flushes.
Stop ==
    /\ searchMode = "index" /\ Underway # {} /\ searchFaults < MaxSearchFaults
    /\ \E taken \in 0..Len(queued) :
          /\ inIndex' = Applied(batch \o SubSeq(queued, 1, taken))
          /\ unindexed' = (unindexed \ Underway) \cup ({inHand} \ {0}) \cup {queued[i] : i \in taken + 1..Len(queued)}
    /\ committed' = read /\ inHand' = 0 /\ queued' = <<>> /\ batch' = <<>> /\ searchFaults' = searchFaults + 1
    /\ UNCHANGED <<searchMode, filtering, changes, read, readerVars, historyVars>>

--------
\* A reader of one search.

\* Equal scores come in any order, and not in the same one twice.
Rankings(docs) == {s \in SetToSeqs(docs) : \A i, j \in 1..Len(s) : i < j => score[s[i]] >= score[s[j]]}
PageOf(s, n) == Between(s, n * PerPage + 1, (n + 1) * PerPage)

\* The page at From, or after the last one's sort values.
PageRead ==
    IF reader.way = "after"
    THEN {PageOf(s, 0) : s \in Rankings({d \in found : reader.page = 0 \/ score[d] < reader.last})}
    ELSE {PageOf(s, reader.page) : s \in Rankings(found)}

Search ==
    /\ searchMode = "reader" /\ reader.way # "scroll" /\ reader.step \in {"idle", "reading"}
    /\ \E hits \in PageRead :
          reader' = [reader EXCEPT !.page = @ + 1, !.got = @ \o hits,
                                   !.last = IF hits = <<>> THEN @ ELSE score[Last(hits)],
                                   !.step = IF Len(hits) < PerPage \/ reader.way = "first" THEN "done" ELSE "reading"]
    /\ UNCHANGED <<searchMode, indexVars, score, found, unsteady, historyVars, searchFaults>>

\* The first page of a scroll fixes what all of them hold.
Scroll ==
    /\ searchMode = "reader" /\ reader.way = "scroll" /\ reader.step = "idle"
    /\ \E s \in Rankings(found) :
          reader' = [reader EXCEPT !.step = "reading", !.snapshot = s, !.open = TRUE, !.page = 1,
                                   !.got = PageOf(s, 0)]
    /\ UNCHANGED <<searchMode, indexVars, score, found, unsteady, historyVars, searchFaults>>

\* ScrollAll goes on to an empty page, and clears the context whatever it ends with.
ScrollNext ==
    /\ reader.way = "scroll" /\ reader.step = "reading"
    /\ LET hits == PageOf(reader.snapshot, reader.page)
       IN reader' = IF hits = <<>> THEN [reader EXCEPT !.step = "done", !.open = FALSE]
                    ELSE [reader EXCEPT !.page = @ + 1, !.got = @ \o hits]
    /\ UNCHANGED <<searchMode, indexVars, score, found, unsteady, historyVars, searchFaults>>

\* A request of the reader fails, or what it calls with the hits of a scroll does.
SearchFails ==
    /\ searchMode = "reader" /\ reader.step \in {"idle", "reading"} /\ GoesWrong
    /\ reader' = [reader EXCEPT !.step = "failed", !.open = FALSE]
    /\ UNCHANGED <<searchMode, indexVars, score, found, unsteady, historyVars>>

\* Between two pages a document is indexed or removed.
Changed ==
    /\ reader.step = "reading" /\ GoesWrong
    /\ \E d \in Docs : found' = (found \ {d}) \cup ({d} \ found) /\ unsteady' = unsteady \cup {d}
    /\ UNCHANGED <<searchMode, indexVars, score, reader, historyVars>>

--------
\* The history of a user.

Midway == {s \in Savers : saving[s].step \in {"push", "trim"}}
ThenSaves(s, step) == saving' = [saving EXCEPT ![s].step = step]

\* A search starts a goroutine that saves it.
UnifiedSearch(s) ==
    /\ searchMode = "history" /\ saving[s].step = "idle" /\ Len(pushed) < MaxChanges
    /\ \E t \in Terms : saving' = [saving EXCEPT ![s] = [step |-> "save", term |-> t]]
    /\ UNCHANGED <<searchMode, indexVars, readerVars, history, pushed, overlapped, searchFaults>>

\* The commands of a plain pipeline: LREM, LPUSH, LTRIM.
RemoveDuplicates(s) ==
    /\ saving[s].step = "save" /\ ThenSaves(s, "push")
    /\ history' = SelectSeq(history, LAMBDA t : t # saving[s].term)
    /\ overlapped' = (overlapped \/ Midway # {})
    /\ UNCHANGED <<searchMode, indexVars, readerVars, pushed, searchFaults>>

Prepend(s) ==
    /\ saving[s].step = "push" /\ ThenSaves(s, "trim")
    /\ history' = <<saving[s].term>> \o history /\ pushed' = <<saving[s].term>> \o pushed
    /\ UNCHANGED <<searchMode, indexVars, readerVars, overlapped, searchFaults>>

KeepLast(s) ==
    /\ saving[s].step = "trim" /\ saving' = [saving EXCEPT ![s] = NotSaving]
    /\ history' = Between(history, 1, HistorySize)
    /\ UNCHANGED <<searchMode, indexVars, readerVars, pushed, overlapped, searchFaults>>

\* The connection is lost between two commands.
SaveFails(s) ==
    /\ s \in Midway /\ GoesWrong
    /\ saving' = [saving EXCEPT ![s] = NotSaving] /\ overlapped' = TRUE
    /\ UNCHANGED <<searchMode, indexVars, readerVars, history, pushed>>

DeleteSearchHistory ==
    /\ searchMode = "history" /\ history # <<>> /\ GoesWrong
    /\ history' = <<>> /\ pushed' = <<>> /\ overlapped' = (Midway # {})
    /\ UNCHANGED <<searchMode, indexVars, readerVars, saving>>

\* The suggestions for a prefix that the terms in `matching` have: from the history up to half of them,
\* from the trending terms, and what Elasticsearch completes.  An entry of the history is looked at
\* before it is asked whether there are enough.
TakenOnce(done, more) == FoldLeft(LAMBDA had, t : IF t \in ToSet(had) THEN had ELSE Append(had, t), done, more)
UpTo(n, done, more, matching) ==
    LET Full(had, i) == i > 1 /\ Len(had) >= n
    IN FoldLeft(LAMBDA had, i : IF Full(had, i) \/ more[i] \notin matching THEN had ELSE TakenOnce(had, <<more[i]>>),
                done, [i \in 1..Len(more) |-> i])
GetSearchSuggestions(matching, trending, completions) ==
    LET own == UpTo(SuggestLimit \div 2, <<>>, history, matching)
        withTrends == UpTo(SuggestLimit, own, trending, matching)
        room == IF Len(withTrends) < SuggestLimit THEN SuggestLimit - Len(withTrends) ELSE 0
    IN Between(TakenOnce(withTrends, Between(completions, 1, room)), 1, SuggestLimit)

IndexerStep == consumeTopic \/ Add \/ Dispatch \/ FlushInterval \/ Crash \/ Stop
ReaderStep == Search \/ Scroll \/ ScrollNext \/ SearchFails \/ Changed
HistoryStep ==
    \/ DeleteSearchHistory
    \/ \E s \in Savers : UnifiedSearch(s) \/ RemoveDuplicates(s) \/ Prepend(s) \/ KeepLast(s) \/ SaveFails(s)

SearchNext == IndexerStep \/ ReaderStep \/ HistoryStep

SearchSpec == SearchInit /\ [][SearchNext]_searchVars

--------
SearchTypeOK ==
    /\ searchMode \in {"index", "reader", "history"} /\ filtering \in BOOLEAN
    /\ changes \in Seq(Events) /\ read \in 0..Len(changes) /\ committed \in 0..read /\ inHand \in 0..read
    /\ Underway \cup unindexed \subseteq 1..Len(changes)
    /\ inIndex = Absent \/ inIndex \in [Fields -> {"unset", "yes", "no"}]
    /\ found \cup unsteady \subseteq Docs /\ score \in [Docs -> Nat]
    /\ reader.got \in Seq(Docs) /\ reader.snapshot \in Seq(Docs)
    /\ reader.step \in {"idle", "reading", "done", "failed"}
    /\ history \in Seq(Terms) /\ pushed \in Seq(Terms) /\ overlapped \in BOOLEAN
    /\ \A s \in Savers : saving[s].step \in {"idle", "save", "push", "trim"}
    /\ searchFaults \in 0..MaxSearchFaults

\* When the indexer has caught up, the index has for a document what its accepted events say one after the
\* other, as long as none was lost since the last that was whole or removed it.
Replay == FoldLeft(BulkIndex, Absent, SelectSeq(changes, Accepted))
Takes(n, types) == Accepted(changes[n]) /\ changes[n].type \in types
LastOf(types) == {n \in 1..Len(changes) : Takes(n, types) /\ \A k \in n + 1..Len(changes) : ~Takes(k, types)}
NoneLost == \A k \in unindexed : \E n \in LastOf({"created", "deleted"}) : k < n
CaughtUp == read = Len(changes) /\ Underway = {}
IndexFollowsTheTopic == CaughtUp /\ NoneLost => inIndex = Replay

\* Then what was deleted is not found again by videos' and users' queries, partial updates after it or not; and
\* what an event said is gone only the query for what is near finds, unless a filter dropped that event.
WhatIsGoneIsHidden ==
    CaughtUp /\ NoneLost =>
        /\ (\E n \in LastOf({"created", "deleted"}) : changes[n] = Deleted)
              => \A q \in VideoQueries \cup UserQueries : ~Finds(q, inIndex)
        /\ (~filtering /\ changes # <<>> /\ Last(changes).body.gone = "yes")
              => \A q \in (VideoQueries \cup UserQueries) \ {buildGeoQuery} : ~Finds(q, inIndex)

\* A scroll sees once all that was there when it began; pages after the last one's values never show one
\* twice, and show all that stayed, if no two are equal; numbered pages do if nothing changes either.
NoTies == IsInjective(score)
PagesAreWhole ==
    /\ reader.step \in {"done", "failed"} => ~reader.open
    /\ reader.way \in {"after", "scroll"} => IsInjective(reader.got)
    /\ reader.step = "done" =>
          CASE reader.way = "scroll" -> reader.got = reader.snapshot
            [] reader.way = "after" -> NoTies => found \ unsteady \subseteq ToSet(reader.got)
            [] reader.way = "from" -> NoTies /\ unsteady = {} => Rankings(found) = {reader.got}
            [] OTHER -> Len(reader.got) <= PerPage

\* A history holds what was saved since it was last deleted, no more than its size but for saves under way or cut off,
\* and exactly the latest of them, each once, if no two saves overlapped.
Latest == Between(TakenOnce(<<>>, pushed), 1, HistorySize)
HistoryIsTheLatest ==
    /\ ToSet(history) \subseteq ToSet(pushed)
    /\ Len(history) <= HistorySize + Cardinality(Midway) + searchFaults
    /\ Midway = {} /\ ~overlapped => history = Latest

\* Whatever the history is, suggestions are never more than asked for, no two are the same, and the latest
\* matching search comes first if there is one (and two or more are asked for).
Completed(matching) == SelectSeq(SetToSeq(Terms), LAMBDA t : t \in matching)
SuggestionsAreSound ==
    searchMode = "history" =>
        \A matching \in SUBSET Terms, trending \in SetToSeqs(Terms) :
            LET suggestions == GetSearchSuggestions(matching, trending, Completed(matching))
                own == SelectSeq(history, LAMBDA t : t \in matching)
            IN /\ Len(suggestions) <= SuggestLimit /\ IsInjective(suggestions)
               /\ own # <<>> /\ SuggestLimit > 1 => suggestions # <<>> /\ Head(suggestions) = Head(own)

SearchHolds == /\ IndexFollowsTheTopic /\ WhatIsGoneIsHidden /\ PagesAreWhole
               /\ HistoryIsTheLatest /\ SuggestionsAreSound

=====

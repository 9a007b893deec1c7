---- MODULE Boards ----
\* The boards of the Redis library, leaderboards and trends: sorted sets
\* cut to the highest few, and the metadata kept beside them.  A Lua
\* script, or a transaction under WATCH, is one step; a pipeline is as
\* many steps as it has commands that matter here, as is a read that is
\* followed by a write.
\*
\* A behaviour is about the gifts of a period, hashtags and sounds,
\* videos, live streams, or about one of the two locks.  The windows of
\* time of a board get the same commands; one is kept here.
EXTENDS Integers, FiniteSets

CONSTANTS
    BoardCalls,       \* requests
    Entries,          \* gifters, tags, videos or streams
    TopN,             \* entries kept
    Points,           \* diamonds, scores, viewers
    MaxBoardFaults    \* commands that fail and keys that expire (bounds them)

ASSUME BoardAssumption ==
    IsFiniteSet(Entries) /\ TopN \in Nat \ {0} /\ Points \subseteq Nat \ {0} /\ MaxBoardFaults \in Nat

VARIABLES
    subject,
    board,            \* the sorted set: the score of an entry, 0 for none
    mostViewed,             \* lb:livestream:today
    metadata,         \* the JSON beside it
    earned,           \* what was added to an entry, or last set for it, since it was removed
    boardCall,        \* what each request does
    dropped,          \* entries cut off the board at some time
    lock,             \* the lock of the refresh, or of the reset
    lapsed,           \* requests whose lock expired before they were through
    torn,             \* two requests changed one entry at a time
    boardFaults

boardVars == <<subject, board, mostViewed, metadata, earned, boardCall, dropped, lock, lapsed, torn, boardFaults>>

Subjects == {"gifts", "tags", "videos", "streams", "refresh", "reset"}
NoMeta == [is |-> FALSE, n |-> 0, live |-> FALSE]
Waiting == [op |-> "none", step |-> "new", entry |-> {}, points |-> 0, read |-> NoMeta, dirty |-> FALSE]

BoardInit ==
    /\ subject \in Subjects
    /\ board = [e \in Entries |-> 0] /\ mostViewed = board /\ earned = board
    /\ metadata = [e \in Entries |-> NoMeta]
    /\ boardCall = [c \in BoardCalls |-> Waiting]
    /\ dropped = {} /\ lock = {} /\ lapsed = {} /\ torn = FALSE /\ boardFaults = 0

--------
\* What is left after ZREMRANGEBYRANK 0 -(n+1): of two equal ones either can be the lower.
Cuts(scores) ==
    {K \in SUBSET {e \in Entries : scores[e] > 0} :
        LET listed == {e \in Entries : scores[e] > 0}
        IN /\ Cardinality(K) = IF Cardinality(listed) > TopN THEN TopN ELSE Cardinality(listed)
           /\ \A e \in listed \ K, k \in K : scores[e] <= scores[k]}
Cut(scores, K) == [e \in Entries |-> IF e \in K THEN scores[e] ELSE 0]
CutTo(scores) ==
    \E K \in Cuts(scores) :
        /\ board' = Cut(scores, K)
        /\ dropped' = dropped \cup {e \in Entries : scores[e] > 0 /\ e \notin K}

Who(c) == CHOOSE e \in Entries : e \in boardCall[c].entry
Finished(c) == [Waiting EXCEPT !.op = boardCall[c].op, !.step = "ended"]
Moves(c, step) == boardCall' = [boardCall EXCEPT ![c] = IF step = "ended" THEN Finished(c) ELSE [@ EXCEPT !.step = step]]
\* A command changes the key of e's metadata: a transaction that watches it will fail.
Touches(c, e, step) ==
    boardCall' = [d \in BoardCalls |->
        IF d = c THEN IF step = "ended" THEN Finished(c) ELSE [boardCall[c] EXCEPT !.step = step]
        ELSE IF boardCall[d].entry = {e} THEN [boardCall[d] EXCEPT !.dirty = TRUE] ELSE boardCall[d]]
BoardBegins(c, about, op, step, points) ==
    /\ boardCall[c].step = "new" /\ subject = about
    /\ \E e \in Entries :
          /\ boardCall' = [boardCall EXCEPT ![c] = [Waiting EXCEPT !.op = op, !.step = step, !.entry = {e}, !.points = points]]
          /\ torn' = (torn \/ \E d \in BoardCalls : boardCall[d].entry = {e} /\ about # "tags")
    /\ UNCHANGED <<subject, board, mostViewed, metadata, earned, dropped, lock, lapsed, boardFaults>>

\* RecordGift: a script for the boards of the four periods.
RecordGift(c) ==
    /\ boardCall[c].step = "new" /\ subject = "gifts"
    /\ \E e \in Entries, p \in Points :
          /\ CutTo([board EXCEPT ![e] = @ + p])
          /\ earned' = [earned EXCEPT ![e] = @ + p]
    /\ Moves(c, "ended")
    /\ UNCHANGED <<subject, mostViewed, metadata, lock, lapsed, torn, boardFaults>>

\* GetTopGifters and the like: the board in its order.
Ranked(e) == board[e] > 0
AtTop(e) == Ranked(e) /\ \A d \in Entries : board[d] <= board[e]
\* What is shown with a ranked tag or video: its metadata, or the score alone.
GetTrendingHashtags(e) == IF metadata[e].is THEN metadata[e].n ELSE board[e]
hydrateVideos(e) == IF metadata[e].is THEN metadata[e].n ELSE board[e]
\* A stream is shown with the viewers of the board and the rest of its metadata.
hydrateLiveStreams(e) == [viewers |-> board[e], gifts |-> metadata[e].n]

--------
\* IncrHashtag and RecordSoundUsage: read under WATCH, then count and rank in one transaction.
IncrHashtag(c) == BoardBegins(c, "tags", "count", "watch", 1)
WatchMeta(c) ==
    /\ boardCall[c].step = "watch"
    /\ boardCall' = [boardCall EXCEPT ![c].step = "exec", ![c].read = metadata[Who(c)], ![c].dirty = FALSE]
    /\ UNCHANGED <<subject, board, mostViewed, metadata, earned, dropped, lock, lapsed, torn, boardFaults>>

\* Mutant: the key is not watched.
UnchangedSinceForgotten(c) == TRUE

UnchangedSince(c) == ~boardCall[c].dirty
ExecCount(c) ==
    LET e == Who(c)
        n == boardCall[c].read.n + 1
    IN /\ boardCall[c].step = "exec"
       /\ IF UnchangedSince(c)
          THEN /\ metadata' = [metadata EXCEPT ![e] = [is |-> TRUE, n |-> n, live |-> FALSE]]
               /\ CutTo([board EXCEPT ![e] = n])
               /\ earned' = [earned EXCEPT ![e] = @ + 1]
               /\ Touches(c, e, "ended")
          ELSE Moves(c, "ended") /\ UNCHANGED <<metadata, board, dropped, earned>>
       /\ UNCHANGED <<subject, mostViewed, lock, lapsed, torn, boardFaults>>

\* RemoveHashtag and RemoveVideo: a pipeline that takes the entry from the board, then its key.
RemoveEntry(c) == \E about \in {"tags", "videos"} : BoardBegins(c, about, "remove", "zrem", 0)
TakeFromBoard(c) ==
    /\ boardCall[c].step = "zrem"
    /\ board' = [board EXCEPT ![Who(c)] = 0]
    /\ Moves(c, IF boardCall[c].op = "end" THEN "down" ELSE "del")
    /\ UNCHANGED <<subject, mostViewed, metadata, earned, dropped, lock, lapsed, torn, boardFaults>>
DeleteMeta(c) ==
    LET e == Who(c)
    IN /\ boardCall[c].step = "del"
       /\ metadata' = [metadata EXCEPT ![e] = NoMeta]
       /\ earned' = [earned EXCEPT ![e] = 0]
       /\ torn' = (torn \/ board[e] > 0)
       /\ Touches(c, e, "ended")
       /\ UNCHANGED <<subject, board, mostViewed, dropped, lock, lapsed, boardFaults>>

--------
\* RecordVideoEngagement ranks by script, then sets the metadata; BulkUpdateVideoScores is a
\* pipeline that sets, adds, and cuts.
RecordVideoEngagement(c) == \E p \in Points : BoardBegins(c, "videos", "record", "upsert", p)
BulkUpdateVideoScores(c) == \E p \in Points : BoardBegins(c, "videos", "bulk", "set", p)
UpsertVideo(c) ==
    /\ boardCall[c].step = "upsert"
    /\ CutTo([board EXCEPT ![Who(c)] = boardCall[c].points])
    /\ Moves(c, "set")
    /\ UNCHANGED <<subject, mostViewed, metadata, earned, lock, lapsed, torn, boardFaults>>
SetMeta(c) ==
    LET e == Who(c)
    IN /\ boardCall[c].step = "set"
       /\ metadata' = [metadata EXCEPT ![e] = [is |-> TRUE, n |-> boardCall[c].points, live |-> FALSE]]
       /\ earned' = [earned EXCEPT ![e] = boardCall[c].points]
       /\ Moves(c, IF boardCall[c].op = "bulk" THEN "zadd" ELSE "ended")
       /\ UNCHANGED <<subject, board, mostViewed, dropped, lock, lapsed, torn, boardFaults>>
AddBulk(c) ==
    /\ boardCall[c].step = "zadd"
    /\ board' = [board EXCEPT ![Who(c)] = boardCall[c].points]
    /\ Moves(c, "cut")
    /\ UNCHANGED <<subject, mostViewed, metadata, earned, dropped, lock, lapsed, torn, boardFaults>>
CutBulk(c) ==
    /\ boardCall[c].step = "cut"
    /\ CutTo(board)
    /\ Moves(c, "ended")
    /\ UNCHANGED <<subject, mostViewed, metadata, earned, lock, lapsed, torn, boardFaults>>

--------
\* UpsertLiveStreamMeta: a stream starts, or its title changes.  The whole entry is the caller's,
\* with the gifts the caller has for it: none, or those that are there.
UpsertLiveStreamMeta(c) ==
    /\ boardCall[c].step = "new" /\ subject = "streams"
    /\ \E e \in Entries : \E n \in {0, metadata[e].n} :
          /\ metadata' = [metadata EXCEPT ![e] = [is |-> TRUE, n |-> n, live |-> TRUE]]
          /\ earned' = [earned EXCEPT ![e] = n]
          /\ torn' = (torn \/ \E d \in BoardCalls : boardCall[d].entry = {e})
    /\ Moves(c, "ended")
    /\ UNCHANGED <<subject, board, mostViewed, dropped, lock, lapsed, boardFaults>>

\* UpdateLiveStreamViewers: the viewers now, then the most of today.
UpdateLiveStreamViewers(c) == \E p \in Points : BoardBegins(c, "streams", "viewers", "active", p)
SetActive(c) ==
    /\ boardCall[c].step = "active"
    /\ board' = [board EXCEPT ![Who(c)] = boardCall[c].points]
    /\ Moves(c, "mostViewed")
    /\ UNCHANGED <<subject, mostViewed, metadata, earned, dropped, lock, lapsed, torn, boardFaults>>
RaisePeak(c) ==
    /\ boardCall[c].step = "mostViewed"
    /\ mostViewed' = [mostViewed EXCEPT ![Who(c)] = IF @ < boardCall[c].points THEN boardCall[c].points ELSE @]
    /\ Moves(c, "ended")
    /\ UNCHANGED <<subject, board, metadata, earned, dropped, lock, lapsed, torn, boardFaults>>

\* IncrLiveStreamGifts and EndLiveStream read the metadata and write it back; the end first takes
\* the stream from the board.
IncrLiveStreamGifts(c) == BoardBegins(c, "streams", "gift", "read", 1)
EndLiveStream(c) == BoardBegins(c, "streams", "end", "read", 0)
ReadMeta(c) ==
    /\ boardCall[c].step = "read"
    /\ LET read == metadata[Who(c)]
       IN boardCall' = [boardCall EXCEPT ![c] =
              IF boardCall[c].op = "end" THEN [@ EXCEPT !.step = "zrem", !.read = read]
              ELSE IF read.is THEN [@ EXCEPT !.step = "gift", !.read = read] ELSE Finished(c)]
    /\ UNCHANGED <<subject, board, mostViewed, metadata, earned, dropped, lock, lapsed, torn, boardFaults>>
WriteGift(c) ==
    LET e == Who(c)
    IN /\ boardCall[c].step = "gift"
       /\ metadata' = [metadata EXCEPT ![e] = [boardCall[c].read EXCEPT !.n = @ + 1]]
       /\ earned' = [earned EXCEPT ![e] = @ + 1]
       /\ Moves(c, "ended")
       /\ UNCHANGED <<subject, board, mostViewed, dropped, lock, lapsed, torn, boardFaults>>
WriteEnd(c) ==
    /\ boardCall[c].step = "down"
    /\ metadata' = IF boardCall[c].read.is THEN [metadata EXCEPT ![Who(c)] = [boardCall[c].read EXCEPT !.live = FALSE]]
                   ELSE metadata
    /\ Moves(c, "ended")
    /\ UNCHANGED <<subject, board, mostViewed, earned, dropped, lock, lapsed, torn, boardFaults>>

--------
\* SETNX: AcquireUpdateLock and ResetPeriodLeaderboard.
Acquire(c) ==
    /\ boardCall[c].step = "new" /\ subject \in {"refresh", "reset"}
    /\ IF lock = {} THEN lock' = {c} /\ Moves(c, "held") ELSE Moves(c, "ended") /\ UNCHANGED lock
    /\ UNCHANGED <<subject, board, mostViewed, metadata, earned, dropped, lapsed, torn, boardFaults>>

\* The refresh gives its own lock back; the reset deletes whichever is there.
Release(c) ==
    /\ boardCall[c].step = "held"
    /\ lock' = IF subject = "refresh" THEN lock \ {c} ELSE {}
    /\ Moves(c, "ended")
    /\ UNCHANGED <<subject, board, mostViewed, metadata, earned, dropped, lapsed, torn, boardFaults>>
LockExpires ==
    /\ lock # {} /\ boardFaults < MaxBoardFaults
    /\ lock' = {} /\ lapsed' = lapsed \cup lock /\ boardFaults' = boardFaults + 1
    /\ UNCHANGED <<subject, board, mostViewed, metadata, earned, boardCall, dropped, torn>>

\* A command fails and what was to follow is not done.
BoardCallFails(c) ==
    /\ boardCall[c].step \notin {"new", "ended"} /\ boardFaults < MaxBoardFaults
    /\ Moves(c, "ended") /\ boardFaults' = boardFaults + 1
    /\ UNCHANGED <<subject, board, mostViewed, metadata, earned, dropped, lock, lapsed, torn>>

BoardNext ==
    \/ \E c \in BoardCalls :
          \/ RecordGift(c) \/ IncrHashtag(c) \/ WatchMeta(c) \/ ExecCount(c)
          \/ RemoveEntry(c) \/ TakeFromBoard(c) \/ DeleteMeta(c)
          \/ RecordVideoEngagement(c) \/ BulkUpdateVideoScores(c) \/ UpsertVideo(c) \/ SetMeta(c)
          \/ AddBulk(c) \/ CutBulk(c)
          \/ UpsertLiveStreamMeta(c) \/ UpdateLiveStreamViewers(c) \/ SetActive(c) \/ RaisePeak(c)
          \/ IncrLiveStreamGifts(c) \/ EndLiveStream(c) \/ ReadMeta(c) \/ WriteGift(c) \/ WriteEnd(c)
          \/ Acquire(c) \/ Release(c) \/ BoardCallFails(c)
    \/ LockExpires

BoardSpec == BoardInit /\ [][BoardNext]_boardVars

--------
\* Properties.

Ats(step) == {c \in BoardCalls : boardCall[c].step = step}
Still == \A c \in BoardCalls : boardCall[c].step \in {"new", "ended"}

BoardTypeOK ==
    /\ subject \in Subjects
    /\ board \in [Entries -> Nat] /\ mostViewed \in [Entries -> Nat] /\ earned \in [Entries -> Nat]
    /\ metadata \in [Entries -> [is : BOOLEAN, n : Nat, live : BOOLEAN]]
    /\ \A c \in BoardCalls : boardCall[c].entry \subseteq Entries /\ Cardinality(boardCall[c].entry) <= 1
    /\ dropped \subseteq Entries /\ Cardinality(lock) <= 1 /\ lapsed \subseteq BoardCalls
    /\ torn \in BOOLEAN /\ boardFaults \in 0..MaxBoardFaults

\* The best gifter stands at the top with all that was given, unless somebody's points were cut
\* off with them; nobody stands with more than they gave.
GiftsAreRanked ==
    subject = "gifts" =>
        /\ \A e \in Entries : board[e] <= earned[e]
        /\ \A e \in Entries : dropped = {} => board[e] = earned[e]
        /\ \A e \in Entries : (earned[e] > 0 /\ dropped = {} /\ \A d \in Entries : earned[d] <= earned[e]) => AtTop(e)

\* A tag counts every increment that was confirmed, and stands on the board with that count,
\* unless it was cut off, or counted between the two commands of a removal.
TagsAreCounted ==
    subject = "tags" /\ ~torn /\ Ats("del") = {} =>
        \A e \in Entries : /\ metadata[e].n = earned[e]
                           /\ Ranked(e) => GetTrendingHashtags(e) = earned[e] /\ board[e] = earned[e]
                           /\ board[e] = 0 /\ boardFaults = 0 => earned[e] = 0 \/ e \in dropped

\* With no request under way, a ranked video has the metadata of its score, if each was written
\* by one request at a time; the board is cut to its length.
VideosHaveTheirScore ==
    subject = "videos" /\ Still /\ ~torn /\ boardFaults = 0 =>
        /\ \A e \in Entries : Ranked(e) => metadata[e].is /\ hydrateVideos(e) = board[e]
        /\ Cardinality({e \in Entries : Ranked(e)}) <= TopN

\* A stream whose viewers, gifts, end and metadata come one at a time is shown with all its gifts
\* since its metadata was last stored, and with no more viewers than its mostViewed of the day.
StreamsAreKept ==
    subject = "streams" /\ Still /\ ~torn /\ boardFaults = 0 =>
        \A e \in Entries : LET shown == hydrateLiveStreams(e)
                            IN shown.viewers <= mostViewed[e] /\ shown.gifts = earned[e]

\* Of those whose lock has not expired one is at work; for the resets, only while none expired.
OneAtWork == (subject = "refresh" \/ lapsed = {}) => Cardinality(Ats("held") \ lapsed) <= 1

BoardsAreTrue == GiftsAreRanked /\ TagsAreCounted /\ VideosHaveTheirScore /\ StreamsAreKept /\ OneAtWork

=====

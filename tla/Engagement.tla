---- MODULE Engagement ----
\* The deployed backend (backend/main.go): follows, likes, bookmarks,
\* comments, notifications and videos in PostgreSQL.
\*
\* A handler runs several statements, each of its own (no transaction).
\* The rows of a relation and the counters that summarise it (followers,
\* following, likes, comments, like_count) are therefore written in
\* different steps, between which other requests run, a statement can fail
\* unnoticed, and the process can end.
EXTENDS Integers, FiniteSets, Sequences

CONSTANTS
    People,           \* users
    Clips,            \* ids of videos
    Remarks,          \* ids of comments
    Calls,            \* HTTP requests; each is used once (bounds everything)
    MaxEngFaults      \* statements that fail, requests that end early

ASSUME EngagementAssumption ==
    /\ MaxEngFaults \in Nat /\ "none" \notin People \cup Clips
    /\ IsFiniteSet(People) /\ IsFiniteSet(Remarks) /\ IsFiniteSet(Calls)

VARIABLES
    call,             \* what each request is doing
    video,            \* rows of videos: their owner
    remark,           \* rows of comments
    rows,             \* rows of follows, likes, comment_likes, bookmarks
    count,            \* the counter columns
    notices,          \* rows of notifications
    engFaults,
    lost,             \* counters that missed an update, so far
    overlapped,       \* rows two requests worked on at once, and their counters, so far
    redeleted         \* comments deleted again, so far

tables == <<video, remark, rows, count, notices>>
engGhosts == <<lost, overlapped, redeleted>>
engVars == <<call, tables, engFaults, engGhosts>>

\* Table, user, and what the row is about.
Rows == ({"follows"} \X People \X People)
        \cup ({"likes", "bookmarks"} \X People \X Clips)
        \cup ({"comment_likes"} \X People \X Remarks)
\* Counters; and what two requests can both be about.
CounterKeys == ({"followers", "following"} \X People)
               \cup ({"likes", "comments", "views"} \X Clips)
               \cup ({"like_count"} \X Remarks)
SharedKeys == CounterKeys \cup ({"follows"} \X People) \cup ({"bookmarks"} \X Clips)
              \cup ({"comment_likes", "comments", "pins"} \X Remarks)
NoRemark == [by |-> "none", clip |-> "none", pinned |-> FALSE, deleted |-> FALSE]
EngSteps == {"idle", "remove", "count", "notify", "delete", "pin", "done"}
IdleCall == [step |-> "idle", kind |-> "none", by |-> "none", on |-> "none",
             sign |-> 1, counted |-> 0, flag |-> FALSE]

\* A relation's counters are the number of its rows to begin with.
EngInit ==
    /\ call = [c \in Calls |-> IdleCall]
    /\ \E owner \in People : video \in [Clips -> {owner, "none"}]
    /\ remark = [m \in Remarks |-> NoRemark]
    /\ \E likers \in SUBSET People :
          /\ rows = {"likes"} \X likers \X {v \in Clips : video[v] # "none"}
          /\ count = [k \in CounterKeys |-> IF k[1] = "likes" /\ video[k[2]] # "none"
                                            THEN Cardinality(likers) ELSE 0]
    /\ notices = {}
    /\ engFaults = 0 /\ lost = {} /\ overlapped = {} /\ redeleted = {}

--------
\* A request: the counters it updates, one after another, and its end.

RowOf(c) == <<call[c].kind, call[c].by, call[c].on>>

CountersOf(r) ==
    CASE r.kind = "follows" -> << <<"followers", r.on>>, <<"following", r.by>> >>
      [] r.kind = "likes" -> << <<"likes", r.on>> >>
      [] r.kind = "comment_likes" -> << <<"like_count", r.on>> >>
      [] r.kind = "comments" -> << <<"comments", remark[r.on].clip>> >>
      [] r.kind = "views" -> << <<"views", r.on>> >>
      [] OTHER -> <<>>

\* The counters request c has still to update.
Pending(c) ==
    IF call[c].step = "count"
    THEN {CountersOf(call[c])[i] : i \in (call[c].counted + 1)..Len(CountersOf(call[c]))} ELSE {}
KeysOf(r) == {<<r.kind, r.on>>} \cup {CountersOf(r)[i] : i \in 1..Len(CountersOf(r))}

EngFault == engFaults < MaxEngFaults /\ engFaults' = engFaults + 1
NoEngFault == UNCHANGED engFaults

EngGoes(c, step) == call' = [call EXCEPT ![c].step = step]

\* Request c begins as record r; which counters it shares a row with is remembered.
Starts(c, r) ==
    /\ call[c].step = "idle"
    /\ call' = [call EXCEPT ![c] = r]
    /\ overlapped' = IF \E d \in Calls : /\ call[d].step \notin {"idle", "done"}
                                          /\ <<call[d].kind, call[d].on>> = <<r.kind, r.on>>
                                          /\ call[d].by = r.by
                     THEN overlapped \cup KeysOf(r) ELSE overlapped

Request(kind, u, x, step, sign) ==
    [IdleCall EXCEPT !.step = step, !.kind = kind, !.by = u, !.on = x, !.sign = sign]

\* Mutant: the floor is missing.
ShiftedUnclamped(n, sign) == n + sign

\* SET n = n + 1, or SET n = GREATEST(n - 1, 0).
Shifted(n, sign) == IF sign = 1 THEN n + 1 ELSE IF n > 0 THEN n - 1 ELSE 0

\* Where a request goes after i of its counters.
AfterCount(r, i) == IF i < Len(CountersOf(r)) THEN "count"
                    ELSE IF r.sign = 1 /\ r.kind \in {"follows", "likes", "comments"}
                         THEN "notify" ELSE "done"

\* One counter column.  The error of the statement is dropped.
UpdateCounter(c) ==
    /\ call[c].step = "count"
    /\ LET r == call[c]  i == r.counted + 1  k == CountersOf(r)[i] IN
          /\ call' = [call EXCEPT ![c].counted = i, ![c].step = AfterCount(r, i)]
          /\ \/ count' = [count EXCEPT ![k] = Shifted(@, r.sign)] /\ NoEngFault /\ UNCHANGED lost
             \/ UNCHANGED count /\ EngFault /\ lost' = lost \cup {k}
    /\ UNCHANGED <<video, remark, rows, notices, overlapped, redeleted>>

\* createNotification: for the one who is followed, or the owner of the video who
\* did not do it.  Its error is dropped too.
Addressee(r) == CASE r.kind = "follows" -> r.on
                  [] r.kind = "likes" -> video[r.on]
                  [] r.kind = "comments" -> video[remark[r.on].clip]
Notify(c) ==
    /\ call[c].step = "notify"
    /\ LET r == call[c] IN
          \/ /\ Addressee(r) # r.by
             /\ notices' = notices \cup {[call |-> c, type |-> r.kind, to |-> Addressee(r),
                                           actor |-> r.by, read |-> FALSE]}
             /\ NoEngFault
          \/ UNCHANGED notices /\ IF Addressee(r) = r.by THEN NoEngFault ELSE EngFault
    /\ EngGoes(c, "done")
    /\ UNCHANGED <<video, remark, rows, count, engGhosts>>

\* The process ends: what the request had still to write is never written.
EndEarly(c) ==
    /\ call[c].step \notin {"idle", "done"} /\ EngFault
    /\ lost' = lost \cup Pending(c)
    /\ EngGoes(c, "done")
    /\ UNCHANGED <<tables, overlapped, redeleted>>

--------
\* Follows.

\* INSERT ... ON CONFLICT DO NOTHING: a second follow changes nothing.
FollowUser(c, u, t) ==
    /\ u # t /\ <<"follows", u, t>> \notin rows
    /\ Starts(c, Request("follows", u, t, "count", 1))
    /\ rows' = rows \cup {<<"follows", u, t>>}
    /\ UNCHANGED <<video, remark, count, notices, engFaults, lost, redeleted>>

\* Mutant: the counters are lowered whether or not a row was deleted.
UnfollowUserAlways(c, u, t) ==
    /\ u # t
    /\ Starts(c, Request("follows", u, t, "count", -1))
    /\ rows' = rows \ {<<"follows", u, t>>}
    /\ UNCHANGED <<video, remark, count, notices, engFaults, lost, redeleted>>

UnfollowUser(c, u, t) ==
    /\ <<"follows", u, t>> \in rows
    /\ Starts(c, Request("follows", u, t, "count", -1))
    /\ rows' = rows \ {<<"follows", u, t>>}
    /\ UNCHANGED <<video, remark, count, notices, engFaults, lost, redeleted>>

--------
\* Likes of videos and of comments, bookmarks: the row is inserted, and if
\* it was there already it is deleted.

Toggle(c, table, u, x) ==
    /\ IF <<table, u, x>> \in rows
       THEN Starts(c, Request(table, u, x, "remove", -1)) /\ UNCHANGED rows
       ELSE /\ Starts(c, Request(table, u, x, IF table = "bookmarks" THEN "done" ELSE "count", 1))
            /\ rows' = rows \cup {<<table, u, x>>}
    /\ UNCHANGED <<video, remark, count, notices, engFaults, lost, redeleted>>

LikeVideo(c, u, v) == video[v] # "none" /\ Toggle(c, "likes", u, v)
LikeComment(c, u, m) == remark[m] # NoRemark /\ Toggle(c, "comment_likes", u, m)
ToggleBookmark(c, u, v) == video[v] # "none" /\ Toggle(c, "bookmarks", u, v)

\* The DELETE of a toggle.  Nobody looks whether it deleted a row, or failed.
RemoveRow(c) ==
    /\ call[c].step = "remove"
    /\ EngGoes(c, IF call[c].kind = "bookmarks" THEN "done" ELSE "count")
    /\ \/ rows' = rows \ {RowOf(c)} /\ NoEngFault /\ UNCHANGED lost
       \/ UNCHANGED rows /\ EngFault /\ lost' = lost \cup KeysOf(call[c])
    /\ UNCHANGED <<video, remark, count, notices, overlapped, redeleted>>

--------
\* Comments.

\* A comment or a reply: both are counted, and nothing checks what is replied to.
PostComment(c, u, v, m) ==
    /\ video[v] # "none" /\ remark[m] = NoRemark
    /\ remark' = [remark EXCEPT ![m] = [NoRemark EXCEPT !.by = u, !.clip = v]]
    /\ Starts(c, Request("comments", u, m, "count", 1))
    /\ UNCHANGED <<video, rows, count, notices, engFaults, lost, redeleted>>

\* The author is checked; that the comment is deleted already is not.
DeleteComment(c, u, m) ==
    /\ remark[m].by = u
    /\ Starts(c, Request("comments", u, m, "delete", -1))
    /\ UNCHANGED <<tables, engFaults, lost, redeleted>>

MarkDeleted(c) ==
    /\ call[c].step = "delete"
    /\ LET m == call[c].on IN
          \/ /\ remark' = [remark EXCEPT ![m].deleted = TRUE]
             /\ redeleted' = IF remark[m].deleted THEN redeleted \cup {m} ELSE redeleted
             /\ NoEngFault /\ UNCHANGED lost
          \/ UNCHANGED <<remark, redeleted>> /\ EngFault /\ lost' = lost \cup KeysOf(call[c])
    /\ EngGoes(c, "count")
    /\ UNCHANGED <<video, rows, count, notices, overlapped>>

\* The owner of the video reads the pin, and writes its opposite later.
PinComment(c, u, m) ==
    /\ remark[m] # NoRemark /\ video[remark[m].clip] = u
    /\ Starts(c, [Request("pins", u, m, "pin", 1) EXCEPT !.flag = remark[m].pinned])
    /\ UNCHANGED <<tables, engFaults, lost, redeleted>>

WritePin(c) ==
    /\ call[c].step = "pin"
    /\ \/ remark' = [remark EXCEPT ![call[c].on].pinned = ~call[c].flag] /\ NoEngFault
       \/ UNCHANGED remark /\ EngFault
    /\ EngGoes(c, "done")
    /\ UNCHANGED <<video, rows, count, notices, engGhosts>>

--------
\* Videos and notifications: one statement each.

UploadVideo(c, u, v) ==
    /\ video[v] = "none"
    /\ video' = [video EXCEPT ![v] = u]
    /\ Starts(c, Request("videos", u, v, "done", 1))
    /\ UNCHANGED <<remark, rows, count, notices, engFaults, lost, redeleted>>

ViewVideo(c, u, v) ==
    /\ video[v] # "none"
    /\ Starts(c, Request("views", u, v, "count", 1))
    /\ UNCHANGED <<tables, engFaults, lost, redeleted>>

MarkNotificationRead(u, n) ==
    /\ n.to = u /\ ~n.read
    /\ notices' = (notices \ {n}) \cup {[n EXCEPT !.read = TRUE]}
    /\ UNCHANGED <<call, video, remark, rows, count, engFaults, engGhosts>>

MarkAllNotificationsRead(u) ==
    /\ \E n \in notices : n.to = u /\ ~n.read
    /\ notices' = {[n EXCEPT !.read = @ \/ n.to = u] : n \in notices}
    /\ UNCHANGED <<call, video, remark, rows, count, engFaults, engGhosts>>

EngNext ==
    \/ \E c \in Calls, u, t \in People : FollowUser(c, u, t) \/ UnfollowUser(c, u, t)
    \/ \E c \in Calls, u \in People, v \in Clips :
          \/ LikeVideo(c, u, v) \/ ToggleBookmark(c, u, v) \/ ViewVideo(c, u, v)
          \/ UploadVideo(c, u, v)
    \/ \E c \in Calls, u \in People, m \in Remarks :
          \/ LikeComment(c, u, m) \/ DeleteComment(c, u, m) \/ PinComment(c, u, m)
          \/ \E v \in Clips : PostComment(c, u, v, m)
    \/ \E c \in Calls :
          UpdateCounter(c) \/ Notify(c) \/ RemoveRow(c) \/ MarkDeleted(c) \/ WritePin(c) \/ EndEarly(c)
    \/ \E u \in People :
          MarkAllNotificationsRead(u) \/ \E n \in notices : MarkNotificationRead(u, n)

EngSpec == EngInit /\ [][EngNext]_engVars

--------
\* What the list endpoints answer.

\* getFollowers, getFollowing, the users behind a like count.
Followers(u) == {f \in People : <<"follows", f, u>> \in rows}
Following(u) == {t \in People : <<"follows", u, t>> \in rows}
Likers(v) == {u \in People : <<"likes", u, v>> \in rows}
CommentLikers(m) == {u \in People : <<"comment_likes", u, m>> \in rows}
Standing(v) == {m \in Remarks : remark[m].clip = v /\ ~remark[m].deleted}

\* What the column of a counter should be.
Counted(k) ==
    CASE k[1] = "followers" -> Cardinality(Followers(k[2]))
      [] k[1] = "following" -> Cardinality(Following(k[2]))
      [] k[1] = "likes" -> Cardinality(Likers(k[2]))
      [] k[1] = "like_count" -> Cardinality(CommentLikers(k[2]))
      [] k[1] = "comments" -> Cardinality(Standing(k[2]))

--------
\* Properties.

Raising(k) == {c \in Calls : k \in Pending(c) /\ call[c].sign = 1}
Lowering(k) == {c \in Calls : k \in Pending(c) /\ call[c].sign = -1}
AddsUp(k) == count[k] + Cardinality(Raising(k)) - Cardinality(Lowering(k)) = Counted(k)
SummaryKeys == {k \in CounterKeys : k[1] # "views"}
FollowKeys == {"followers", "following"} \X People

EngTypeOK ==
    /\ \A c \in Calls : /\ DOMAIN call[c] = DOMAIN IdleCall
                        /\ call[c].step \in EngSteps /\ call[c].counted \in 0..2
    /\ video \in [Clips -> People \cup {"none"}]
    /\ remark \in [Remarks -> {NoRemark} \cup
           [by : People, clip : Clips, pinned : BOOLEAN, deleted : BOOLEAN]]
    /\ rows \subseteq Rows
    /\ count \in [CounterKeys -> Nat]
    /\ notices \subseteq [call : Calls, type : {"follows", "likes", "comments"}, to : People,
                          actor : People, read : BOOLEAN]
    /\ engFaults \in 0..MaxEngFaults
    /\ lost \subseteq SharedKeys /\ overlapped \subseteq SharedKeys /\ redeleted \subseteq Remarks

\* A counter and the updates still to come are the number of rows it stands for, as long
\* as no update of it was lost, no two requests of one user worked on one of its rows at
\* once, and no comment was deleted a second time: requests on different rows of the
\* same counter never disturb it, the floor at 0 included.
CountersExact ==
    \A k \in SummaryKeys :
        /\ k \notin lost /\ k \notin overlapped
        /\ k[1] = "comments" => \A m \in redeleted : remark[m].clip # k[2]
        => AddsUp(k)

\* However requests overlap, a user never has fewer followers, or follows fewer users, on
\* the profile than the lists show, once the updates still to come are in: only a row
\* that was really inserted or deleted moves a follow counter, and the floor only adds.
FollowersNotUndercounted ==
    \A k \in FollowKeys \ lost :
        count[k] + Cardinality(Raising(k)) - Cardinality(Lowering(k)) >= Counted(k)

\* While nothing failed, whoever is followed, liked or commented on by somebody else is
\* told exactly by the requests that did it, not by those that take it back.
EveryDeedIsAnnounced ==
    engFaults = 0 =>
        {n.call : n \in notices} =
            {c \in Calls : /\ call[c].step = "done" /\ call[c].sign = 1
                          /\ call[c].kind \in {"follows", "likes", "comments"}
                          /\ Addressee(call[c]) # call[c].by}

\* Counters, profiles and notices say what was done, however requests overlap.
DeedsAreCounted == CountersExact /\ FollowersNotUndercounted /\ EveryDeedIsAnnounced

=====

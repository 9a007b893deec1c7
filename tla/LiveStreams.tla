---- MODULE LiveStreams ----
\* Live streams in the livestream-service: a stream and who publishes it,
\* and who watches it.  They share the status of the stream only, which
\* the second takes as it comes.
EXTENDS Integers, FiniteSets

\* One live stream in the livestream-service: its row in PostgreSQL, its
\* copy in Redis, the index of its ingest key, and the RTMP sessions that
\* publish it (services/stream_service.go, services/rtmp_service.go).
\*
\* Every caller runs one method; the row is read, and a whole row written
\* back or cached later.  The goroutine the transcoder starts to announce
\* the playlist is a caller of UpdateHLSPlaylistURL like the HTTP handler.
\* What a stream is called and how it is encoded is left out.

CONSTANTS
    Staff,            \* callers; each runs one method
    MaxStreamFaults   \* calls of Redis or PostgreSQL that fail (bounds them)

NoStream == "absent"
NoSession == "nobody"
ASSUME StreamAssumption == MaxStreamFaults \in Nat /\ NoSession \notin Staff

StreamStatuses == {"pending", "live", "ended"}
StaffMethods == {"start", "ready", "end", "get", "publish"}

VARIABLES
    stream,           \* livestreams.status, or NoStream
    meta,             \* livestream:meta:<id>, the cached row's status, or NoStream
    keyIndex,         \* whether livestream:rtmp_key:<key> is set
    rtmpSession,      \* rtmpService.sessions[<id>]
    staffCall,        \* what each caller does
    staleRead,        \* a row changed between a caller's read and its write
    racedIn,          \* two publishers were between check and registration
    streamFaults

streamVars == <<stream, meta, keyIndex, rtmpSession, staffCall, staleRead, racedIn, streamFaults>>

StaffSteps == {"new", "create", "index", "fill", "write", "write_end", "del", "validate",
              "check", "register", "run", "read_end", "deregister", "done"}
CallRows == [method : StaffMethods \cup {NoSession}, step : StaffSteps,
             saw : StreamStatuses \cup {NoStream}]

\* The stream is new, or was created before.
StreamInit ==
    /\ rtmpSession = NoSession
    /\ stream \in {NoStream, "pending"} /\ meta = stream /\ keyIndex = (stream = "pending")
    /\ staffCall = [c \in Staff |-> [method |-> NoSession, step |-> "new", saw |-> NoStream]]
    /\ staleRead = FALSE /\ racedIn = FALSE /\ streamFaults = 0

--------
Fails == streamFaults < MaxStreamFaults /\ streamFaults' = streamFaults + 1
Works == UNCHANGED streamFaults
In(c, step) == staffCall[c].step = step
CallGoes(c, step) == staffCall' = [staffCall EXCEPT ![c].step = step]
CallReads(c, step) == staffCall' = [staffCall EXCEPT ![c].step = step, ![c].saw = stream]
\* Callers that will cache what they read.
Holders == {c \in Staff : staffCall[c].step \in {"index", "fill"}}
StreamBecomes(c, status) ==
    /\ stream' = status
    /\ staleRead' = (staleRead \/ \E d \in Holders \ {c} : staffCall[d].saw # status)

Begin(c, method, step) ==
    /\ In(c, "new")
    /\ staffCall' = [staffCall EXCEPT ![c] = [method |-> method, step |-> step, saw |-> stream]]

\* StartStream: the row, then the index, then the copy; an error of Redis is logged only.
StartStream(c) ==
    /\ stream = NoStream /\ \A d \in Staff : staffCall[d].method # "start"
    /\ Begin(c, "start", "create")
    /\ UNCHANGED <<stream, meta, keyIndex, rtmpSession, staleRead, racedIn, streamFaults>>

CreateStream(c) ==
    /\ In(c, "create")
    /\ \/ /\ StreamBecomes(c, "pending") /\ Works
          /\ staffCall' = [staffCall EXCEPT ![c].step = "index", ![c].saw = "pending"]
       \/ UNCHANGED <<stream, staleRead>> /\ CallGoes(c, "done") /\ Fails
    /\ UNCHANGED <<meta, keyIndex, rtmpSession, racedIn>>

IndexKey(c) ==
    /\ In(c, "index") /\ CallGoes(c, "fill")
    /\ \/ keyIndex' = TRUE /\ Works
       \/ UNCHANGED keyIndex /\ Fails
    /\ UNCHANGED <<stream, meta, rtmpSession, staleRead, racedIn>>

\* What follows cacheStreamMeta: only a publisher goes on.
AfterFill(c) == IF staffCall[c].method = "publish" THEN "check" ELSE "done"

\* cacheStreamMeta.
CacheMeta(c) ==
    /\ In(c, "fill") /\ CallGoes(c, AfterFill(c))
    /\ \/ meta' = staffCall[c].saw /\ Works
       \/ UNCHANGED meta /\ Fails
    /\ UNCHANGED <<stream, keyIndex, rtmpSession, staleRead, racedIn>>

\* GetStream: the copy, or the row which is then cached.
GetStream(c) ==
    /\ Begin(c, "get", IF meta # NoStream \/ stream = NoStream THEN "done" ELSE "fill")
    /\ UNCHANGED <<stream, meta, keyIndex, rtmpSession, staleRead, racedIn, streamFaults>>

\* UpdateHLSPlaylistURL: whatever its status was, the stream becomes live.
UpdateHLSPlaylistURL(c) ==
    /\ Begin(c, "ready", IF stream = NoStream THEN "done" ELSE "write")
    /\ UNCHANGED <<stream, meta, keyIndex, rtmpSession, staleRead, racedIn, streamFaults>>

GoLive(c) ==
    /\ In(c, "write")
    /\ \/ /\ StreamBecomes(c, "live") /\ Works
          /\ staffCall' = [staffCall EXCEPT ![c].step = "fill", ![c].saw = "live"]
       \/ UNCHANGED <<stream, staleRead>> /\ CallGoes(c, "done") /\ Fails
    /\ UNCHANGED <<meta, keyIndex, rtmpSession, racedIn>>

EndStream(c) ==
    /\ Begin(c, "end", IF stream = NoStream THEN "done" ELSE "write_end")
    /\ UNCHANGED <<stream, meta, keyIndex, rtmpSession, staleRead, racedIn, streamFaults>>

\* A publisher hangs up, then lets go of its session.
AfterEnd(c) == IF staffCall[c].method = "publish" THEN "deregister" ELSE "done"

WriteEnded(c) ==
    /\ In(c, "write_end")
    /\ \/ StreamBecomes(c, "ended") /\ CallGoes(c, "del") /\ Works
       \/ UNCHANGED <<stream, staleRead>> /\ CallGoes(c, AfterEnd(c)) /\ Fails
    /\ UNCHANGED <<meta, keyIndex, rtmpSession, racedIn>>

\* Mutant: the copy is left to its TTL.
ForgetMetaNot(c) ==
    /\ In(c, "del") /\ CallGoes(c, AfterEnd(c))
    /\ UNCHANGED <<stream, meta, keyIndex, rtmpSession, staleRead, racedIn, streamFaults>>

\* EndStream's pipeline; the index of the key stays.
ForgetMeta(c) ==
    /\ In(c, "del") /\ CallGoes(c, AfterEnd(c))
    /\ \/ meta' = NoStream /\ Works
       \/ UNCHANGED meta /\ Fails
    /\ UNCHANGED <<stream, keyIndex, rtmpSession, staleRead, racedIn>>

MetaExpires ==
    /\ meta # NoStream /\ meta' = NoStream
    /\ UNCHANGED <<stream, keyIndex, rtmpSession, staffCall, staleRead, racedIn, streamFaults>>

KeyIndexExpires ==
    /\ keyIndex /\ keyIndex' = FALSE
    /\ UNCHANGED <<stream, meta, rtmpSession, staffCall, staleRead, racedIn, streamFaults>>

--------
\* The publisher of the stream.

\* ValidateRTMPKey: with the index, whatever GetStream finds; without it, a row that has
\* not ended.
ValidateRTMPKey(c) ==
    /\ stream # NoStream
    /\ Begin(c, "publish", IF keyIndex THEN IF meta = NoStream THEN "fill" ELSE "check"
                           ELSE IF stream = "ended" THEN "done" ELSE "check")
    /\ UNCHANGED <<stream, meta, keyIndex, rtmpSession, staleRead, racedIn, streamFaults>>

\* isStreamActive, under a read lock that is gone when the session is registered.
RejectDuplicate(c) ==
    /\ In(c, "check")
    /\ IF rtmpSession = NoSession
       THEN CallGoes(c, "register") /\ racedIn' = (racedIn \/ \E d \in Staff : In(d, "register"))
       ELSE CallGoes(c, "done") /\ UNCHANGED racedIn
    /\ UNCHANGED <<stream, meta, keyIndex, rtmpSession, staleRead, streamFaults>>

RegisterSession(c) ==
    /\ In(c, "register") /\ rtmpSession' = c /\ CallGoes(c, "run")
    /\ UNCHANGED <<stream, meta, keyIndex, staleRead, racedIn, streamFaults>>

\* The connection ends: EndStream is called, unless the transcoder did not start or the
\* context was cancelled first (TerminateSession, shutdown).
HangUp(c) ==
    /\ In(c, "run")
    /\ \/ CallReads(c, "write_end")
       \/ CallGoes(c, "deregister")
    /\ UNCHANGED <<stream, meta, keyIndex, rtmpSession, staleRead, racedIn, streamFaults>>

\* The entry of the stream is deleted, whoever's it is.
DeregisterSession(c) ==
    /\ In(c, "deregister") /\ rtmpSession' = NoSession /\ CallGoes(c, "done")
    /\ UNCHANGED <<stream, meta, keyIndex, staleRead, racedIn, streamFaults>>

StreamNext ==
    \/ \E c \in Staff :
          \/ StartStream(c) \/ CreateStream(c) \/ IndexKey(c) \/ CacheMeta(c) \/ GetStream(c)
          \/ UpdateHLSPlaylistURL(c) \/ GoLive(c) \/ EndStream(c) \/ WriteEnded(c) \/ ForgetMeta(c)
          \/ ValidateRTMPKey(c) \/ RejectDuplicate(c) \/ RegisterSession(c) \/ HangUp(c)
          \/ DeregisterSession(c)
    \/ MetaExpires \/ KeyIndexExpires

StreamSpec == StreamInit /\ [][StreamNext]_streamVars

--------
\* Properties.

Publishing(c) == \/ staffCall[c].step \in {"run", "deregister"}
                 \/ staffCall[c].method = "publish" /\ staffCall[c].step \in {"write_end", "del"}

\* A listed session is that of a publisher that is still there (TerminateSession and the
\* count of sessions rely on it).
StreamTypeOK ==
    /\ stream \in StreamStatuses \cup {NoStream} /\ meta \in StreamStatuses \cup {NoStream}
    /\ keyIndex \in BOOLEAN /\ rtmpSession \in Staff \cup {NoSession}
    /\ staffCall \in [Staff -> CallRows]
    /\ staleRead \in BOOLEAN /\ racedIn \in BOOLEAN /\ streamFaults \in 0..MaxStreamFaults
    /\ rtmpSession # NoSession => Publishing(rtmpSession)

\* A stream has one publisher and it is the one that is listed, unless two checked before
\* either had registered.
OnePublisher == ~racedIn => \A c \in Staff : Publishing(c) => rtmpSession = c

\* What GetStream finds in Redis is the row, unless the caller who changed the row has yet
\* to refresh or drop the copy, a caller cached a row that had changed since it was read,
\* or Redis failed.
CacheIsTrue ==
    meta = NoStream \/ meta = stream \/ staleRead \/ streamFaults > 0
        \/ \E c \in Staff : In(c, "del") \/ (In(c, "fill") /\ staffCall[c].saw = stream)

\* Publisher, row and copy of a stream agree.
StreamsAreTrue == OnePublisher /\ CacheIsTrue

--------
\* Who watches a live stream, as the livestream-service records it: a row
\* per user in PostgreSQL, a counter in Redis, and the count shown in the
\* stream's row (services/stream_service.go JoinStream and LeaveStream).
\*
\* The WebSocket hub starts one goroutine when a connection registers and
\* another when it unregisters; nothing orders the two.  A stream may come
\* on air and end any number of times; who watched it stays listed.  The
\* counter's TTL is longer than a stream and is left out.

CONSTANTS
    Watchers,         \* connections
    Audience,         \* users
    UserOf,           \* the user of each connection
    MaxViewFaults     \* calls of Redis or PostgreSQL that fail (bounds them)

ASSUME ViewerAssumption ==
    UserOf \in [Watchers -> Audience] /\ MaxViewFaults \in Nat /\ IsFiniteSet(Watchers)

VARIABLES
    onAir,            \* the stream's status is live
    ending,           \* an EndStream has written the row and has yet to delete the counter
    viewer,           \* live_viewers: the status of each user, "none" without a row
    viewerCount,      \* livestream:viewers:<id>; a missing key counts as 0
    shown, peak,      \* livestreams.viewer_count, .peak_viewer_count
    joining, leaving, \* the two goroutines of each connection
    floored,          \* a negative count was set to 0
    forgotten,        \* a counter that was not 0 was deleted
    outrun,           \* a leave began before its join had ended, or after a refused one of a listed user
    viewFaults

viewVars == <<onAir, ending, forgotten, viewer, viewerCount, shown, peak, joining, leaving, floored, outrun, viewFaults>>

\* got: the count Redis answered.
Tasks == [step : {"new", "upsert", "incr", "update", "decr", "floor", "show", "done", "refused"}, got : Int]
Fresh == [step |-> "new", got |-> 0]

ViewInit ==
    /\ onAir \in BOOLEAN /\ ending = FALSE /\ forgotten = FALSE /\ viewer = [u \in Audience |-> "none"]
    /\ viewerCount = 0 /\ shown = 0 /\ peak = 0
    /\ joining = [w \in Watchers |-> Fresh] /\ leaving = [w \in Watchers |-> Fresh]
    /\ floored = FALSE /\ outrun = FALSE /\ viewFaults = 0

--------
ViewFails == viewFaults < MaxViewFaults /\ viewFaults' = viewFaults + 1
ViewWorks == UNCHANGED viewFaults
JoinGoes(w, step) == joining' = [joining EXCEPT ![w].step = step]
LeaveGoes(w, step) == leaving' = [leaving EXCEPT ![w].step = step]

\* UpdateStreamViewerCount writes what Redis answered some time ago.
UpdateStreamViewerCount(count) ==
    /\ shown' = count
    /\ peak' = IF peak < count THEN count ELSE peak

\* JoinStream: only a live stream is joined.
JoinStream(w) ==
    /\ joining[w].step = "new"
    /\ JoinGoes(w, IF onAir THEN "upsert" ELSE "refused")
    /\ UNCHANGED <<onAir, ending, forgotten, viewer, viewerCount, shown, peak, leaving, floored, outrun, viewFaults>>

UpsertViewer(w) ==
    /\ joining[w].step = "upsert"
    /\ \/ viewer' = [viewer EXCEPT ![UserOf[w]] = "joined"] /\ JoinGoes(w, "incr") /\ ViewWorks
       \/ UNCHANGED viewer /\ JoinGoes(w, "done") /\ ViewFails
    /\ UNCHANGED <<onAir, ending, forgotten, viewerCount, shown, peak, leaving, floored, outrun>>

Incr(w) ==
    /\ joining[w].step = "incr"
    /\ \/ /\ viewerCount' = viewerCount + 1 /\ ViewWorks
          /\ joining' = [joining EXCEPT ![w] = [step |-> "show", got |-> viewerCount + 1]]
       \/ UNCHANGED viewerCount /\ JoinGoes(w, "done") /\ ViewFails
    /\ UNCHANGED <<onAir, ending, forgotten, viewer, shown, peak, leaving, floored, outrun>>

ShowJoin(w) ==
    /\ joining[w].step = "show" /\ JoinGoes(w, "done")
    /\ \/ UpdateStreamViewerCount(joining[w].got) /\ ViewWorks
       \/ UNCHANGED <<shown, peak>> /\ ViewFails
    /\ UNCHANGED <<onAir, ending, forgotten, viewer, viewerCount, leaving, floored, outrun>>

\* LeaveStream: who has no row has nothing to leave.  A row that says left counts as one.
LeaveStream(w) ==
    /\ leaving[w].step = "new"
    /\ LeaveGoes(w, IF viewer[UserOf[w]] = "none" THEN "done" ELSE "update")
    /\ outrun' = (\/ outrun \/ joining[w].step \notin {"done", "refused"}
                  \/ joining[w].step = "refused" /\ viewer[UserOf[w]] # "none")
    /\ UNCHANGED <<onAir, ending, forgotten, viewer, viewerCount, shown, peak, joining, floored, viewFaults>>

UpdateViewerStatus(w) ==
    /\ leaving[w].step = "update"
    /\ \/ viewer' = [viewer EXCEPT ![UserOf[w]] = IF @ = "none" THEN "none" ELSE "left"]
          /\ LeaveGoes(w, "decr") /\ ViewWorks
       \/ UNCHANGED viewer /\ LeaveGoes(w, "done") /\ ViewFails
    /\ UNCHANGED <<onAir, ending, forgotten, viewerCount, shown, peak, joining, floored, outrun>>

Decr(w) ==
    /\ leaving[w].step = "decr"
    /\ \/ /\ viewerCount' = viewerCount - 1 /\ ViewWorks
          /\ leaving' = [leaving EXCEPT ![w] = [step |-> IF viewerCount > 0 THEN "show" ELSE "floor",
                                                got |-> viewerCount - 1]]
       \/ UNCHANGED viewerCount /\ LeaveGoes(w, "done") /\ ViewFails
    /\ UNCHANGED <<onAir, ending, forgotten, viewer, shown, peak, joining, floored, outrun>>

\* "floor at 0": the counter is set to 0 whatever it is by now; an error is not looked at.
Floor(w) ==
    /\ leaving[w].step = "floor"
    /\ leaving' = [leaving EXCEPT ![w] = [step |-> "show", got |-> 0]]
    /\ floored' = TRUE
    /\ \/ viewerCount' = 0 /\ ViewWorks
       \/ UNCHANGED viewerCount /\ ViewFails
    /\ UNCHANGED <<onAir, ending, forgotten, viewer, shown, peak, joining, outrun>>

ShowLeave(w) ==
    /\ leaving[w].step = "show" /\ LeaveGoes(w, "done")
    /\ \/ UpdateStreamViewerCount(leaving[w].got) /\ ViewWorks
       \/ UNCHANGED <<shown, peak>> /\ ViewFails
    /\ UNCHANGED <<onAir, ending, forgotten, viewer, viewerCount, joining, floored, outrun>>

\* UpdateHLSPlaylistURL makes the stream live whatever it was, also when it has ended.
GoOnAir ==
    /\ ~onAir /\ onAir' = TRUE
    /\ UNCHANGED <<ending, forgotten, viewer, viewerCount, shown, peak, joining, leaving, floored, outrun, viewFaults>>

\* EndStream, of whatever stream: the status, then the counter.  Rows and shown counts stay.
GoOffAir ==
    /\ onAir' = FALSE /\ ending' = TRUE
    /\ UNCHANGED <<forgotten, viewer, viewerCount, shown, peak, joining, leaving, floored, outrun, viewFaults>>

DropCount ==
    /\ ending /\ ending' = FALSE
    /\ \/ viewerCount' = 0 /\ forgotten' = (forgotten \/ viewerCount # 0) /\ ViewWorks
       \/ UNCHANGED <<viewerCount, forgotten>> /\ ViewFails
    /\ UNCHANGED <<onAir, viewer, shown, peak, joining, leaving, floored, outrun>>

ViewNext ==
    \/ \E w \in Watchers :
          \/ JoinStream(w) \/ UpsertViewer(w) \/ Incr(w) \/ ShowJoin(w)
          \/ LeaveStream(w) \/ UpdateViewerStatus(w) \/ Decr(w) \/ Floor(w) \/ ShowLeave(w)
    \/ GoOnAir \/ GoOffAir \/ DropCount

ViewSpec == ViewInit /\ [][ViewNext]_viewVars

--------
\* Properties.

\* What is shown to the audience is never above its peak, and negative only when a join
\* met a count that had yet to be set to 0.
ViewTypeOK ==
    /\ onAir \in BOOLEAN /\ ending \in BOOLEAN /\ forgotten \in BOOLEAN /\ viewer \in [Audience -> {"none", "joined", "left"}]
    /\ viewerCount \in Int /\ joining \in [Watchers -> Tasks] /\ leaving \in [Watchers -> Tasks]
    /\ floored \in BOOLEAN /\ outrun \in BOOLEAN /\ viewFaults \in 0..MaxViewFaults
    /\ shown \in Int /\ shown <= peak
    /\ shown < 0 => floored \/ \E w \in Watchers : leaving[w].step = "floor"

Resting(w) == joining[w].step \in {"new", "done", "refused"} /\ leaving[w].step \in {"new", "done"}

\* Once all that was asked has been recorded, nobody listed as watching is missing from the
\* count, however often the stream ended and came on air again.  It is so unless an end deleted
\* a count that was not 0 (those it counted stay listed), some connection's leave overtook its
\* own join or took another connection of its user off the list, or a store failed.
TheListedAreCounted ==
    (\A w \in Watchers : Resting(w)) /\ ~forgotten /\ ~outrun /\ viewFaults = 0 =>
        Cardinality({u \in Audience : viewer[u] = "joined"}) <= viewerCount

=====

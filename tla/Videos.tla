---- MODULE Videos ----
\* The life of an uploaded video in the video-service: its row, its copies
\* in Redis, its owner's requests (services/video_service.go), the worker
\* that transcodes it and the scheduler that releases it (workers/).
\*
\* Every request reads the row, decides, and writes later.  The event that
\* starts the worker comes from outside: nothing in the repository sends
\* it.  Events the service sends, and the list of trending videos it keeps
\* in Redis for two minutes, are left out: nothing here reads them.
EXTENDS Integers

CONSTANTS
    Editors,          \* requests; each runs one method
    MaxVideoFaults    \* calls that fail and requests that end early (bounds them)

ASSUME VideoAssumption == MaxVideoFaults \in Nat

VideoStatuses == {"processing", "ready", "failed", "draft", "scheduled", "deleted"}
Visibilities == {"private", "public"}
\* publish_at: not set, to come, or come.
Times == {"unset", "future", "past"}
NoClip == [status |-> "absent", visibility |-> "private", at |-> "unset", playable |-> FALSE]
VideoRows == [status : VideoStatuses, visibility : Visibilities, at : Times, playable : BOOLEAN]

VARIABLES
    clip,             \* the row in videos
    detail,           \* {} or {row}: video:detail:<id>
    editor,           \* what each request does
    job,              \* the worker and the video's event
    picked,           \* the scheduler has listed the video as due
    deleted,          \* a deletion has been carried out
    wish,             \* the visibility the owner asked for last
    meddled,          \* the row changed between a request's or a cycle's read and its write
    behind,           \* why the copy may be old: nobody dropped it, or it was old when stored
    videoFaults

historyVars == <<deleted, wish, meddled>>
videoVars == <<clip, detail, editor, job, picked, historyVars, behind, videoFaults>>

EditMethods == {"get", "update", "draft", "publish", "schedule", "delete"}
EditSteps == {"new", "fill", "begin", "write", "draft", "publish", "schedule", "delete",
              "drop", "done"}
\* saw: the row it will store or write back.  to: the visibility it asks for.
EditRecords == [method : EditMethods \cup {"none"}, step : EditSteps,
                saw : VideoRows \cup {NoClip}, to : Visibilities \cup {"none"}]

\* The upload has just been completed.
VideoInit ==
    /\ clip = [status |-> "processing", visibility |-> "private", at |-> "unset",
               playable |-> FALSE]
    /\ detail = {} /\ job = "sent" /\ picked = FALSE
    /\ editor = [e \in Editors |->
                   [method |-> "none", step |-> "new", saw |-> NoClip, to |-> "none"]]
    /\ deleted = FALSE /\ wish = "private" /\ meddled = FALSE /\ behind = FALSE
    /\ videoFaults = 0

--------
Exists == clip.status # "deleted"
Edits(e, step) == editor[e].step = step
Goes(e, step) == editor' = [editor EXCEPT ![e].step = step, ![e].saw = NoClip, ![e].to = "none"]
Sound == UNCHANGED videoFaults
Faulty == videoFaults < MaxVideoFaults /\ videoFaults' = videoFaults + 1

\* Requests between their reading and their writing.
Undecided == {e \in Editors : editor[e].step \in {"begin", "write", "draft", "publish", "schedule"}}

\* A write of the row by a request e, or by the worker or the scheduler.
Writes(e, row) == clip' = row /\ meddled' = (meddled \/ picked \/ Undecided \ {e} # {})

\* Nobody drops the copy after the worker or the scheduler wrote the row.
WritesQuietly(row) ==
    /\ clip' = row /\ meddled' = (meddled \/ Undecided # {})
    /\ behind' = (behind \/ detail # {})

\* A request that finds the video reads it; the check of the owner is passed.
Open(e, method, step, saw, to) ==
    /\ Edits(e, "new") /\ Exists
    /\ editor' = [editor EXCEPT ![e] = [method |-> method, step |-> step, saw |-> saw, to |-> to]]
    /\ UNCHANGED <<clip, detail, job, picked, historyVars, behind, videoFaults>>

\* A copy answers the request; without one the row is read, and stored as the copy later.
GetVideo(e) == detail = {} /\ Open(e, "get", "fill", clip, "none")

FillDetail(e) ==
    /\ Edits(e, "fill") /\ Goes(e, "done")
    /\ detail' = {editor[e].saw} /\ behind' = (editor[e].saw # clip)
    /\ UNCHANGED <<clip, job, picked, historyVars, videoFaults>>

DetailExpires ==
    /\ detail # {} /\ detail' = {} /\ behind' = FALSE
    /\ UNCHANGED <<clip, editor, job, picked, historyVars, videoFaults>>

--------
UpdateVideo(e) == \E v \in Visibilities \cup {"none"} : Open(e, "update", "begin", NoClip, v)
SaveDraft(e) == Open(e, "draft", "begin", NoClip, "private")

\* The repository's transaction reads the row again and writes all of it back, with the
\* visibility and the publish_at that the request names.
ReadAgain(e) ==
    /\ Edits(e, "begin")
    /\ IF Exists
       THEN \E at \in {clip.at, "future", "past"} :
               editor' = [editor EXCEPT ![e].step = "write", ![e].saw = [clip EXCEPT !.at = at],
                                        ![e].to = IF @ = "none" THEN clip.visibility ELSE @]
       ELSE Goes(e, "done")
    /\ UNCHANGED <<clip, detail, job, picked, historyVars, behind, videoFaults>>

\* Title, visibility and publish_at, of a deleted row too.  A private video that is
\* scheduled will be released all the same.
WriteBack(e) ==
    /\ Edits(e, "write") /\ Goes(e, IF editor[e].method = "draft" THEN "draft" ELSE "drop")
    /\ Writes(e, [clip EXCEPT !.visibility = editor[e].to, !.at = editor[e].saw.at])
    /\ wish' = IF clip.status = "scheduled" THEN wish ELSE editor[e].to
    /\ UNCHANGED <<detail, job, picked, deleted, behind, videoFaults>>

\* UPDATE ... WHERE deleted_at IS NULL.
WithStatus(status) == [clip EXCEPT !.status = IF Exists THEN status ELSE @]

\* An error of the status is logged only: a video that is scheduled stays so.
MarkDraft(e) ==
    /\ Edits(e, "draft") /\ Goes(e, "drop")
    /\ \/ Writes(e, WithStatus("draft")) /\ wish' = "private" /\ Sound
       \/ UNCHANGED <<clip, meddled, wish>> /\ Faulty
    /\ UNCHANGED <<detail, job, picked, deleted, behind>>

\* Only videos that are ready, drafts or scheduled may be published.
PublishVideo(e) ==
    clip.status \in {"ready", "draft", "scheduled"} /\ Open(e, "publish", "publish", NoClip, "none")

Published == [WithStatus("ready") EXCEPT !.visibility = "public", !.at = "past"]

Publish(e) ==
    /\ Edits(e, "publish")
    /\ IF Exists THEN Writes(e, Published) /\ wish' = "public" /\ Goes(e, "drop")
                 ELSE Goes(e, "done") /\ UNCHANGED <<clip, meddled, wish>>
    /\ UNCHANGED <<detail, job, picked, deleted, behind, videoFaults>>

\* publish_at is at least a minute ahead.  Whether the video is ready is not asked.
ScheduleVideo(e) == Open(e, "schedule", "schedule", NoClip, "none")

SchedulePublish(e) ==
    /\ Edits(e, "schedule")
    /\ IF Exists
       THEN /\ Writes(e, [WithStatus("scheduled") EXCEPT !.at = "future"])
            /\ wish' = "public" /\ Goes(e, "drop")
       ELSE Goes(e, "done") /\ UNCHANGED <<clip, meddled, wish>>
    /\ UNCHANGED <<detail, job, picked, deleted, behind, videoFaults>>

DeleteVideo(e) == Open(e, "delete", "delete", NoClip, "none")

MarkDeleted(e) ==
    /\ Edits(e, "delete")
    /\ IF Exists THEN Writes(e, WithStatus("deleted")) /\ deleted' = TRUE /\ Goes(e, "drop")
                 ELSE Goes(e, "done") /\ UNCHANGED <<clip, meddled, deleted>>
    /\ UNCHANGED <<detail, job, picked, wish, behind, videoFaults>>

\* An error of Redis is not looked at.
DropDetail(e) ==
    /\ Edits(e, "drop") /\ Goes(e, "done")
    /\ \/ detail' = {} /\ behind' = FALSE /\ Sound
       \/ UNCHANGED detail /\ behind' = TRUE /\ Faulty
    /\ UNCHANGED <<clip, job, picked, historyVars>>

\* A call fails, the client goes or the process ends.  What the request has written and
\* not dropped stays in Redis.
RequestEnds(e) ==
    /\ editor[e].step \notin {"new", "done"} /\ Faulty /\ Goes(e, "done")
    /\ behind' = (behind \/ editor[e].step \in {"draft", "drop"})
    /\ UNCHANGED <<clip, detail, job, picked, historyVars>>

--------
\* ProcessVideo runs long; its last statement makes the video ready and playable.
ProcessVideo ==
    /\ job = "sent" /\ job' = "running"
    /\ UNCHANGED <<clip, detail, editor, picked, historyVars, behind, videoFaults>>

UpdateHLS ==
    /\ job = "running"
    /\ IF Exists THEN WritesQuietly([WithStatus("ready") EXCEPT !.playable = TRUE]) /\ job' = "done"
                 ELSE job' = "failing" /\ UNCHANGED <<clip, meddled, behind>>
    /\ UNCHANGED <<detail, editor, picked, deleted, wish, videoFaults>>

ProcessingFails ==
    /\ job = "running" /\ Faulty /\ job' = "failing"
    /\ UNCHANGED <<clip, detail, editor, picked, historyVars, behind>>

MarkFailed ==
    /\ job = "failing" /\ job' = "done"
    /\ IF Exists THEN WritesQuietly(WithStatus("failed")) ELSE UNCHANGED <<clip, meddled, behind>>
    /\ UNCHANGED <<detail, editor, picked, deleted, wish, videoFaults>>

\* The worker ends or loses its session: no offset is ever committed, and a worker without
\* one starts at the newest event.
JobIsLost ==
    /\ job \in {"sent", "running", "failing"} /\ Faulty /\ job' = "done"
    /\ UNCHANGED <<clip, detail, editor, picked, historyVars, behind>>

TimePasses ==
    /\ clip.at = "future" /\ clip' = [clip EXCEPT !.at = "past"]
    /\ detail' = {[d EXCEPT !.at = "past"] : d \in detail}
    /\ editor' = [e \in Editors |-> [editor[e] EXCEPT !.saw.at = IF @ = "future" THEN "past" ELSE @]]
    /\ UNCHANGED <<job, picked, historyVars, behind, videoFaults>>

\* Mutant: whatever has a date that has come is due.
DueByDate(row) == row.at = "past"

Due(row) == row.status = "scheduled" /\ row.at = "past"

\* A cycle of the scheduler lists what is due and publishes it, one after the other.
ListDue ==
    /\ ~picked /\ Due(clip) /\ picked' = TRUE
    /\ UNCHANGED <<clip, detail, editor, job, historyVars, behind, videoFaults>>

PublishOne ==
    /\ picked /\ picked' = FALSE
    /\ IF Exists THEN WritesQuietly(Published) ELSE UNCHANGED <<clip, meddled, behind>>
    /\ UNCHANGED <<detail, editor, job, deleted, wish, videoFaults>>

CycleEnds ==
    /\ picked /\ picked' = FALSE /\ Faulty
    /\ UNCHANGED <<clip, detail, editor, job, historyVars, behind>>

VideoNext ==
    \/ \E e \in Editors :
          \/ GetVideo(e) \/ FillDetail(e)
          \/ UpdateVideo(e) \/ SaveDraft(e) \/ ReadAgain(e) \/ WriteBack(e) \/ MarkDraft(e)
          \/ PublishVideo(e) \/ Publish(e) \/ ScheduleVideo(e) \/ SchedulePublish(e)
          \/ DeleteVideo(e) \/ MarkDeleted(e) \/ DropDetail(e) \/ RequestEnds(e)
    \/ DetailExpires \/ TimePasses
    \/ ProcessVideo \/ UpdateHLS \/ ProcessingFails \/ MarkFailed \/ JobIsLost
    \/ ListDue \/ PublishOne \/ CycleEnds

VideoSpec == VideoInit /\ [][VideoNext]_videoVars

--------
\* Properties.

VideoTypeOK ==
    /\ clip \in VideoRows /\ detail \subseteq VideoRows
    /\ editor \in [Editors -> EditRecords]
    /\ job \in {"sent", "running", "failing", "done"} /\ picked \in BOOLEAN
    /\ deleted \in BOOLEAN /\ wish \in Visibilities /\ meddled \in BOOLEAN /\ behind \in BOOLEAN
    /\ videoFaults \in 0..MaxVideoFaults

\* A deleted video stays deleted, whatever the worker, the scheduler and the requests that
\* read it before still write.
DeletedStaysDeleted == deleted => clip.status = "deleted"

Shown(row) == row.status = "ready" /\ row.visibility = "public"

\* Others see a video only while its owner wants it public, unless the row changed between
\* somebody's reading and writing.
OnlyTheReleasedAreShown == Shown(clip) => wish = "public" \/ meddled

\* A video with HLS was transcoded, and one whose event is being worked on is not playable.
PlayableIsTranscoded == clip.playable => job = "done"

\* What GetVideo finds in Redis is the row, unless the request that changed the row has yet
\* to drop the copy, or the copy was stored or left by one of the ways behind names.
DetailIsTrue ==
    detail \subseteq {clip} \/ behind \/ \E e \in Editors : editor[e].step \in {"draft", "drop"}

\* A video's row follows its owner, and what is read of it follows the row.
VideosFollowTheirOwner ==
    DeletedStaysDeleted /\ OnlyTheReleasedAreShown /\ PlayableIsTranscoded /\ DetailIsTrue

=====

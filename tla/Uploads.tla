---- MODULE Uploads ----
\* A resumable upload in the video-service (services/upload_service.go):
\* its session in Redis, its parts in the temporary bucket and in
\* video_chunks, the assembled file and the status of its video.
\*
\* Every sender is one HTTP request.  A request that completes the upload
\* leaves a goroutine behind that removes the parts.  A part is known by
\* its index: a part that is sent again has the same bytes.
EXTENDS Integers, FiniteSets

CONSTANTS
    Senders,          \* requests
    TotalChunks,      \* the parts of the file are 1..TotalChunks
    MaxUploadFaults   \* calls that fail and requests that end early (bounds them)

ASSUME UploadAssumption == TotalChunks \in Nat \ {0} /\ MaxUploadFaults \in Nat

Parts == 1..TotalChunks
NoUpload == "absent"

VARIABLES
    uploadSession,    \* {} or {received}: upload:session:<id> and its ReceivedChunks
    chunkObjects,     \* the parts in the temporary bucket
    chunkRows,        \* rows of video_chunks
    rawFile,          \* {} or {parts}: what the object at the video's raw key holds
    uploadRow,        \* videos.status, or NoUpload
    sender,           \* what each request does
    sweep,            \* the goroutine of a request that completed the upload
    received,         \* parts whose request was answered with 200
    crossedNotes,     \* a session was read, and written back after it had changed
    uploadFaults

fileVars == <<chunkObjects, chunkRows, rawFile>>
uploadVars == <<uploadSession, fileVars, uploadRow, sender, sweep, received, crossedNotes, uploadFaults>>

SenderSteps == {"new", "create", "open", "put", "save", "note", "list", "assemble", "store",
                "finish", "forget", "done"}
SenderRecords == [step : SenderSteps, part : 0..TotalChunks, saw : SUBSET Parts,
                  rows : SUBSET Parts, file : SUBSET Parts]
SweepRecords == [step : {"none", "objects", "rows", "done"}, left : SUBSET Parts]

\* The upload is to be initiated, or was.
UploadInit ==
    /\ \/ uploadSession = {} /\ uploadRow = NoUpload
       \/ uploadSession = {{}} /\ uploadRow = "uploading"
    /\ chunkObjects = {} /\ chunkRows = {} /\ rawFile = {}
    /\ sender = [r \in Senders |->
                   [step |-> "new", part |-> 0, saw |-> {}, rows |-> {}, file |-> {}]]
    /\ sweep = [r \in Senders |-> [step |-> "none", left |-> {}]]
    /\ received = {} /\ crossedNotes = FALSE /\ uploadFaults = 0

--------
At(r, step) == sender[r].step = step
Becomes(r, step) == sender' = [sender EXCEPT ![r].step = step]
NoFault == UNCHANGED uploadFaults
Fault == uploadFaults < MaxUploadFaults /\ uploadFaults' = uploadFaults + 1

\* InitiateUpload: the draft is stored, then its session.
InitiateUpload(r) ==
    /\ At(r, "new") /\ uploadRow = NoUpload /\ \A q \in Senders : ~At(q, "create")
    /\ Becomes(r, "create")
    /\ UNCHANGED <<uploadSession, fileVars, uploadRow, sweep, received, crossedNotes, uploadFaults>>

CreateVideo(r) ==
    /\ At(r, "create") /\ uploadRow' = "uploading" /\ Becomes(r, "open")
    /\ UNCHANGED <<uploadSession, fileVars, sweep, received, crossedNotes, uploadFaults>>

OpenSession(r) ==
    /\ At(r, "open") /\ uploadSession' = {{}} /\ Becomes(r, "done")
    /\ UNCHANGED <<fileVars, uploadRow, sweep, received, crossedNotes, uploadFaults>>

\* saveSession renews the time to live, also of a session that has expired.
SessionExpires ==
    /\ uploadSession # {} /\ uploadSession' = {}
    /\ UNCHANGED <<fileVars, uploadRow, sender, sweep, received, crossedNotes, uploadFaults>>

\* UploadChunk: the session is read, the part stored and recorded, the session written.
UploadChunk(r) ==
    /\ At(r, "new") /\ uploadSession # {}
    /\ \E i \in Parts, s \in uploadSession :
          sender' = [sender EXCEPT ![r].step = "put", ![r].part = i, ![r].saw = s]
    /\ UNCHANGED <<uploadSession, fileVars, uploadRow, sweep, received, crossedNotes, uploadFaults>>

PutChunk(r) ==
    /\ At(r, "put") /\ chunkObjects' = chunkObjects \cup {sender[r].part} /\ Becomes(r, "save")
    /\ UNCHANGED <<uploadSession, chunkRows, rawFile, uploadRow, sweep, received, crossedNotes, uploadFaults>>

\* ON CONFLICT (upload_id, chunk_index) DO UPDATE.
SaveChunk(r) ==
    /\ At(r, "save") /\ chunkRows' = chunkRows \cup {sender[r].part} /\ Becomes(r, "note")
    /\ UNCHANGED <<uploadSession, chunkObjects, rawFile, uploadRow, sweep, received, crossedNotes, uploadFaults>>

AddChunkIndex(r) == sender[r].saw \cup {sender[r].part}

NoteChunk(r) ==
    /\ At(r, "note") /\ uploadSession' = {AddChunkIndex(r)} /\ Becomes(r, "done")
    /\ received' = received \cup {sender[r].part}
    /\ crossedNotes' = (crossedNotes \/ uploadSession # {sender[r].saw})
    /\ UNCHANGED <<fileVars, uploadRow, sweep, uploadFaults>>

\* Mutant: one missing part is overlooked.
NoneMissingButOne(s) == Cardinality(s) >= TotalChunks - 1

NoneMissing(s) == Cardinality(s) = TotalChunks

\* CompleteUpload: every index must be in the session.
CompleteUpload(r) ==
    /\ At(r, "new")
    /\ \E s \in uploadSession : NoneMissing(s) /\ sender' = [sender EXCEPT ![r].step = "list", ![r].saw = s]
    /\ UNCHANGED <<uploadSession, fileVars, uploadRow, sweep, received, crossedNotes, uploadFaults>>

GetChunks(r) ==
    /\ At(r, "list")
    /\ sender' = [sender EXCEPT ![r].step = "assemble", ![r].rows = chunkRows]
    /\ UNCHANGED <<uploadSession, fileVars, uploadRow, sweep, received, crossedNotes, uploadFaults>>

\* The parts listed are fetched in their order; one that is not there fails the request.
AppendChunk(r) ==
    /\ At(r, "assemble")
    /\ LET left == sender[r].rows \ sender[r].file
           next == CHOOSE i \in left : \A j \in left : i <= j
       IN IF left = {} THEN Becomes(r, "store")
          ELSE IF next \in chunkObjects
          THEN sender' = [sender EXCEPT ![r].file = @ \cup {next}]
          ELSE Becomes(r, "done")
    /\ UNCHANGED <<uploadSession, fileVars, uploadRow, sweep, received, crossedNotes, uploadFaults>>

StoreFile(r) ==
    /\ At(r, "store") /\ rawFile' = {sender[r].file} /\ Becomes(r, "finish")
    /\ UNCHANGED <<uploadSession, chunkObjects, chunkRows, uploadRow, sweep, received, crossedNotes, uploadFaults>>

\* The status, and the goroutine that cleans up.
StartProcessing(r) ==
    /\ At(r, "finish") /\ uploadRow' = "processing" /\ Becomes(r, "forget")
    /\ sweep' = [sweep EXCEPT ![r] = [step |-> "objects", left |-> sender[r].rows]]
    /\ UNCHANGED <<uploadSession, fileVars, received, crossedNotes, uploadFaults>>

\* An error of Redis, or a request that was cancelled, leaves the session.
ForgetSession(r) ==
    /\ At(r, "forget") /\ Becomes(r, "done")
    /\ \/ uploadSession' = {} /\ NoFault
       \/ UNCHANGED uploadSession /\ Fault
    /\ UNCHANGED <<fileVars, uploadRow, sweep, received, crossedNotes>>

\* cleanupChunks: object after object, then the rows of the upload, errors aside.
CleanupChunk(r) ==
    /\ sweep[r].step = "objects" /\ sweep[r].left # {}
    /\ LET i == CHOOSE i \in sweep[r].left : \A j \in sweep[r].left : i <= j
       IN /\ sweep' = [sweep EXCEPT ![r].left = @ \ {i}]
          /\ chunkObjects' = chunkObjects \ {i}
    /\ UNCHANGED <<uploadSession, chunkRows, rawFile, uploadRow, sender, received, crossedNotes, uploadFaults>>

DeleteChunks(r) ==
    /\ sweep[r].step = "objects" /\ sweep[r].left = {}
    /\ sweep' = [sweep EXCEPT ![r].step = "done"] /\ chunkRows' = {}
    /\ UNCHANGED <<uploadSession, chunkObjects, rawFile, uploadRow, sender, received, crossedNotes, uploadFaults>>

\* A call fails, the client goes or the process ends: the request stops where it is.
UploadAborts(r) ==
    /\ sender[r].step \notin {"new", "done"} /\ Fault /\ Becomes(r, "done")
    /\ UNCHANGED <<uploadSession, fileVars, uploadRow, sweep, received, crossedNotes>>

\* The process ends: the parts that are left stay.
SweepEnds(r) ==
    /\ sweep[r].step = "objects" /\ Fault
    /\ sweep' = [sweep EXCEPT ![r].step = "done"]
    /\ UNCHANGED <<uploadSession, fileVars, uploadRow, sender, received, crossedNotes>>

UploadNext ==
    \/ \E r \in Senders :
          \/ InitiateUpload(r) \/ CreateVideo(r) \/ OpenSession(r)
          \/ UploadChunk(r) \/ PutChunk(r) \/ SaveChunk(r) \/ NoteChunk(r)
          \/ CompleteUpload(r) \/ GetChunks(r) \/ AppendChunk(r) \/ StoreFile(r)
          \/ StartProcessing(r) \/ ForgetSession(r)
          \/ CleanupChunk(r) \/ DeleteChunks(r) \/ UploadAborts(r) \/ SweepEnds(r)
    \/ SessionExpires

UploadSpec == UploadInit /\ [][UploadNext]_uploadVars

--------
\* Properties.

UploadTypeOK ==
    /\ uploadSession \subseteq SUBSET Parts /\ Cardinality(uploadSession) <= 1
    /\ chunkObjects \subseteq Parts /\ chunkRows \subseteq Parts
    /\ rawFile \subseteq SUBSET Parts /\ Cardinality(rawFile) <= 1
    /\ uploadRow \in {NoUpload, "uploading", "processing"}
    /\ sender \in [Senders -> SenderRecords] /\ sweep \in [Senders -> SweepRecords]
    /\ received \subseteq Parts /\ crossedNotes \in BOOLEAN
    /\ uploadFaults \in 0..MaxUploadFaults

Unswept == \A r \in Senders : sweep[r].step = "none"

\* Until a completed upload is cleaned up, what the session lists is stored and recorded,
\* whichever requests overlap and wherever they end.
ListedIsStored == Unswept => \A s \in uploadSession : s \subseteq chunkObjects \cap chunkRows

\* Until a clean-up has ended, the file at the video's raw key has every part, even if
\* several requests complete the upload.
TheFileIsWhole ==
    (\A r \in Senders : sweep[r].step # "done") => \A f \in rawFile : f = Parts

\* A video in processing has a file.
ProcessingHasFile == uploadRow = "processing" => rawFile # {}

\* A part whose request was answered is in the session while there is one, unless two
\* requests were between its reading and its writing.
AcknowledgedIsListed ==
    Unswept /\ ~crossedNotes => \A s \in uploadSession : received \subseteq s

\* What the upload's session, its parts and its file say agrees.
UploadsAreWhole ==
    ListedIsStored /\ TheFileIsWhole /\ ProcessingHasFile /\ AcknowledgedIsListed

=====

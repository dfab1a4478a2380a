----------------------------- MODULE Recording -----------------------------
(***************************************************************************)
(* The recording of one ended session: its transcoding to a video          *)
(* (recording_transcode.go) and its deletion (deleteAuditRecording in      *)
(* resource_ops.go).  Recordings do not share anything.                    *)
(*                                                                         *)
(* A transcoding is a request that registers itself, logs, marks the       *)
(* offline_sessions item as queued and starts a goroutine that marks it    *)
(* as processing, runs guacenc and ffmpeg and marks it with the result.    *)
(* A deletion moves the directory aside, clears the item and the session,  *)
(* and removes the directory, or puts everything back.  Items are read and *)
(* written in separate steps without a lock.  Store and log operations     *)
(* may fail; the process may die.                                          *)
(*                                                                         *)
(* The recording is younger than the retention period of the log-cleanup   *)
(* task, which would remove item and directory.                            *)
(***************************************************************************)
EXTENDS Naturals

CONSTANTS Jobs,        \* executions of POST .../recording/transcode; a bound
          Deletes,     \* executions of DELETE .../recording; a bound
          HasSession   \* whether the store still holds the session itself

ASSUME HasSessionAssumption == HasSession \in BOOLEAN

VARIABLES
  sessPath,   \* the session's RecordingPath is set
  savedPath,  \* ... in the saved state
  item,       \* the item of offline_sessions
  dir,        \* the recording's directory
  video,      \* recording-video.mp4 in it
  active,     \* recordingTranscodeRegistry.active holds the recording
  jpc, jcopy, \* place of a transcoding, and the item it has read
  dpc, dcopy, \* place of a deletion, and the item it has read
  moved,      \* moved[d]: rollback.existed, d's backup holds the directory
  raced,      \* two of these operations overlapped (a deletion was one)
  torn        \* a deletion died, or could not put back what it had changed

sessVars == <<sessPath, savedPath>>
jobVars == <<jpc, jcopy>>
delVars == <<dpc, dcopy, moved>>
fileVars == <<dir, video>>
recordingVars == <<sessVars, item, fileVars, active, jobVars, delVars, raced, torn>>

Statuses == {"none", "queued", "processing", "completed", "failed"}

(* recording_path, recording_transcode_status and recording_video_file.    *)
Items == [path : BOOLEAN, status : Statuses, video : BOOLEAN]

(* sessionPlatformItem: the item as syncSessionPlatformItem makes it anew. *)
Synced(path) == [path |-> path, status |-> "none", video |-> FALSE]

(* A copy nobody holds. *)
NoCopy == Synced(TRUE)

(* Transcodings that are in the registry. *)
Running == {"started", "queue", "queueing", "queued", "start", "processing",
            "encoding", "encoded", "failed", "fail", "completed", "complete", "over"}

(* Deletions past their look at the registry. *)
Deleting == {"log", "move", "read", "clear", "session", "unclear", "restore",
             "cleanup"}

RecordingInit ==
  /\ sessPath = HasSession
  /\ savedPath = HasSession
  /\ item = Synced(TRUE)
  /\ dir = "here"
  /\ video = "none"
  /\ active = FALSE
  /\ jpc = [j \in Jobs |-> "idle"]
  /\ jcopy = [j \in Jobs |-> NoCopy]
  /\ dpc = [d \in Deletes |-> "idle"]
  /\ dcopy = [d \in Deletes |-> NoCopy]
  /\ moved = [d \in Deletes |-> FALSE]
  /\ raced = FALSE
  /\ torn = FALSE

-----------------------------------------------------------------------------
JobGo(j, to) == jpc' = [jpc EXCEPT ![j] = to]
DelGo(d, to) == dpc' = [dpc EXCEPT ![d] = to]

(* auditRecordingTarget: the session's path is looked at before the item's *)
(* and must be a directory.                                                *)
Target == dir = "here" /\ IF HasSession THEN sessPath ELSE item.path

(* handleAuditRecordingTranscode up to the registry: the recording is      *)
(* there, the transcoder is available.                                     *)
TranscodeFind(j) ==
  /\ jpc[j] = "idle" /\ Target
  /\ JobGo(j, "found")
  /\ UNCHANGED <<sessVars, item, fileVars, active, jcopy, delVars, raced, torn>>

(* Mutant: the registry does not refuse a second transcoding. *)
TranscodeStartTwice(j) ==
  /\ jpc[j] = "found"
  /\ active' = TRUE /\ JobGo(j, "started")
  /\ raced' = (raced \/ \E d \in Deletes : dpc[d] \in Deleting)
  /\ UNCHANGED <<sessVars, item, fileVars, jcopy, delVars, torn>>

(* recordingTranscodeRegistry.start *)
TranscodeStart(j) ==
  /\ jpc[j] = "found"
  /\ IF active
     THEN JobGo(j, "refused") /\ UNCHANGED <<active, raced>>
     ELSE /\ active' = TRUE /\ JobGo(j, "started")
          /\ raced' = (raced \/ \E d \in Deletes : dpc[d] \in Deleting)
  /\ UNCHANGED <<sessVars, item, fileVars, jcopy, delVars, torn>>

(* Mutant: a request that cannot be logged stays in the registry. *)
TranscodeLogLeaks(j) ==
  /\ jpc[j] = "started"
  /\ JobGo(j, "queue") \/ JobGo(j, "refused")
  /\ UNCHANGED <<sessVars, item, fileVars, active, jcopy, delVars, raced, torn>>

(* The operation log of the request; a failure ends the registration. *)
TranscodeLog(j) ==
  /\ jpc[j] = "started"
  /\ \/ JobGo(j, "queue") /\ UNCHANGED active
     \/ JobGo(j, "refused") /\ active' = FALSE
  /\ UNCHANGED <<sessVars, item, fileVars, jcopy, delVars, raced, torn>>

(* What an update that fails does: the request gives up, the goroutine     *)
(* logs and ends.                                                          *)
UpdateFails(j, request) ==
  /\ IF request THEN JobGo(j, "refused") /\ active' = FALSE
                ELSE JobGo(j, "over") /\ UNCHANGED active
  /\ jcopy' = [jcopy EXCEPT ![j] = NoCopy]
  /\ UNCHANGED item

(* updateRecordingTranscodeMetadata reads the item ... *)
UpdateRead(j, at, to, request) ==
  /\ jpc[j] = at
  /\ \/ jcopy' = [jcopy EXCEPT ![j] = item] /\ JobGo(j, to) /\ UNCHANGED <<item, active>>
     \/ UpdateFails(j, request)
  /\ UNCHANGED <<sessVars, fileVars, delVars, raced, torn>>

(* ... and saves it with the new status.  A completed transcoding names    *)
(* its video, no other one takes the name away.                            *)
UpdateSave(j, at, to, status, request) ==
  /\ jpc[j] = at
  /\ \/ /\ item' = [jcopy[j] EXCEPT !.status = status,
                                    !.video = @ \/ status = "completed"]
        /\ jcopy' = [jcopy EXCEPT ![j] = NoCopy]
        /\ JobGo(j, to) /\ UNCHANGED active
     \/ UpdateFails(j, request)
  /\ UNCHANGED <<sessVars, fileVars, delVars, raced, torn>>

TranscodeQueue(j) == \/ UpdateRead(j, "queue", "queueing", TRUE)
                     \/ UpdateSave(j, "queueing", "queued", "queued", TRUE)

TranscodeBegin(j) == \/ UpdateRead(j, "queued", "start", FALSE)
                     \/ UpdateSave(j, "start", "processing", "processing", FALSE)

(* Transcode: earlier output is removed, guacenc runs, ffmpeg opens the    *)
(* video.  Both need the directory at its place.                           *)
TranscodeRun(j) ==
  /\ jpc[j] = "processing"
  /\ \/ dir = "here" /\ video' = "partial" /\ JobGo(j, "encoding")
     \/ /\ video' = IF dir = "here" THEN "none" ELSE video
        /\ JobGo(j, "failed")
  /\ UNCHANGED <<sessVars, item, dir, active, jcopy, delVars, raced, torn>>

(* Mutant: the exit status of ffmpeg is ignored. *)
TranscodeEndUnchecked(j) ==
  /\ jpc[j] = "encoding"
  /\ JobGo(j, "encoded")
  /\ \/ video' = IF video = "partial" THEN "whole" ELSE video
     \/ UNCHANGED video
  /\ UNCHANGED <<sessVars, item, dir, active, jcopy, delVars, raced, torn>>

(* ffmpeg ends; it writes on when the directory is moved.  After a failure *)
(* or a timeout the video is removed.                                      *)
TranscodeEnd(j) ==
  /\ jpc[j] = "encoding"
  /\ \/ /\ video' = IF video = "partial" THEN "whole" ELSE video
        /\ JobGo(j, "encoded")
     \/ /\ video' = IF dir = "here" THEN "none" ELSE video
        /\ JobGo(j, "failed")
  /\ UNCHANGED <<sessVars, item, dir, active, jcopy, delVars, raced, torn>>

(* The goroutine looks for the output. *)
TranscodeLook(j) ==
  /\ jpc[j] = "encoded"
  /\ JobGo(j, IF dir = "here" /\ video # "none" THEN "completed" ELSE "failed")
  /\ UNCHANGED <<sessVars, item, fileVars, active, jcopy, delVars, raced, torn>>

TranscodeFail(j) == \/ UpdateRead(j, "failed", "fail", FALSE)
                    \/ UpdateSave(j, "fail", "over", "failed", FALSE)

TranscodeComplete(j) == \/ UpdateRead(j, "completed", "complete", FALSE)
                        \/ UpdateSave(j, "complete", "over", "completed", FALSE)

(* The deferred finish. *)
TranscodeFinish(j) ==
  /\ jpc[j] = "over"
  /\ JobGo(j, "done")
  /\ active' = FALSE
  /\ UNCHANGED <<sessVars, item, fileVars, jcopy, delVars, raced, torn>>

JobStep(j) ==
  \/ TranscodeStart(j) \/ TranscodeLog(j) \/ TranscodeQueue(j)
  \/ TranscodeBegin(j) \/ TranscodeRun(j) \/ TranscodeEnd(j) \/ TranscodeLook(j)
  \/ TranscodeFail(j) \/ TranscodeComplete(j) \/ TranscodeFinish(j)

-----------------------------------------------------------------------------
(* deleteAuditRecording: the target, then the registry. *)
DeleteCheck(d) ==
  /\ dpc[d] = "idle" /\ Target
  /\ IF active
     THEN DelGo(d, "refused") /\ UNCHANGED raced
     ELSE /\ DelGo(d, "log")
          /\ raced' = (raced \/ \E e \in Deletes : dpc[e] \in Deleting)
  /\ UNCHANGED <<sessVars, item, fileVars, active, jobVars, dcopy, moved, torn>>

DeleteLog(d) ==
  /\ dpc[d] = "log"
  /\ DelGo(d, "move") \/ DelGo(d, "refused")
  /\ UNCHANGED <<sessVars, item, fileVars, active, jobVars, dcopy, moved, raced, torn>>

(* prepareStoragePathRollback: the directory is renamed into a backup; one *)
(* that is not there counts as moved already.                              *)
DeleteMove(d) ==
  /\ dpc[d] = "move"
  /\ \/ /\ dir = "here" /\ dir' = "away"
        /\ moved' = [moved EXCEPT ![d] = TRUE]
        /\ DelGo(d, "read")
     \/ dir # "here" /\ DelGo(d, "read") /\ UNCHANGED <<dir, moved>>
     \/ DelGo(d, "refused") /\ UNCHANGED <<dir, moved>>
  /\ UNCHANGED <<sessVars, item, video, active, jobVars, dcopy, raced, torn>>

DeleteRead(d) ==
  /\ dpc[d] = "read"
  /\ \/ dcopy' = [dcopy EXCEPT ![d] = item] /\ DelGo(d, "clear")
     \/ DelGo(d, "restore") /\ UNCHANGED dcopy
  /\ UNCHANGED <<sessVars, item, fileVars, active, jobVars, moved, raced, torn>>

(* clearRecordingMetadata and the save.  When it fails and there is no     *)
(* session the earlier item is saved again.                                *)
DeleteClear(d) ==
  /\ dpc[d] = "clear"
  /\ \/ item' = Synced(FALSE) /\ DelGo(d, IF HasSession THEN "session" ELSE "cleanup")
     \/ DelGo(d, IF HasSession THEN "restore" ELSE "unclear") /\ UNCHANGED item
  /\ UNCHANGED <<sessVars, fileVars, active, jobVars, dcopy, moved, raced, torn>>

(* UpdateSession saves the session and makes the item anew.  When that     *)
(* fails the session is saved again as it was, which may fail too.         *)
DeleteSession(d) ==
  /\ dpc[d] = "session"
  /\ \/ /\ sessPath' = FALSE /\ savedPath' = FALSE /\ item' = Synced(FALSE)
        /\ dcopy' = [dcopy EXCEPT ![d] = NoCopy]
        /\ DelGo(d, "cleanup") /\ UNCHANGED torn
     \/ /\ DelGo(d, "unclear")
        /\ \/ UNCHANGED <<savedPath, torn>>
           \/ savedPath' = FALSE /\ torn' = TRUE
        /\ UNCHANGED <<sessPath, item, dcopy>>
  /\ UNCHANGED <<fileVars, active, jobVars, moved, raced>>

(* Mutant: a failed deletion does not put the item back. *)
DeleteUnclearSkipped(d) ==
  /\ dpc[d] = "unclear"
  /\ DelGo(d, "restore")
  /\ UNCHANGED <<sessVars, item, fileVars, active, jobVars, dcopy, moved, raced, torn>>

(* The earlier item is saved again, which may fail too. *)
DeleteUnclear(d) ==
  /\ dpc[d] = "unclear"
  /\ DelGo(d, "restore")
  /\ \/ item' = dcopy[d] /\ UNCHANGED torn
     \/ torn' = TRUE /\ UNCHANGED item
  /\ dcopy' = [dcopy EXCEPT ![d] = NoCopy]
  /\ UNCHANGED <<sessVars, fileVars, active, jobVars, moved, raced>>

(* Mutant: the directory is not put back. *)
DeleteRestoreSkipped(d) ==
  /\ dpc[d] = "restore"
  /\ DelGo(d, "refused")
  /\ UNCHANGED <<sessVars, item, fileVars, active, jobVars, dcopy, moved, raced, torn>>

(* storagePathRollback.restore: what is at the path is removed, then the   *)
(* backup renamed to it.                                                   *)
DeleteRestore(d) ==
  /\ dpc[d] = "restore"
  /\ DelGo(d, "refused")
  /\ \/ moved[d] /\ dir' = "here" /\ UNCHANGED <<video, torn>>
     \/ moved[d] /\ torn' = TRUE /\ UNCHANGED fileVars
     \/ /\ ~moved[d] /\ dir = "here"
        /\ dir' = "gone" /\ video' = "none" /\ UNCHANGED torn
     \/ ~moved[d] /\ dir # "here" /\ UNCHANGED <<fileVars, torn>>
  /\ moved' = [moved EXCEPT ![d] = FALSE]
  /\ UNCHANGED <<sessVars, item, active, jobVars, dcopy, raced>>

(* Mutant: a deletion that has succeeded restores its backup. *)
DeleteCleanupRestores(d) ==
  /\ dpc[d] = "cleanup"
  /\ DelGo(d, "done")
  /\ dir' = IF moved[d] THEN "here" ELSE dir
  /\ UNCHANGED <<sessVars, item, video, active, jobVars, dcopy, moved, raced, torn>>

(* storagePathRollback.cleanup *)
DeleteCleanup(d) ==
  /\ dpc[d] = "cleanup"
  /\ DelGo(d, "done")
  /\ \/ moved[d] /\ dir' = "gone" /\ video' = "none"
     \/ ~moved[d] /\ UNCHANGED fileVars
  /\ moved' = [moved EXCEPT ![d] = FALSE]
  /\ UNCHANGED <<sessVars, item, active, jobVars, dcopy, raced, torn>>

DeleteStep(d) ==
  \/ DeleteLog(d) \/ DeleteMove(d) \/ DeleteRead(d) \/ DeleteClear(d)
  \/ DeleteSession(d) \/ DeleteUnclear(d) \/ DeleteRestore(d) \/ DeleteCleanup(d)

-----------------------------------------------------------------------------
(* Any write of the session, a second close of it for instance, makes the  *)
(* item anew: what the transcoding left in it is lost.                     *)
Resync ==
  /\ HasSession
  /\ item' = Synced(sessPath)
  /\ savedPath' = sessPath
  /\ UNCHANGED <<sessPath, fileVars, active, jobVars, delVars, raced, torn>>

(***************************************************************************)
(* The process dies, with guacenc and ffmpeg, and starts again;            *)
(* reconcileInterruptedRecordingTranscodes marks the item as failed, if it *)
(* can.                                                                    *)
(***************************************************************************)
Restart ==
  /\ sessPath' = savedPath
  /\ active' = FALSE
  /\ jpc' = [j \in Jobs |-> IF jpc[j] \in Running \cup {"found"} THEN "gone" ELSE jpc[j]]
  /\ dpc' = [d \in Deletes |-> IF dpc[d] \in Deleting THEN "gone" ELSE dpc[d]]
  /\ torn' = (torn \/ \E d \in Deletes : dpc[d] \in Deleting)
  /\ \/ /\ item.status \in {"queued", "processing"}
        /\ item' = [item EXCEPT !.status = "failed"]
     \/ UNCHANGED item
  /\ jcopy' = [j \in Jobs |-> NoCopy]
  /\ dcopy' = [d \in Deletes |-> NoCopy]
  /\ moved' = [d \in Deletes |-> FALSE]
  /\ UNCHANGED <<savedPath, fileVars, raced>>

RecordingNext ==
  \/ \E j \in Jobs : TranscodeFind(j) \/ JobStep(j)
  \/ \E d \in Deletes : DeleteCheck(d) \/ DeleteStep(d)
  \/ Resync
  \/ Restart

RecordingSpec == RecordingInit /\ [][RecordingNext]_recordingVars

(* Handlers and goroutines run on, and Transcode has a timeout.  Nobody    *)
(* has to ask for anything, and the process need not die.                  *)
Fairness == \A j \in Jobs : WF_recordingVars(JobStep(j))

RecordingFairSpec == RecordingSpec /\ Fairness

-----------------------------------------------------------------------------
(* Each variable holds a value the code can give it. *)
RecordingTypeOK ==
  /\ sessPath \in BOOLEAN /\ savedPath \in BOOLEAN
  /\ item \in Items
  /\ dir \in {"here", "away", "gone"}
  /\ video \in {"none", "partial", "whole"}
  /\ active \in BOOLEAN
  /\ jpc \in [Jobs -> Running \cup {"idle", "found", "refused", "done", "gone"}]
  /\ jcopy \in [Jobs -> Items]
  /\ dpc \in [Deletes -> Deleting \cup {"idle", "refused", "done", "gone"}]
  /\ dcopy \in [Deletes -> Items]
  /\ moved \in [Deletes -> BOOLEAN]
  /\ raced \in BOOLEAN
  /\ torn \in BOOLEAN

(***************************************************************************)
(* A recording is transcoded once at a time, and it is in the registry     *)
(* exactly while a request or a goroutine works on it, on every path by    *)
(* which these end: an entry that stayed would refuse every later          *)
(* transcoding and deletion.                                               *)
(***************************************************************************)
OneTranscode ==
  /\ \A i, j \in Jobs : jpc[i] \in Running /\ jpc[j] \in Running => i = j
  /\ active = (\E j \in Jobs : jpc[j] \in Running)

(***************************************************************************)
(* What recordingTranscodeStatus and handleAuditRecordingVideo offer as a  *)
(* completed video is one ffmpeg has finished: the item says so only after *)
(* the file is whole, and no longer says so when the file is replaced.     *)
(* Excepted is a transcoding that overlaps a deletion, which may put an    *)
(* older item back.                                                        *)
(***************************************************************************)
VideoIsWhole ==
  item.status = "completed" /\ ~active /\ dir = "here" /\ ~raced
    => item.video /\ video = "whole"

(***************************************************************************)
(* A deletion that was refused, at whatever step, leaves the recording in  *)
(* place and findable, unless putting it back failed too or another        *)
(* deletion or transcoding overlapped it.                                  *)
(***************************************************************************)
RefusedDeleteKeeps ==
  ~raced /\ ~torn /\ (\A d \in Deletes : dpc[d] \in {"idle", "refused"})
    => dir = "here" /\ item.path /\ sessPath = HasSession

(***************************************************************************)
(* A deletion that was answered stays: later writes of the session and     *)
(* transcodings that had found the recording before bring nothing back.    *)
(***************************************************************************)
DeleteIsFinal ==
  ~raced /\ (\E d \in Deletes : dpc[d] = "done")
    => dir # "here" /\ ~item.path /\ ~sessPath

(***************************************************************************)
(* The directory is not taken away under a transcoding: what the tests say *)
(* of a deletion asked for while one runs (it answers with a conflict).    *)
(***************************************************************************)
NoDeleteUnderTranscode ==
  [][\A d \in Deletes : moved'[d] /\ ~moved[d] => ~active]_recordingVars
=============================================================================

----------------------------- MODULE AccessProofs -----------------------------
(***************************************************************************)
(* The parts of MCAccess that are proved for every value of their          *)
(* constants: recordings, the workspace view, the keys of a remote desktop *)
(* and the login sessions of the server.                                   *)
(***************************************************************************)
EXTENDS Workspace, DesktopInput, Recording, Naturals, TLAPS

CONSTANTS Tokens, Handlers, Roles, MaxFaults

VARIABLES cache, rows, expired, user, handler, drawn, given, started, faults, revoked, excused

Auth == INSTANCE AuthSession

-----------------------------------------------------------------------------
(***************************************************************************)
(* Safety of transcodings and deletions of a recording, for any sets of    *)
(* requests and deletions, whichever writes fail and wherever the process  *)
(* dies.                                                                   *)
(*                                                                         *)
(* The registry is a lock that the request takes and that either the       *)
(* request or the goroutine it starts gives back: OneTranscode is          *)
(* inductive together with the types.  Deletions do not take the lock,     *)
(* they look at it once.  As long as none overlaps another operation       *)
(* (~raced), each part of the recording is either in place or held by the  *)
(* one deletion that can put it back (Moves, Kept); what an answered one   *)
(* has cleared stays so (Deleted); and an item that says completed, or     *)
(* that a deletion holds, tells of the video as it is (Whole).             *)
(***************************************************************************)

(* A deletion that has moved the directory, one that may save again the    *)
(* item it has read, and a transcoding that may save the item it has read. *)
Away == {"read", "clear", "session", "unclear", "restore", "cleanup"}
HoldsItem == {"clear", "session", "unclear"}
HoldsCopy == {"queueing", "start", "fail", "complete"}

(* A transcoding whose request is marked in the item, so that the item     *)
(* does not tell of an earlier video any more.                             *)
Marked == {"queued", "start", "processing", "encoding", "encoded", "failed",
           "fail", "completed", "complete"}

(* Without an overlap a deletion is alone.                                 *)
Alone ==
  ~raced => /\ \A d, e \in Deletes : dpc[d] \in Deleting /\ dpc[e] \in Deleting => d = e
            /\ \A d \in Deletes : dpc[d] \in Deleting => ~active

(* ... and finds the directory where it expects it: at its place until it  *)
(* moves it, in its own backup from then on.                               *)
Moves ==
  ~raced => \A d \in Deletes : /\ dpc[d] \in {"log", "move"} => dir = "here"
                               /\ dpc[d] \in Away => moved[d] /\ dir = "away"

(* A session that is not in the store has no path.                         *)
SessionGone == ~HasSession => ~sessPath /\ ~savedPath

(* What a deletion has cleared when only the directory is left to remove.  *)
Cleared ==
  ~raced => \A d \in Deletes : dpc[d] = "cleanup" =>
    item = Synced(FALSE) /\ ~sessPath /\ ~savedPath

(* What an answered deletion leaves; a transcoding that had found the      *)
(* recording before holds a cleared item.                                  *)
Deleted ==
  ~raced => \A d \in Deletes : dpc[d] = "done" =>
    /\ dir # "here" /\ ~item.path /\ ~sessPath /\ ~savedPath
    /\ \A e \in Deletes : dpc[e] \notin Deleting
    /\ \A j \in Jobs : jpc[j] \in HoldsCopy => ~jcopy[j].path

(* What is left of the recording as long as no deletion was answered: each *)
(* part is in place unless a deletion is at a step where it is not, and    *)
(* then the deletion can put it back.                                      *)
Kept ==
  ~raced /\ ~torn /\ (\A d \in Deletes : dpc[d] # "done") =>
    /\ \A d \in Deletes : dpc[d] # "gone"
    /\ \A d \in Deletes : dpc[d] \in HoldsItem => dcopy[d].path
    /\ \A j \in Jobs : jcopy[j].path
    /\ (\A d \in Deletes : dpc[d] # "cleanup")
         => sessPath = HasSession /\ savedPath = HasSession
    /\ (\A d \in Deletes : dpc[d] \notin Away) => dir = "here"
    /\ (\A d \in Deletes : dpc[d] \notin {"session", "unclear", "cleanup"}) => item.path

(* An item that says completed names its video, and so does each copy.     *)
Named(i) == i.status = "completed" => i.video
AllNamed ==
  /\ Named(item)
  /\ \A j \in Jobs : Named(jcopy[j])
  /\ \A d \in Deletes : Named(dcopy[d])

(* Without an overlap an item that says completed, or that a deletion may  *)
(* put back, tells of the video as it is; while the video is replaced the  *)
(* item does not say so.                                                   *)
Whole ==
  ~raced =>
    /\ item.status = "completed" => video = "whole"
    /\ \A d \in Deletes : dpc[d] \in HoldsItem /\ dcopy[d].status = "completed"
                            => video = "whole"
    /\ \A j \in Jobs : jpc[j] \in Marked => item.status # "completed"
    /\ \A j \in Jobs : jpc[j] = "encoding" => video = "partial"
    /\ \A j \in Jobs : jpc[j] \in {"encoded", "completed", "complete"} => video = "whole"

(* The inductive invariant: of the deletions, and of the video.            *)
DeleteInv == Alone /\ Moves /\ SessionGone /\ Cleared /\ Deleted /\ Kept
VideoInv == AllNamed /\ Whole

-----------------------------------------------------------------------------

(* What a failed update leaves.                                            *)
LEMMA UpdateFailsTypes ==
  ASSUME RecordingTypeOK, NEW j \in Jobs, NEW request \in BOOLEAN, UpdateFails(j, request)
  PROVE  /\ item' \in Items
         /\ active' \in BOOLEAN
         /\ jpc' \in [Jobs -> Running \cup {"idle", "found", "refused", "done", "gone"}]
         /\ jcopy' \in [Jobs -> Items]
<1>1. NoCopy \in Items
  BY DEF NoCopy, Synced, Items, Statuses
<1>2. active' \in BOOLEAN
  BY DEF RecordingTypeOK, UpdateFails
<1> QED
  BY <1>1, <1>2 DEF RecordingTypeOK, UpdateFails, JobGo, Running

(* The read of an update.                                                  *)
LEMMA UpdateReadTypes ==
  ASSUME RecordingTypeOK, NEW j \in Jobs, NEW at, NEW to \in Running, NEW request \in BOOLEAN,
         UpdateRead(j, at, to, request)
  PROVE  RecordingTypeOK'
<1> USE DEF RecordingTypeOK, JobGo, sessVars, fileVars, delVars
<1>1. CASE UpdateFails(j, request)
  BY <1>1, UpdateFailsTypes DEF UpdateRead
<1>2. CASE ~UpdateFails(j, request)
  BY <1>2 DEF UpdateRead
<1> QED
  BY <1>1, <1>2

(* Its save.                                                               *)
LEMMA UpdateSaveTypes ==
  ASSUME RecordingTypeOK, NEW j \in Jobs, NEW at, NEW to \in Running, NEW saved \in Statuses,
         NEW request \in BOOLEAN, UpdateSave(j, at, to, saved, request)
  PROVE  RecordingTypeOK'
<1> USE DEF RecordingTypeOK, JobGo, sessVars, fileVars, delVars
<1>1. /\ NoCopy \in Items
      /\ [jcopy[j] EXCEPT !.status = saved, !.video = @ \/ saved = "completed"] \in Items
  BY DEF Items, Statuses, NoCopy, Synced
<1>2. CASE UpdateFails(j, request)
  BY <1>2, UpdateFailsTypes DEF UpdateSave
<1>3. CASE ~UpdateFails(j, request)
  BY <1>1, <1>3 DEF UpdateSave
<1> QED
  BY <1>2, <1>3

(* The four updates of a transcoding.                                      *)
LEMMA UpdateTypes ==
  ASSUME RecordingTypeOK, NEW j \in Jobs,
         \/ TranscodeQueue(j) \/ TranscodeBegin(j)
         \/ TranscodeFail(j) \/ TranscodeComplete(j)
  PROVE  RecordingTypeOK'
<1>1. /\ {"queueing", "queued", "start", "processing", "fail", "complete", "over"} \subseteq Running
      /\ {"queued", "processing", "failed", "completed"} \subseteq Statuses
  BY DEF Running, Statuses
<1>2. CASE TranscodeQueue(j)
  BY <1>1, <1>2, UpdateReadTypes, UpdateSaveTypes DEF TranscodeQueue
<1>3. CASE TranscodeBegin(j)
  BY <1>1, <1>3, UpdateReadTypes, UpdateSaveTypes DEF TranscodeBegin
<1>4. CASE TranscodeFail(j)
  BY <1>1, <1>4, UpdateReadTypes, UpdateSaveTypes DEF TranscodeFail
<1>5. CASE TranscodeComplete(j)
  BY <1>1, <1>5, UpdateReadTypes, UpdateSaveTypes DEF TranscodeComplete
<1> QED
  BY <1>2, <1>3, <1>4, <1>5

(* The reconciliation at the start.                                        *)
LEMMA RestartItem ==
  ASSUME RecordingTypeOK, Restart
  PROVE  item' \in Items
<1>1. [item EXCEPT !.status = "failed"] \in Items
  BY DEF RecordingTypeOK, Items, Statuses
<1> QED
  BY <1>1 DEF Restart, RecordingTypeOK

(* Every step keeps the types.                                             *)
LEMMA TypeStep ==
  ASSUME RecordingTypeOK, [RecordingNext]_recordingVars
  PROVE  RecordingTypeOK'
<1>0. NoCopy \in Items /\ \A p \in BOOLEAN : Synced(p) \in Items
  BY DEF NoCopy, Synced, Items, Statuses
<1> USE DEF RecordingTypeOK, Running, Deleting, JobGo, DelGo
<1> USE DEF sessVars, fileVars, jobVars, delVars
<1>1. ASSUME NEW j \in Jobs, TranscodeFind(j) \/ TranscodeStart(j) \/ TranscodeLog(j)
      PROVE  RecordingTypeOK'
  BY <1>1 DEF TranscodeFind, TranscodeStart, TranscodeLog
<1>2. ASSUME NEW j \in Jobs, TranscodeRun(j) \/ TranscodeEnd(j) \/ TranscodeLook(j)
      PROVE  RecordingTypeOK'
  BY <1>2 DEF TranscodeRun, TranscodeEnd, TranscodeLook
<1>3. ASSUME NEW j \in Jobs, TranscodeFinish(j)
      PROVE  RecordingTypeOK'
  BY <1>3 DEF TranscodeFinish
<1>4. ASSUME NEW j \in Jobs,
             \/ TranscodeQueue(j) \/ TranscodeBegin(j)
             \/ TranscodeFail(j) \/ TranscodeComplete(j)
      PROVE  RecordingTypeOK'
  BY ONLY RecordingTypeOK, <1>4, UpdateTypes
<1>5. ASSUME NEW d \in Deletes, DeleteCheck(d) \/ DeleteLog(d) \/ DeleteMove(d)
      PROVE  RecordingTypeOK'
  BY <1>5 DEF DeleteCheck, DeleteLog, DeleteMove
<1>6. ASSUME NEW d \in Deletes, DeleteRead(d) \/ DeleteClear(d) \/ DeleteSession(d)
      PROVE  RecordingTypeOK'
  <2>1. CASE DeleteRead(d)
    BY <2>1 DEF DeleteRead
  <2>2. CASE DeleteClear(d)
    BY <1>0, <2>2 DEF DeleteClear
  <2>3. CASE DeleteSession(d)
    BY <1>0, <2>3 DEF DeleteSession
  <2> QED
    BY <1>6, <2>1, <2>2, <2>3
<1>7. ASSUME NEW d \in Deletes, DeleteUnclear(d) \/ DeleteRestore(d) \/ DeleteCleanup(d)
      PROVE  RecordingTypeOK'
  <2>1. CASE DeleteUnclear(d)
    BY <1>0, <2>1 DEF DeleteUnclear
  <2>2. CASE DeleteRestore(d)
    BY <2>2 DEF DeleteRestore
  <2>3. CASE DeleteCleanup(d)
    BY <2>3 DEF DeleteCleanup
  <2> QED
    BY <1>7, <2>1, <2>2, <2>3
<1>8. CASE Resync
  BY <1>0, <1>8 DEF Resync
<1>9. CASE Restart
  BY <1>0, <1>9, RestartItem DEF Restart
<1>10. CASE UNCHANGED recordingVars
  BY <1>10 DEF recordingVars
<1> QED
  BY <1>1, <1>2, <1>3, <1>4, <1>5, <1>6, <1>7, <1>8, <1>9, <1>10
     DEF RecordingNext, JobStep, DeleteStep

(* A deletion's step leaves the registry and the transcodings alone.       *)
LEMMA DeleteLeavesJobs ==
  ASSUME NEW d \in Deletes, DeleteCheck(d) \/ DeleteStep(d)
  PROVE  UNCHANGED <<active, jpc>>
BY DEF DeleteCheck, DeleteStep, DeleteLog, DeleteMove, DeleteRead, DeleteClear,
       DeleteSession, DeleteUnclear, DeleteRestore, DeleteCleanup, jobVars

(***************************************************************************)
(* What a step of a transcoding does to the registry: it takes it when it  *)
(* is free, keeps what it holds, or gives it back.                         *)
(***************************************************************************)
RegistryStep(j) ==
  /\ \A i \in Jobs \ {j} : jpc'[i] = jpc[i]
  /\ \/ jpc[j] \notin Running /\ jpc'[j] \notin Running /\ active' = active
     \/ jpc[j] \notin Running /\ ~active /\ jpc'[j] \in Running /\ active' = TRUE
     \/ jpc[j] \in Running /\ jpc'[j] \in Running /\ active' = active
     \/ jpc[j] \in Running /\ jpc'[j] \notin Running /\ active' = FALSE

(* Every step of a transcoding is one of these.                            *)
LEMMA JobRegistryStep ==
  ASSUME RecordingTypeOK, NEW j \in Jobs, TranscodeFind(j) \/ JobStep(j)
  PROVE  RegistryStep(j)
<1> USE DEF RecordingTypeOK, Running, JobGo, RegistryStep
<1>1. CASE TranscodeFind(j) \/ TranscodeStart(j) \/ TranscodeLog(j)
  BY <1>1 DEF TranscodeFind, TranscodeStart, TranscodeLog
<1>2. CASE TranscodeRun(j) \/ TranscodeEnd(j) \/ TranscodeLook(j) \/ TranscodeFinish(j)
  BY <1>2 DEF TranscodeRun, TranscodeEnd, TranscodeLook, TranscodeFinish
<1>3. ASSUME NEW at \in Running, NEW to \in Running, NEW request \in BOOLEAN,
             UpdateRead(j, at, to, request)
      PROVE  RegistryStep(j)
  BY <1>3 DEF UpdateRead, UpdateFails
<1>4. ASSUME NEW at \in Running, NEW to \in Running, NEW request \in BOOLEAN,
             NEW saved, UpdateSave(j, at, to, saved, request)
      PROVE  RegistryStep(j)
  BY <1>4 DEF UpdateSave, UpdateFails
<1>5. CASE \/ TranscodeQueue(j) \/ TranscodeBegin(j)
           \/ TranscodeFail(j) \/ TranscodeComplete(j)
  BY <1>3, <1>4, <1>5
     DEF TranscodeQueue, TranscodeBegin, TranscodeFail, TranscodeComplete
<1> QED
  BY <1>1, <1>2, <1>5 DEF JobStep

(* Every step keeps the registry exclusive and exact.                      *)
LEMMA RegistryKept ==
  ASSUME RecordingTypeOK, OneTranscode, [RecordingNext]_recordingVars
  PROVE  OneTranscode'
<1>1. ASSUME NEW j \in Jobs, TranscodeFind(j) \/ JobStep(j)
      PROVE  OneTranscode'
  <2>1. RegistryStep(j)
    BY <1>1, JobRegistryStep
  <2>2. ASSUME NEW i \in Jobs, i # j
        PROVE  jpc'[i] = jpc[i]
    BY <2>1, <2>2 DEF RegistryStep
  <2>3. CASE active' = active /\ (jpc[j] \in Running <=> jpc'[j] \in Running)
    BY <2>2, <2>3 DEF OneTranscode
  <2>4. CASE ~active /\ active' = TRUE /\ jpc'[j] \in Running
    BY <2>2, <2>4 DEF OneTranscode
  <2>5. CASE active' = FALSE /\ jpc[j] \in Running /\ jpc'[j] \notin Running
    BY <2>2, <2>5 DEF OneTranscode
  <2> QED
    BY <2>1, <2>3, <2>4, <2>5 DEF RegistryStep
<1>2. ASSUME NEW d \in Deletes, DeleteCheck(d) \/ DeleteStep(d)
      PROVE  OneTranscode'
  BY <1>2, DeleteLeavesJobs DEF OneTranscode
<1>3. CASE Resync
  BY <1>3 DEF Resync, OneTranscode, jobVars
<1>4. CASE Restart
  BY <1>4 DEF Restart, OneTranscode, Running
<1>5. CASE UNCHANGED recordingVars
  BY <1>5 DEF recordingVars, jobVars, OneTranscode
<1> QED
  BY <1>1, <1>2, <1>3, <1>4, <1>5 DEF RecordingNext

(* The first states.                                                       *)
LEMMA TypesOpen == ASSUME RecordingInit PROVE RecordingTypeOK
<1>1. NoCopy \in Items /\ Synced(TRUE) \in Items
  BY DEF NoCopy, Synced, Items, Statuses
<1>2. sessPath \in BOOLEAN /\ savedPath \in BOOLEAN
  BY HasSessionAssumption, Zenon DEF RecordingInit
<1> QED
  BY <1>1, <1>2 DEF RecordingInit, RecordingTypeOK

LEMMA RegistryOpens == ASSUME RecordingInit PROVE OneTranscode
BY DEF RecordingInit, OneTranscode, Running

(* Each variable keeps its type.                                           *)
THEOREM RecordingTypes == RecordingSpec => []RecordingTypeOK
BY TypesOpen, TypeStep, PTL DEF RecordingSpec

(***************************************************************************)
(* A recording is transcoded once at a time and its registration ends with *)
(* the transcoding (startAuditRecordingTranscode, runRecordingTranscode),  *)
(* for any number of requests and deletions.                               *)
(***************************************************************************)
THEOREM TranscodingsExclude == RecordingSpec => []OneTranscode
<1>1. RecordingInit => OneTranscode
  BY RegistryOpens
<1> QED
  BY <1>1, RecordingTypes, RegistryKept, PTL DEF RecordingSpec

-----------------------------------------------------------------------------
(***************************************************************************)
(* What a step of a transcoding does to what it shares with deletions:     *)
(* nothing but to the item, of which it reads a copy and saves the copy    *)
(* with a new status; and it starts beside a deletion only as an overlap.  *)
(***************************************************************************)
CopyStep(j) ==
  \/ /\ jpc[j] \notin HoldsCopy /\ jpc'[j] \notin HoldsCopy
     /\ UNCHANGED <<item, jcopy>>
  \/ /\ jpc[j] \in Running /\ jpc'[j] \in HoldsCopy
     /\ UNCHANGED item /\ jcopy' = [jcopy EXCEPT ![j] = item]
  \/ /\ jpc[j] \in Running /\ jpc'[j] \notin HoldsCopy
     /\ UNCHANGED item /\ jcopy' = [jcopy EXCEPT ![j] = NoCopy]
  \/ /\ jpc[j] \in HoldsCopy /\ jpc'[j] \notin HoldsCopy
     /\ jcopy' = [jcopy EXCEPT ![j] = NoCopy]
     /\ \E saved \in Statuses :
          item' = [jcopy[j] EXCEPT !.status = saved, !.video = @ \/ saved = "completed"]

LEMMA JobCopyStep ==
  ASSUME RecordingTypeOK, NEW j \in Jobs, TranscodeFind(j) \/ JobStep(j)
  PROVE  CopyStep(j)
<1> USE DEF RecordingTypeOK, JobGo, HoldsCopy, Running
<1>1. CASE TranscodeFind(j) \/ TranscodeStart(j) \/ TranscodeLog(j)
  BY <1>1 DEF TranscodeFind, TranscodeStart, TranscodeLog, CopyStep
<1>2. CASE TranscodeRun(j) \/ TranscodeEnd(j) \/ TranscodeLook(j) \/ TranscodeFinish(j)
  BY <1>2 DEF TranscodeRun, TranscodeEnd, TranscodeLook, TranscodeFinish, CopyStep
<1>3. ASSUME NEW at \in Running, NEW to \in HoldsCopy, NEW request \in BOOLEAN,
             UpdateRead(j, at, to, request)
      PROVE  CopyStep(j)
  BY <1>3 DEF UpdateRead, UpdateFails, CopyStep
<1>4. ASSUME NEW at \in HoldsCopy, NEW to \in Running \ HoldsCopy,
             NEW request \in BOOLEAN, NEW saved \in Statuses,
             UpdateSave(j, at, to, saved, request)
      PROVE  CopyStep(j)
  BY <1>4 DEF UpdateSave, UpdateFails, CopyStep
<1>5. CASE TranscodeQueue(j)
  BY <1>3, <1>4, <1>5 DEF TranscodeQueue, Statuses
<1>6. CASE TranscodeBegin(j)
  BY <1>3, <1>4, <1>6 DEF TranscodeBegin, Statuses
<1>7. CASE TranscodeFail(j)
  BY <1>3, <1>4, <1>7 DEF TranscodeFail, Statuses
<1>8. CASE TranscodeComplete(j)
  BY <1>3, <1>4, <1>8 DEF TranscodeComplete, Statuses
<1> QED
  BY <1>1, <1>2, <1>5, <1>6, <1>7, <1>8 DEF JobStep

LEMMA JobLeavesDeletes ==
  ASSUME NEW j \in Jobs, TranscodeFind(j) \/ JobStep(j)
  PROVE  UNCHANGED <<sessVars, dir, delVars, torn>>
<1> USE DEF fileVars, sessVars, delVars
<1>1. CASE \/ TranscodeFind(j) \/ TranscodeStart(j) \/ TranscodeLog(j)
           \/ TranscodeRun(j) \/ TranscodeEnd(j) \/ TranscodeLook(j) \/ TranscodeFinish(j)
  BY <1>1 DEF TranscodeFind, TranscodeStart, TranscodeLog, TranscodeRun, TranscodeEnd,
              TranscodeLook, TranscodeFinish
<1>2. CASE \/ TranscodeQueue(j) \/ TranscodeBegin(j)
           \/ TranscodeFail(j) \/ TranscodeComplete(j)
  BY <1>2 DEF TranscodeQueue, TranscodeBegin, TranscodeFail, TranscodeComplete,
              UpdateRead, UpdateSave
<1> QED
  BY <1>1, <1>2 DEF JobStep

LEMMA JobRaces ==
  ASSUME OneTranscode, NEW j \in Jobs, TranscodeFind(j) \/ JobStep(j), ~raced'
  PROVE  ~raced /\ (active' => active \/ \A d \in Deletes : dpc[d] \notin Deleting)
<1> USE DEF OneTranscode, Running
<1>1. CASE TranscodeStart(j)
  BY <1>1 DEF TranscodeStart
<1>2. CASE \/ TranscodeFind(j) \/ TranscodeLog(j)
           \/ TranscodeRun(j) \/ TranscodeEnd(j) \/ TranscodeLook(j) \/ TranscodeFinish(j)
  BY <1>2 DEF TranscodeFind, TranscodeLog, TranscodeRun, TranscodeEnd,
              TranscodeLook, TranscodeFinish
<1>3. CASE \/ TranscodeQueue(j) \/ TranscodeBegin(j)
           \/ TranscodeFail(j) \/ TranscodeComplete(j)
  BY <1>3 DEF TranscodeQueue, TranscodeBegin, TranscodeFail, TranscodeComplete,
              UpdateRead, UpdateSave, UpdateFails
<1> QED
  BY <1>1, <1>2, <1>3 DEF JobStep

(* A transcoding keeps what deletions rely on.                             *)
LEMMA JobKeepsDeletes ==
  ASSUME RecordingTypeOK, OneTranscode, DeleteInv, NEW j \in Jobs, TranscodeFind(j) \/ JobStep(j)
  PROVE  DeleteInv'
<1>1. /\ UNCHANGED <<sessPath, savedPath, dir, dpc, dcopy, moved, torn>>
      /\ RegistryStep(j) /\ CopyStep(j)
  BY JobLeavesDeletes, JobRegistryStep, JobCopyStep DEF sessVars, delVars
<1>2. SessionGone'
  BY <1>1 DEF DeleteInv, SessionGone
<1> SUFFICES ASSUME ~raced' PROVE DeleteInv'
  BY <1>2 DEF DeleteInv, Alone, Moves, Cleared, Deleted, Kept
<1>3. ~raced /\ (active' => active \/ \A d \in Deletes : dpc[d] \notin Deleting)
  BY JobRaces
<1>4. Alone'
  BY <1>1, <1>3 DEF DeleteInv, Alone
<1>5. Moves'
  BY <1>1, <1>3 DEF DeleteInv, Moves
<1>6. ASSUME jpc[j] \in Running PROVE \A d \in Deletes : dpc[d] \notin Deleting
  BY <1>3, <1>6 DEF DeleteInv, Alone, OneTranscode
<1>7. HoldsCopy \subseteq Running /\ "cleanup" \in Deleting /\ Away \subseteq Deleting
      /\ {"session", "unclear"} \subseteq Deleting
  BY DEF HoldsCopy, Running, Deleting, Away
<1>8. UNCHANGED item \/ jpc[j] \in Running
  BY <1>1, <1>7 DEF CopyStep
<1>9. Cleared'
  BY <1>1, <1>3, <1>6, <1>7, <1>8 DEF DeleteInv, Cleared
<1>10. /\ \A i \in Jobs \ {j} : jcopy'[i] = jcopy[i] /\ jpc'[i] = jpc[i]
       /\ \/ item' = item /\ jpc'[j] \notin HoldsCopy /\ jcopy'[j] \in {jcopy[j], NoCopy}
          \/ item' = item /\ jcopy'[j] = item /\ jpc[j] \in Running
          \/ /\ item'.path = jcopy[j].path /\ jcopy'[j] = NoCopy
             /\ jpc[j] \in HoldsCopy /\ jpc'[j] \notin HoldsCopy
  <2>1. \A i \in Jobs \ {j} : jcopy'[i] = jcopy[i] /\ jpc'[i] = jpc[i]
    BY <1>1 DEF CopyStep, RegistryStep, RecordingTypeOK
  <2>2. \A saved \in Statuses :
          [jcopy[j] EXCEPT !.status = saved, !.video = @ \/ saved = "completed"].path
            = jcopy[j].path
    BY DEF RecordingTypeOK, Items
  <2> QED
    BY <1>1, <2>1, <2>2 DEF CopyStep, RecordingTypeOK
<1>11. Deleted'
  BY <1>1, <1>3, <1>10 DEF DeleteInv, Deleted
<1>12. Kept'
  <2> SUFFICES ASSUME ~torn, \A d \in Deletes : dpc[d] # "done"
               PROVE  /\ \A i \in Jobs : jcopy'[i].path
                      /\ (\A d \in Deletes : dpc[d] \notin {"session", "unclear", "cleanup"})
                           => item'.path
    BY <1>1, <1>3 DEF DeleteInv, Kept
  <2>1. /\ \A i \in Jobs : jcopy[i].path
        /\ (\A d \in Deletes : dpc[d] \notin {"session", "unclear", "cleanup"}) => item.path
    BY <1>3 DEF DeleteInv, Kept
  <2>2. jpc[j] \in Running => item.path
    BY <1>6, <1>7, <2>1
  <2>3. NoCopy.path
    BY DEF NoCopy, Synced
  <2> QED
    BY <1>10, <2>1, <2>2, <2>3
<1> QED
  BY <1>2, <1>4, <1>5, <1>9, <1>11, <1>12 DEF DeleteInv

(* Without an overlap a deletion on its way has no other deletion beside   *)
(* or before it, and no transcoding beside it.                             *)
LEMMA DeleteAlone ==
  ASSUME DeleteInv, ~raced, NEW d \in Deletes, dpc[d] \in Deleting
  PROVE  /\ \A e \in Deletes : e # d => dpc[e] \notin Deleting
         /\ \A e \in Deletes : dpc[e] # "done"
         /\ ~active
  BY DEF DeleteInv, Alone, Deleted

(* deleteAuditRecording finds the recording in place: no deletion was      *)
(* answered, and none is on its way unless they overlap.                   *)
LEMMA CheckKeepsDeletes ==
  ASSUME RecordingTypeOK, DeleteInv, NEW d \in Deletes, DeleteCheck(d)
  PROVE  DeleteInv'
<1>1. /\ UNCHANGED <<sessPath, savedPath, item, dir, active, jpc, jcopy, dcopy, moved, torn>>
      /\ dpc[d] = "idle" /\ dir = "here"
      /\ dpc'[d] \in {"log", "refused"}
      /\ \A e \in Deletes \ {d} : dpc'[e] = dpc[e]
      /\ dpc'[d] = "log" => ~active
  BY DEF DeleteCheck, Target, DelGo, sessVars, fileVars, jobVars, RecordingTypeOK
<1>2. SessionGone'
  BY <1>1 DEF DeleteInv, SessionGone
<1> SUFFICES ASSUME ~raced' PROVE DeleteInv'
  BY <1>2 DEF DeleteInv, Alone, Moves, Cleared, Deleted, Kept
<1>3. ~raced /\ (dpc'[d] = "log" => \A e \in Deletes : dpc[e] \notin Deleting)
  BY <1>1 DEF DeleteCheck, DelGo, RecordingTypeOK
<1>4. Alone'
  BY <1>1, <1>3 DEF DeleteInv, Alone, Deleting
<1>5. Moves'
  BY <1>1, <1>3 DEF DeleteInv, Moves, Away
<1>6. Cleared'
  BY <1>1, <1>3 DEF DeleteInv, Cleared
<1>7. Deleted'
  BY <1>1, <1>3 DEF DeleteInv, Deleted
<1>8. Kept'
  BY <1>1, <1>3 DEF DeleteInv, Kept, HoldsItem, Away
<1> QED
  BY <1>2, <1>4, <1>5, <1>6, <1>7, <1>8 DEF DeleteInv

(***************************************************************************)
(* The steps of a deletion up to its first write: the log, the move of the *)
(* directory and the read of the item.                                     *)
(***************************************************************************)
LEMMA MoveKeepsDeletes ==
  ASSUME RecordingTypeOK, DeleteInv, NEW d \in Deletes,
         DeleteLog(d) \/ DeleteMove(d) \/ DeleteRead(d)
  PROVE  DeleteInv'
<1>1. /\ UNCHANGED <<sessPath, savedPath, item, active, jpc, jcopy, raced, torn>>
      /\ \A e \in Deletes \ {d} : /\ dpc'[e] = dpc[e] /\ dcopy'[e] = dcopy[e]
                                  /\ moved'[e] = moved[e]
      /\ \/ dpc[d] = "log" /\ dpc'[d] \in {"move", "refused"} /\ UNCHANGED <<dir, moved>>
         \/ dpc[d] = "move" /\ dpc'[d] = "refused" /\ UNCHANGED <<dir, moved>>
         \/ /\ dpc[d] = "move" /\ dpc'[d] = "read"
            /\ dir = "here" => dir' = "away" /\ moved'[d]
         \/ /\ dpc[d] = "read" /\ dpc'[d] = "clear" /\ dcopy'[d] = item
            /\ UNCHANGED <<dir, moved>>
         \/ dpc[d] = "read" /\ dpc'[d] = "restore" /\ UNCHANGED <<dir, moved>>
  BY DEF DeleteLog, DeleteMove, DeleteRead, DelGo, sessVars, fileVars, jobVars, RecordingTypeOK
<1>2. SessionGone'
  BY <1>1 DEF DeleteInv, SessionGone
<1> SUFFICES ASSUME ~raced PROVE DeleteInv'
  BY <1>1, <1>2 DEF DeleteInv, Alone, Moves, Cleared, Deleted, Kept
<1>3. /\ \A e \in Deletes : e # d => dpc[e] \notin Deleting
      /\ \A e \in Deletes : dpc[e] # "done"
      /\ ~active
  BY <1>1, DeleteAlone DEF Deleting
<1>4. Alone'
  BY <1>1, <1>3 DEF Alone
<1>5. Moves'
  BY <1>1, <1>3 DEF DeleteInv, Moves, Away, Deleting
<1>6. Cleared' /\ Deleted'
  BY <1>1, <1>3 DEF Cleared, Deleted, Deleting
<1>7. Kept'
  BY <1>1, <1>3 DEF DeleteInv, Kept, HoldsItem, Away, Deleting
<1> QED
  BY <1>2, <1>4, <1>5, <1>6, <1>7 DEF DeleteInv

(***************************************************************************)
(* The writes of a deletion: the item and the session are cleared, or the  *)
(* item put back.                                                          *)
(***************************************************************************)
LEMMA ClearKeepsDeletes ==
  ASSUME RecordingTypeOK, DeleteInv, NEW d \in Deletes,
         DeleteClear(d) \/ DeleteSession(d) \/ DeleteUnclear(d)
  PROVE  DeleteInv'
<1>1. /\ UNCHANGED <<dir, moved, active, jpc, jcopy, raced>>
      /\ \A e \in Deletes \ {d} : dpc'[e] = dpc[e] /\ dcopy'[e] = dcopy[e]
      /\ \/ /\ dpc[d] = "clear" /\ dpc'[d] = (IF HasSession THEN "session" ELSE "cleanup")
            /\ item' = Synced(FALSE) /\ UNCHANGED <<sessPath, savedPath, dcopy, torn>>
         \/ /\ dpc[d] = "clear" /\ dpc'[d] = (IF HasSession THEN "restore" ELSE "unclear")
            /\ UNCHANGED <<sessPath, savedPath, item, dcopy, torn>>
         \/ /\ dpc[d] = "session" /\ dpc'[d] = "cleanup"
            /\ ~sessPath' /\ ~savedPath' /\ item' = Synced(FALSE) /\ UNCHANGED torn
         \/ /\ dpc[d] = "session" /\ dpc'[d] = "unclear"
            /\ UNCHANGED <<sessPath, item, dcopy>>
            /\ UNCHANGED <<savedPath, torn>> \/ (~savedPath' /\ torn')
         \/ /\ dpc[d] = "unclear" /\ dpc'[d] = "restore"
            /\ (item' = dcopy[d] /\ UNCHANGED torn) \/ torn'
            /\ UNCHANGED <<sessPath, savedPath>>
  BY DEF DeleteClear, DeleteSession, DeleteUnclear, DelGo, sessVars, fileVars, jobVars, RecordingTypeOK
<1>2. SessionGone'
  BY <1>1 DEF DeleteInv, SessionGone
<1> SUFFICES ASSUME ~raced PROVE DeleteInv'
  BY <1>1, <1>2 DEF DeleteInv, Alone, Moves, Cleared, Deleted, Kept
<1>3. /\ \A e \in Deletes : e # d => dpc[e] \notin Deleting
      /\ \A e \in Deletes : dpc[e] # "done"
      /\ ~active
  BY <1>1, DeleteAlone DEF Deleting
<1>4. Alone'
  BY <1>1, <1>3 DEF Alone
<1>5. Moves'
  BY <1>1, <1>3 DEF DeleteInv, Moves, Away, Deleting
<1>6. Cleared'
  BY <1>1, <1>2, <1>3 DEF Cleared, Deleting, SessionGone, DeleteInv
<1>7. Deleted'
  BY <1>1, <1>3 DEF Deleted, Deleting
<1>8. Kept'
  <2> SUFFICES ASSUME ~torn', \A e \in Deletes : dpc'[e] # "done"
               PROVE  Kept'
    BY DEF Kept
  <2>1. ~torn
    BY <1>1
  <2>2. /\ dpc[d] # "gone" /\ \A e \in Deletes : e # d => dpc[e] # "gone"
        /\ dpc[d] \in HoldsItem => dcopy[d].path
        /\ \A j \in Jobs : jcopy[j].path
        /\ dpc[d] # "cleanup" => sessPath = HasSession /\ savedPath = HasSession
        /\ dpc[d] \notin {"session", "unclear", "cleanup"} => item.path
    BY <1>1, <1>3, <2>1 DEF DeleteInv, Kept, Deleting
  <2>3. dpc'[d] \in Away
    BY <1>1 DEF Away
  <2>4. \A e \in Deletes : e # d => dpc'[e] \notin HoldsItem /\ dpc'[e] # "gone"
    BY <1>1, <1>3, <2>2 DEF HoldsItem, Deleting
  <2>5. dpc'[d] \in HoldsItem => dcopy'[d].path
    BY <1>1, <2>2 DEF HoldsItem
  <2>6. dpc'[d] # "cleanup" => sessPath' = HasSession /\ savedPath' = HasSession
    BY <1>1, <2>2
  <2>7. dpc'[d] \notin {"session", "unclear", "cleanup"} => item'.path
    BY <1>1, <2>2 DEF HoldsItem
  <2> QED
    BY <1>1, <2>2, <2>3, <2>4, <2>5, <2>6, <2>7 DEF Kept, Away
<1> QED
  BY <1>2, <1>4, <1>5, <1>6, <1>7, <1>8 DEF DeleteInv

(* The end of a deletion: the directory is put back, or removed.           *)
LEMMA EndKeepsDeletes ==
  ASSUME RecordingTypeOK, OneTranscode, DeleteInv, NEW d \in Deletes,
         DeleteRestore(d) \/ DeleteCleanup(d)
  PROVE  DeleteInv'
<1>1. /\ UNCHANGED <<sessPath, savedPath, item, active, jpc, jcopy, dcopy, raced>>
      /\ \A e \in Deletes \ {d} : dpc'[e] = dpc[e] /\ moved'[e] = moved[e]
      /\ \/ /\ dpc[d] = "restore" /\ dpc'[d] = "refused"
            /\ moved[d] => (dir' = "here" /\ UNCHANGED torn) \/ torn'
         \/ /\ dpc[d] = "cleanup" /\ dpc'[d] = "done"
            /\ moved[d] => dir' = "gone"
            /\ UNCHANGED torn
  BY DEF DeleteRestore, DeleteCleanup, DelGo, sessVars, fileVars, jobVars, RecordingTypeOK
<1>2. SessionGone'
  BY <1>1 DEF DeleteInv, SessionGone
<1> SUFFICES ASSUME ~raced PROVE DeleteInv'
  BY <1>1, <1>2 DEF DeleteInv, Alone, Moves, Cleared, Deleted, Kept
<1>3. /\ \A e \in Deletes : e # d => dpc[e] \notin Deleting
      /\ \A e \in Deletes : dpc[e] # "done"
      /\ ~active /\ moved[d]
  BY <1>1, DeleteAlone DEF Deleting, DeleteInv, Moves, Away
<1>4. Alone'
  BY <1>1, <1>3 DEF Alone, Deleting
<1>5. Moves' /\ Cleared'
  BY <1>1, <1>3 DEF Moves, Cleared, Away, Deleting
<1>6. Deleted'
  <2>1. \A j \in Jobs : jpc[j] \notin HoldsCopy
    BY <1>3 DEF OneTranscode, HoldsCopy, Running
  <2>2. dpc[d] = "cleanup" => ~item.path /\ ~sessPath /\ ~savedPath
    BY DEF DeleteInv, Cleared, Synced
  <2> QED
    BY <1>1, <1>3, <2>1, <2>2 DEF Deleted, Deleting
<1>7. Kept'
  BY <1>1, <1>3 DEF DeleteInv, Kept, HoldsItem, Away, Deleting
<1> QED
  BY <1>2, <1>4, <1>5, <1>6, <1>7 DEF DeleteInv

(* A write of the session, and a restart, which loses nothing but what a   *)
(* deletion was about to put back.                                         *)
LEMMA ResyncKeepsDeletes ==
  ASSUME RecordingTypeOK, DeleteInv, Resync
  PROVE  DeleteInv'
<1>1. /\ UNCHANGED <<sessPath, dir, active, jpc, jcopy, dpc, dcopy, moved, raced, torn>>
      /\ HasSession /\ item' = Synced(sessPath) /\ savedPath' = sessPath
      /\ item'.path = sessPath
  BY DEF Resync, fileVars, jobVars, delVars, Synced
<1>2. Alone' /\ Moves' /\ SessionGone'
  BY <1>1 DEF DeleteInv, Alone, Moves, SessionGone
<1>3. Cleared'
  <2>1. ~sessPath => sessPath = FALSE
    BY DEF RecordingTypeOK
  <2>2. ~sessPath => item' = Synced(FALSE)
    BY <1>1, <2>1
  <2> QED
    BY <1>1, <2>2 DEF DeleteInv, Cleared
<1>4. Deleted'
  BY <1>1 DEF DeleteInv, Deleted
<1>5. Kept'
  BY <1>1 DEF DeleteInv, Kept
<1> QED
  BY <1>2, <1>3, <1>4, <1>5 DEF DeleteInv

LEMMA RestartKeepsDeletes ==
  ASSUME RecordingTypeOK, DeleteInv, Restart
  PROVE  DeleteInv'
<1>1. /\ UNCHANGED <<savedPath, dir, raced>> /\ sessPath' = savedPath
      /\ \A d \in Deletes : dpc'[d] = IF dpc[d] \in Deleting THEN "gone" ELSE dpc[d]
      /\ \A d \in Deletes : dpc'[d] \notin Deleting
      /\ torn' = (torn \/ \E d \in Deletes : dpc[d] \in Deleting)
      /\ \A j \in Jobs : jpc'[j] \notin HoldsCopy
      /\ \A j \in Jobs : jcopy'[j].path
  BY DEF Restart, fileVars, Deleting, HoldsCopy, Running, NoCopy, Synced
<1>2. item'.path = item.path
  BY DEF Restart, RecordingTypeOK, Items
<1>3. Away \subseteq Deleting /\ HoldsItem \subseteq Deleting
      /\ {"log", "move", "cleanup"} \subseteq Deleting
  BY DEF Away, HoldsItem, Deleting
<1>4. Alone' /\ Moves' /\ SessionGone' /\ Cleared'
  BY <1>1, <1>3 DEF DeleteInv, Alone, Moves, SessionGone, Cleared
<1>5. Deleted'
  BY <1>1, <1>2 DEF DeleteInv, Deleted
<1>6. Kept'
  <2> SUFFICES ASSUME ~raced', ~torn', \A d \in Deletes : dpc'[d] # "done"
               PROVE  Kept'
    BY DEF Kept
  <2>1. ~torn /\ \A d \in Deletes : dpc[d] \notin Deleting /\ dpc'[d] = dpc[d]
    BY <1>1
  <2> QED
    BY <1>1, <1>2, <1>3, <2>1 DEF DeleteInv, Kept
<1> QED
  BY <1>4, <1>5, <1>6 DEF DeleteInv

(* Every step keeps the invariant of the deletions.                        *)
LEMMA DeleteInvStep ==
  ASSUME RecordingTypeOK, OneTranscode, DeleteInv, [RecordingNext]_recordingVars
  PROVE  DeleteInv'
<1>1. ASSUME NEW j \in Jobs, TranscodeFind(j) \/ JobStep(j) PROVE DeleteInv'
  BY <1>1, JobKeepsDeletes
<1>2. ASSUME NEW d \in Deletes, DeleteCheck(d) \/ DeleteStep(d) PROVE DeleteInv'
  BY <1>2, CheckKeepsDeletes, MoveKeepsDeletes, ClearKeepsDeletes, EndKeepsDeletes
     DEF DeleteStep
<1>3. CASE UNCHANGED recordingVars
  BY <1>3 DEF recordingVars, sessVars, fileVars, jobVars, delVars, DeleteInv, Alone, Moves,
              SessionGone, Cleared, Deleted, Kept
<1> QED
  BY <1>1, <1>2, <1>3, ResyncKeepsDeletes, RestartKeepsDeletes DEF RecordingNext

(* The first states have it.                                               *)
LEMMA DeletesOpen == ASSUME RecordingInit PROVE DeleteInv
<1>1. /\ sessPath = HasSession /\ savedPath = HasSession
  BY DEF RecordingInit
<1>2. SessionGone
  BY <1>1 DEF SessionGone
<1>3. Alone /\ Moves /\ Cleared /\ Deleted
  BY DEF RecordingInit, Alone, Moves, Cleared, Deleted, Deleting, Away
<1>4. Kept
  BY <1>1 DEF RecordingInit, Kept, HoldsItem, NoCopy, Synced
<1> QED
  BY <1>2, <1>3, <1>4 DEF DeleteInv

(* The invariant of a recording, but for what its items say of the video.  *)
RecordingInv == RecordingTypeOK /\ OneTranscode /\ DeleteInv

LEMMA RecordingOpens == ASSUME RecordingInit PROVE RecordingInv
BY TypesOpen, RegistryOpens, DeletesOpen DEF RecordingInv

LEMMA RecordingKeeps ==
  ASSUME RecordingInv, [RecordingNext]_recordingVars PROVE RecordingInv'
BY TypeStep, RegistryKept, DeleteInvStep DEF RecordingInv

LEMMA RecordingShows ==
  ASSUME RecordingInv
  PROVE  RecordingTypeOK /\ RefusedDeleteKeeps /\ DeleteIsFinal
BY DEF RecordingInv, DeleteInv, Kept, Deleted, RefusedDeleteKeeps, DeleteIsFinal, Away

LEMMA DeleteInvariant == RecordingSpec => []DeleteInv
<1>1. RecordingInit => DeleteInv
  BY DeletesOpen
<1>2. RecordingTypeOK /\ OneTranscode /\ DeleteInv /\ [RecordingNext]_recordingVars => DeleteInv'
  BY DeleteInvStep
<1> QED
  BY <1>1, <1>2, RecordingTypes, TranscodingsExclude, PTL DEF RecordingSpec

-----------------------------------------------------------------------------
(* Every step keeps the name of the video with the status.                 *)
LEMMA NamedStep ==
  ASSUME RecordingTypeOK, AllNamed, [RecordingNext]_recordingVars
  PROVE  AllNamed'
<1>0. /\ Named(NoCopy) /\ \A p \in BOOLEAN : Named(Synced(p))
      /\ Named([item EXCEPT !.status = "failed"])
  BY DEF Named, NoCopy, Synced, RecordingTypeOK, Items
<1>1. ASSUME NEW j \in Jobs, TranscodeFind(j) \/ JobStep(j) PROVE AllNamed'
  <2>1. CopyStep(j) /\ UNCHANGED dcopy
    BY <1>1, JobCopyStep, JobLeavesDeletes DEF delVars
  <2>2. Named(item')
    <3>1. CASE UNCHANGED item
      BY <3>1 DEF AllNamed
    <3>2. ASSUME NEW saved \in Statuses,
                 item' = [jcopy[j] EXCEPT !.status = saved, !.video = @ \/ saved = "completed"]
          PROVE  Named(item')
      <4>1. jcopy[j] \in Items
        BY DEF RecordingTypeOK
      <4> QED
        BY <3>2, <4>1 DEF Items, Statuses, Named
    <3> QED
      BY <2>1, <3>1, <3>2 DEF CopyStep
  <2>3. \A i \in Jobs : Named(jcopy'[i])
    BY <1>0, <2>1 DEF CopyStep, AllNamed, RecordingTypeOK
  <2> QED
    BY <2>1, <2>2, <2>3 DEF AllNamed, Named
<1>2. ASSUME NEW d \in Deletes, DeleteCheck(d) \/ DeleteStep(d) PROVE AllNamed'
  <2>1. /\ UNCHANGED jcopy
        /\ item' = item \/ item' = Synced(FALSE) \/ item' = dcopy[d]
        /\ \/ dcopy' = dcopy
           \/ dcopy' = [dcopy EXCEPT ![d] = item]
           \/ dcopy' = [dcopy EXCEPT ![d] = NoCopy]
    BY <1>2 DEF DeleteCheck, DeleteStep, DeleteLog, DeleteMove, DeleteRead, DeleteClear,
                DeleteSession, DeleteUnclear, DeleteRestore, DeleteCleanup, jobVars
  <2>2. Named(item')
    BY <1>0, <2>1 DEF AllNamed
  <2>3. \A e \in Deletes : Named(dcopy'[e])
    BY <1>0, <2>1 DEF AllNamed, RecordingTypeOK
  <2> QED
    BY <2>1, <2>2, <2>3 DEF AllNamed, Named
<1>3. CASE Resync
  <2>1. Named(item') /\ UNCHANGED <<jcopy, dcopy>>
    BY <1>0, <1>3 DEF Resync, jobVars, delVars, RecordingTypeOK
  <2> QED
    BY <2>1 DEF AllNamed, Named
<1>4. CASE Restart
  <2>1. Named(item')
    BY <1>0, <1>4 DEF Restart, AllNamed
  <2>2. /\ \A j \in Jobs : Named(jcopy'[j])
        /\ \A d \in Deletes : Named(dcopy'[d])
    BY <1>0, <1>4 DEF Restart
  <2> QED
    BY <2>1, <2>2 DEF AllNamed, Named
<1>5. CASE UNCHANGED recordingVars
  BY <1>5 DEF recordingVars, jobVars, delVars, AllNamed, Named
<1> QED
  BY <1>1, <1>2, <1>3, <1>4, <1>5 DEF RecordingNext

(***************************************************************************)
(* What a step of a transcoding does to the video and to what the item     *)
(* says of it.                                                             *)
(***************************************************************************)
VideoStep(j) ==
  \/ /\ UNCHANGED <<item, video>>                     \* before it is marked, or after
     /\ jpc'[j] \notin Marked
  \/ /\ UNCHANGED <<item, video>>                     \* a read while it is marked
     /\ jpc[j] \in Marked /\ jpc'[j] \in Marked
     /\ jpc'[j] \notin {"encoding", "encoded"}
     /\ jpc'[j] \in {"completed", "complete"} => jpc[j] \in {"encoded", "completed"}
  \/ /\ UNCHANGED video /\ item'.status # "completed" \* it is marked, or has failed
     /\ jpc[j] \in Running
     /\ jpc'[j] \notin {"encoding", "encoded", "completed", "complete"}
  \/ /\ UNCHANGED video /\ jpc[j] = "complete"        \* it has completed
     /\ jpc'[j] \notin Marked
  \/ /\ UNCHANGED item /\ jpc[j] \in Marked           \* the video is replaced
     /\ \/ jpc'[j] = "encoding" /\ video' = "partial"
        \/ jpc[j] = "encoding" /\ jpc'[j] = "encoded"
             /\ (video = "partial" => video' = "whole")
        \/ jpc'[j] = "failed"

LEMMA JobVideoStep ==
  ASSUME RecordingTypeOK, NEW j \in Jobs, TranscodeFind(j) \/ JobStep(j)
  PROVE  VideoStep(j)
<1> USE DEF RecordingTypeOK, JobGo, Running, Marked, fileVars
<1>1. CASE TranscodeFind(j) \/ TranscodeStart(j) \/ TranscodeLog(j) \/ TranscodeFinish(j)
  BY <1>1 DEF TranscodeFind, TranscodeStart, TranscodeLog, TranscodeFinish, VideoStep
<1>2. CASE TranscodeRun(j) \/ TranscodeEnd(j) \/ TranscodeLook(j)
  BY <1>2 DEF TranscodeRun, TranscodeEnd, TranscodeLook, VideoStep
<1>3. ASSUME NEW at, NEW to, NEW request \in BOOLEAN, UpdateRead(j, at, to, request)
      PROVE  /\ jpc[j] = at /\ UNCHANGED <<item, video>>
             /\ jpc'[j] \in {to, "refused", "over"}
  BY <1>3 DEF UpdateRead, UpdateFails
<1>4. ASSUME NEW at, NEW to, NEW request \in BOOLEAN, NEW saved \in Statuses,
             UpdateSave(j, at, to, saved, request)
      PROVE  /\ jpc[j] = at /\ UNCHANGED video
             /\ \/ jpc'[j] = to /\ item'.status = saved
                \/ jpc'[j] \in {"refused", "over"} /\ UNCHANGED item
  <2>1. jcopy[j] \in Items
    OBVIOUS
  <2>2. CASE UpdateFails(j, request)
    BY <1>4, <2>2 DEF UpdateSave, UpdateFails
  <2>3. CASE /\ item' = [jcopy[j] EXCEPT !.status = saved, !.video = @ \/ saved = "completed"]
             /\ JobGo(j, to)
    <3>1. item'.status = saved
      BY <2>1, <2>3 DEF Items
    <3> QED
      BY <1>4, <2>3, <3>1 DEF UpdateSave
  <2> QED
    BY <1>4, <2>2, <2>3 DEF UpdateSave
<1>5. CASE TranscodeQueue(j)
  <2>1. CASE UpdateRead(j, "queue", "queueing", TRUE)
    <3>1. /\ jpc[j] = "queue" /\ UNCHANGED <<item, video>>
          /\ jpc'[j] \in {"queueing", "refused", "over"}
      BY <1>3, <2>1
    <3> QED
      BY <3>1 DEF VideoStep
  <2>2. CASE UpdateSave(j, "queueing", "queued", "queued", TRUE)
    <3>1. "queued" \in Statuses
      BY DEF Statuses
    <3>2. /\ jpc[j] = "queueing" /\ UNCHANGED video
          /\ \/ jpc'[j] = "queued" /\ item'.status = "queued"
             \/ jpc'[j] \in {"refused", "over"} /\ UNCHANGED item
      BY <1>4, <2>2, <3>1
    <3> QED
      BY <3>2 DEF VideoStep
  <2> QED
    BY <1>5, <2>1, <2>2 DEF TranscodeQueue
<1>6. CASE TranscodeBegin(j)
  <2>1. CASE UpdateRead(j, "queued", "start", FALSE)
    <3>1. /\ jpc[j] = "queued" /\ UNCHANGED <<item, video>>
          /\ jpc'[j] \in {"start", "refused", "over"}
      BY <1>3, <2>1
    <3> QED
      BY <3>1 DEF VideoStep
  <2>2. CASE UpdateSave(j, "start", "processing", "processing", FALSE)
    <3>1. "processing" \in Statuses
      BY DEF Statuses
    <3>2. /\ jpc[j] = "start" /\ UNCHANGED video
          /\ \/ jpc'[j] = "processing" /\ item'.status = "processing"
             \/ jpc'[j] \in {"refused", "over"} /\ UNCHANGED item
      BY <1>4, <2>2, <3>1
    <3> QED
      BY <3>2 DEF VideoStep
  <2> QED
    BY <1>6, <2>1, <2>2 DEF TranscodeBegin
<1>7. CASE TranscodeFail(j)
  <2>1. CASE UpdateRead(j, "failed", "fail", FALSE)
    <3>1. /\ jpc[j] = "failed" /\ UNCHANGED <<item, video>>
          /\ jpc'[j] \in {"fail", "refused", "over"}
      BY <1>3, <2>1
    <3> QED
      BY <3>1 DEF VideoStep
  <2>2. CASE UpdateSave(j, "fail", "over", "failed", FALSE)
    <3>1. "failed" \in Statuses
      BY DEF Statuses
    <3>2. /\ jpc[j] = "fail" /\ UNCHANGED video
          /\ \/ jpc'[j] = "over" /\ item'.status = "failed"
             \/ jpc'[j] \in {"refused", "over"} /\ UNCHANGED item
      BY <1>4, <2>2, <3>1
    <3> QED
      BY <3>2 DEF VideoStep
  <2> QED
    BY <1>7, <2>1, <2>2 DEF TranscodeFail
<1>8. CASE TranscodeComplete(j)
  <2>1. CASE UpdateRead(j, "completed", "complete", FALSE)
    <3>1. /\ jpc[j] = "completed" /\ UNCHANGED <<item, video>>
          /\ jpc'[j] \in {"complete", "refused", "over"}
      BY <1>3, <2>1
    <3> QED
      BY <3>1 DEF VideoStep
  <2>2. CASE UpdateSave(j, "complete", "over", "completed", FALSE)
    <3>1. "completed" \in Statuses
      BY DEF Statuses
    <3>2. /\ jpc[j] = "complete" /\ UNCHANGED video
          /\ \/ jpc'[j] = "over" /\ item'.status = "completed"
             \/ jpc'[j] \in {"refused", "over"} /\ UNCHANGED item
      BY <1>4, <2>2, <3>1
    <3> QED
      BY <3>2 DEF VideoStep
  <2> QED
    BY <1>8, <2>1, <2>2 DEF TranscodeComplete
<1> QED
  BY <1>1, <1>2, <1>5, <1>6, <1>7, <1>8 DEF JobStep

LEMMA JobKeepsVideo ==
  ASSUME RecordingTypeOK, OneTranscode, DeleteInv, Whole, NEW j \in Jobs,
         TranscodeFind(j) \/ JobStep(j)
  PROVE  Whole'
<1> SUFFICES ASSUME ~raced' PROVE Whole'
  BY DEF Whole
<1>1. ~raced /\ RegistryStep(j) /\ VideoStep(j) /\ UNCHANGED <<dpc, dcopy>>
  BY JobRaces, JobRegistryStep, JobVideoStep, JobLeavesDeletes DEF delVars
<1>2. Marked \subseteq Running /\ HoldsItem \subseteq Deleting
  BY DEF Marked, Running, HoldsItem, Deleting
<1>3. \A i \in Jobs \ {j} : /\ jpc'[i] = jpc[i]
                            /\ jpc[j] \in Running => jpc[i] \notin Marked
  BY <1>1, <1>2 DEF RegistryStep, OneTranscode
<1>4. jpc[j] \in Running => \A d \in Deletes : dpc[d] \notin HoldsItem
  BY <1>1, <1>2 DEF OneTranscode, DeleteInv, Alone
<1>5. {"encoding", "encoded", "completed", "complete", "failed"} \subseteq Marked
  BY DEF Marked
<1>6. CASE UNCHANGED <<item, video>> /\ jpc'[j] \notin Marked
  BY <1>1, <1>3, <1>5, <1>6 DEF Whole
<1>7. CASE /\ UNCHANGED <<item, video>> /\ jpc[j] \in Marked /\ jpc'[j] \in Marked
           /\ jpc'[j] \notin {"encoding", "encoded"}
           /\ jpc'[j] \in {"completed", "complete"} => jpc[j] \in {"encoded", "completed"}
  BY <1>1, <1>3, <1>5, <1>7 DEF Whole
<1>8. CASE /\ UNCHANGED video /\ item'.status # "completed" /\ jpc[j] \in Running
           /\ jpc'[j] \notin {"encoding", "encoded", "completed", "complete"}
  BY <1>1, <1>3, <1>4, <1>5, <1>8 DEF Whole
<1>9. CASE UNCHANGED video /\ jpc[j] = "complete" /\ jpc'[j] \notin Marked
  BY <1>1, <1>2, <1>3, <1>4, <1>5, <1>9 DEF Whole
<1>10. CASE /\ UNCHANGED item /\ jpc[j] \in Marked
            /\ \/ jpc'[j] = "encoding" /\ video' = "partial"
               \/ jpc[j] = "encoding" /\ jpc'[j] = "encoded"
                    /\ (video = "partial" => video' = "whole")
               \/ jpc'[j] = "failed"
  BY <1>1, <1>2, <1>3, <1>4, <1>5, <1>10 DEF Whole
<1> QED
  BY <1>1, <1>6, <1>7, <1>8, <1>9, <1>10 DEF VideoStep

(* A deletion saves no item that tells of another video than there is.     *)
LEMMA DeleteKeepsVideo ==
  ASSUME RecordingTypeOK, OneTranscode, DeleteInv, Whole, NEW d \in Deletes,
         DeleteCheck(d) \/ DeleteStep(d)
  PROVE  Whole'
<1>0. Synced(FALSE).status # "completed"
  BY DEF Synced
<1>1. UNCHANGED jpc
  BY DeleteLeavesJobs
<1>2. CASE DeleteCheck(d)
  <2>1. /\ UNCHANGED <<item, video, dcopy>> /\ (~raced' => ~raced)
        /\ \A e \in Deletes : dpc'[e] \in HoldsItem => dpc[e] \in HoldsItem
    BY <1>2 DEF DeleteCheck, DelGo, fileVars, RecordingTypeOK, HoldsItem
  <2> QED
    BY <1>1, <2>1 DEF Whole
<1>3. CASE DeleteStep(d)
  <2>1. UNCHANGED raced /\ dpc[d] \in Deleting
    BY <1>3 DEF DeleteStep, DeleteLog, DeleteMove, DeleteRead, DeleteClear, DeleteSession,
                DeleteUnclear, DeleteRestore, DeleteCleanup, Deleting
  <2> SUFFICES ASSUME ~raced PROVE Whole'
    BY <2>1 DEF Whole
  <2>2. \A j \in Jobs : jpc[j] \notin Marked
    BY <2>1, DeleteAlone DEF OneTranscode, Marked, Running
  <2>3. {"encoding", "encoded", "completed", "complete"} \subseteq Marked
    BY DEF Marked
  <2>4. /\ item.status = "completed" => video = "whole"
        /\ \A e \in Deletes : dpc[e] \in HoldsItem /\ dcopy[e].status = "completed"
                                => video = "whole"
    BY DEF Whole
  <2>5. \A e \in Deletes : e # d => dpc[e] \notin HoldsItem
    BY <2>1, DeleteAlone DEF HoldsItem, Deleting
  <2>6. \A e \in Deletes : e # d => dpc'[e] = dpc[e]
    BY <1>3 DEF DeleteStep, DeleteLog, DeleteMove, DeleteRead, DeleteClear, DeleteSession,
                DeleteUnclear, DeleteRestore, DeleteCleanup, DelGo, RecordingTypeOK
  <2> SUFFICES /\ item'.status = "completed" => video' = "whole"
               /\ dpc'[d] \in HoldsItem /\ dcopy'[d].status = "completed" => video' = "whole"
    BY <1>1, <2>2, <2>3, <2>5, <2>6 DEF Whole
  <2>7. CASE DeleteLog(d) \/ DeleteMove(d) \/ DeleteRead(d)
    BY <2>4, <2>7 DEF DeleteLog, DeleteMove, DeleteRead, DelGo, fileVars, HoldsItem, RecordingTypeOK
  <2>8. CASE DeleteClear(d)
    BY <1>0, <2>4, <2>8 DEF DeleteClear, DelGo, fileVars, HoldsItem, RecordingTypeOK
  <2>9. CASE DeleteSession(d)
    BY <1>0, <2>4, <2>9 DEF DeleteSession, DelGo, fileVars, HoldsItem, RecordingTypeOK
  <2>10. CASE DeleteUnclear(d)
    BY <2>4, <2>10 DEF DeleteUnclear, DelGo, fileVars, HoldsItem, RecordingTypeOK
  <2>11. CASE DeleteRestore(d)
    <3>1. moved[d]
      BY <2>11 DEF DeleteRestore, DeleteInv, Moves, Away
    <3> QED
      BY <2>4, <2>11, <3>1 DEF DeleteRestore, DelGo, fileVars, HoldsItem, RecordingTypeOK
  <2>12. CASE DeleteCleanup(d)
    <3>1. item = Synced(FALSE)
      BY <2>12 DEF DeleteCleanup, DeleteInv, Cleared
    <3> QED
      BY <1>0, <2>12, <3>1 DEF DeleteCleanup, DelGo, HoldsItem, RecordingTypeOK
  <2> QED
    BY <1>3, <2>7, <2>8, <2>9, <2>10, <2>11, <2>12 DEF DeleteStep
<1> QED
  BY <1>2, <1>3

(* Every step keeps the invariant of the video.                            *)
LEMMA VideoInvStep ==
  ASSUME RecordingTypeOK, OneTranscode, DeleteInv, VideoInv, [RecordingNext]_recordingVars
  PROVE  VideoInv'
<1>1. AllNamed'
  BY NamedStep DEF VideoInv
<1>2. ASSUME NEW j \in Jobs, TranscodeFind(j) \/ JobStep(j) PROVE Whole'
  BY <1>2, JobKeepsVideo DEF VideoInv
<1>3. ASSUME NEW d \in Deletes, DeleteCheck(d) \/ DeleteStep(d) PROVE Whole'
  BY <1>3, DeleteKeepsVideo DEF VideoInv
<1>4. CASE Resync
  <2>1. item'.status # "completed" /\ UNCHANGED <<video, jpc, dpc, dcopy, raced>>
    BY <1>4 DEF Resync, Synced, fileVars, jobVars, delVars
  <2> QED
    BY <1>1, <2>1 DEF VideoInv, Whole
<1>5. CASE Restart
  <2>1. /\ UNCHANGED <<video, raced>>
        /\ \A j \in Jobs : jpc'[j] \notin Marked
        /\ \A d \in Deletes : dpc'[d] \notin HoldsItem
    BY <1>5 DEF Restart, fileVars, Marked, Running, HoldsItem, Deleting
  <2>2. item'.status = "completed" => item.status = "completed"
    BY <1>5 DEF Restart, RecordingTypeOK, Items
  <2>3. {"encoding", "encoded", "completed", "complete"} \subseteq Marked
    BY DEF Marked
  <2> QED
    BY <1>1, <2>1, <2>2, <2>3 DEF VideoInv, Whole
<1>6. CASE UNCHANGED recordingVars
  BY <1>1, <1>6 DEF recordingVars, fileVars, jobVars, delVars, VideoInv, Whole
<1> QED
  BY <1>1, <1>2, <1>3, <1>4, <1>5, <1>6 DEF RecordingNext, VideoInv

(***************************************************************************)
(* A deletion that was answered stays: DeleteIsFinal, whatever the session *)
(* and the transcodings that had found the recording write afterwards.     *)
(***************************************************************************)
THEOREM DeletesAreFinal == RecordingSpec => []DeleteIsFinal
<1>1. DeleteInv => DeleteIsFinal
  BY DEF DeleteInv, Deleted, DeleteIsFinal
<1> QED
  BY <1>1, DeleteInvariant, PTL

(***************************************************************************)
(* A deletion that was refused, at whatever step, has put everything back: *)
(* RefusedDeleteKeeps.                                                     *)
(***************************************************************************)
THEOREM RefusedDeletesKeep == RecordingSpec => []RefusedDeleteKeeps
<1>1. DeleteInv => RefusedDeleteKeeps
  BY DEF DeleteInv, Kept, RefusedDeleteKeeps, Away
<1> QED
  BY <1>1, DeleteInvariant, PTL

(***************************************************************************)
(* What is offered as a completed video is one that ffmpeg has finished:   *)
(* VideoIsWhole, wherever a transcoding fails or dies and whatever item a  *)
(* refused deletion puts back.                                             *)
(***************************************************************************)
THEOREM OfferedVideosAreWhole == RecordingSpec => []VideoIsWhole
<1>1. RecordingInit => VideoInv
  BY DEF RecordingInit, VideoInv, AllNamed, Named, Whole, NoCopy, Synced, HoldsItem, Marked
<1>2. RecordingTypeOK /\ OneTranscode /\ DeleteInv /\ VideoInv /\ [RecordingNext]_recordingVars => VideoInv'
  BY VideoInvStep
<1>3. VideoInv => VideoIsWhole
  BY DEF VideoInv, AllNamed, Named, Whole, VideoIsWhole
<1> QED
  BY <1>1, <1>2, <1>3, RecordingTypes, TranscodingsExclude, DeleteInvariant, PTL DEF RecordingSpec

-----------------------------------------------------------------------------
(***************************************************************************)
(* The workspace implements LiveView for every number of sessions and of   *)
(* requests: whatever answers arrive late, the browser has one connection  *)
(* attached at most, and it is that of the session on the screen.          *)
(* From this follows what the view says of its session and its requests.   *)
(***************************************************************************)

(* The inductive invariant: sessions are made in order and have had no     *)
(* connection before, and only the session on the screen has a live one.   *)
LinkInv ==
  /\ created \in 0 .. MaxSessions /\ ws \in 0 .. created
  /\ conn \in [Sessions -> {"none", "closed"} \cup Live]
  /\ \A s \in Sessions : s > created => conn[s] = "none"
  /\ \A s \in Sessions : conn[s] \in Live => s = ws

(* The cleanup of the effect of the session on the screen leaves no live   *)
(* connection and changes no other one.                                    *)
LEMMA TornIsDetached ==
  ASSUME LinkInv
  PROVE  /\ Torn \in [Sessions -> {"none", "closed"}]
         /\ \A s \in Sessions : Torn[s] = IF conn[s] \in Live THEN "closed" ELSE conn[s]
  BY BoundsAssumption DEF LinkInv, Torn, Cleanup, Sessions, Live

(* setWorkspace with a new session attaches it and lets the last one go.   *)
LEMMA ShowAttaches ==
  ASSUME LinkInv, NEW STATE k, NEW STATE st, NEW STATE rs, Show(k, st, rs)
  PROVE  LinkInv' /\ \E s \in Sessions : Abstract!Attach(s)
<1>0. PICK s \in Sessions : s = created + 1
  BY BoundsAssumption DEF LinkInv, Show, Sessions
<1>1. /\ created' = s /\ ws' = s /\ conn[s] = "none"
      /\ conn' = [Torn EXCEPT ![s] = "opening"]
  BY <1>0, BoundsAssumption DEF LinkInv, Show, Sessions
<1>2. LinkInv'
  BY <1>0, <1>1, TornIsDetached, BoundsAssumption DEF LinkInv, Sessions, Live
<1>3. Abstract!Attach(s)
  BY <1>1, TornIsDetached DEF LinkInv, Abstract!Attach, Abstract!Detached, Live
<1> QED
  BY <1>1, <1>2, <1>3

(* setWorkspace(null) lets the session on the screen go, if there is one.  *)
LEMMA HideDismisses ==
  ASSUME LinkInv, NEW STATE rs, Hide(rs)
  PROVE  LinkInv' /\ (Abstract!Dismiss \/ UNCHANGED <<ws, conn>>)
<1>1. ws' = 0 /\ created' = created /\ conn' = Torn
  BY DEF Hide
<1>2. LinkInv'
  BY <1>1, TornIsDetached, BoundsAssumption DEF LinkInv, Live
<1>3. CASE ws = 0
  BY <1>1, <1>2, <1>3 DEF Torn
<1>4. CASE ws # 0
  <2>1. Abstract!Dismiss
    BY <1>1, <1>4, TornIsDetached DEF LinkInv, Abstract!Dismiss, Abstract!Detached, Live
  <2> QED
    BY <1>2, <2>1
<1> QED
  BY <1>3, <1>4

(* A connection that ends without the view being left is dropped.          *)
LEMMA EndDrops ==
  ASSUME LinkInv, NEW s \in Sessions, conn[s] \in Live,
         conn' = [conn EXCEPT ![s] = "closed"], UNCHANGED <<ws, created>>
  PROVE  LinkInv' /\ Abstract!Drop(s)
<1>1. LinkInv'
  BY BoundsAssumption DEF LinkInv, Sessions, Live
<1>2. Abstract!Drop(s)
  BY DEF LinkInv, Abstract!Drop, Live
<1> QED
  BY <1>1, <1>2

(* A connection that stays live, in whichever state, is the same link.     *)
LEMMA LiveStays ==
  ASSUME LinkInv, NEW s \in Sessions, conn[s] \in Live, NEW c \in Live,
         conn' = [conn EXCEPT ![s] = c], UNCHANGED <<ws, created>>
  PROVE  LinkInv' /\ UNCHANGED Abstract!viewVars
<1>1. LinkInv'
  BY BoundsAssumption DEF LinkInv, Sessions, Live
<1>2. UNCHANGED Abstract!viewVars
  BY DEF LinkInv, Abstract!viewVars, Live
<1> QED
  BY <1>1, <1>2

(* Every step of the workspace is one of LiveView or leaves it unchanged.  *)
LEMMA StepIsAbstract ==
  ASSUME LinkInv, [Next]_vars
  PROVE  LinkInv' /\ [Abstract!ViewNext]_(Abstract!viewVars)
<1> USE DEF Abstract!ViewNext
<1>1. ASSUME UNCHANGED <<ws, created, conn>>
      PROVE  LinkInv' /\ UNCHANGED Abstract!viewVars
  BY <1>1 DEF LinkInv, Abstract!viewVars
<1>2. ASSUME UNCHANGED <<ws, conn>> PROVE UNCHANGED Abstract!viewVars
  BY <1>2 DEF Abstract!viewVars
<1>3. CASE User
  <2>1. CASE Leave
    BY <2>1, <1>2, HideDismisses DEF Leave
  <2>2. CASE Reconnect \/ Close \/ \E k \in Kinds : Connect(k) \/ Dial(k)
    BY <2>2, <1>1 DEF Reconnect, Close, Connect, Dial, netVars
  <2> QED
    BY <1>3, <2>1, <2>2 DEF User
<1>4. ASSUME NEW r \in reqs, Answer(r) \/ EnterCode(r) \/ CancelCode(r)
      PROVE  LinkInv' /\ [Abstract!ViewNext]_(Abstract!viewVars)
  <2>1. CASE Connected(r)
    BY <2>1, ShowAttaches DEF Connected
  <2>2. CASE Reconnected(r)
    BY <2>2, ShowAttaches DEF Reconnected
  <2>3. CASE Closed(r) \/ SetupRequired(r)
    BY <2>3, <1>2, HideDismisses DEF Closed, SetupRequired
  <2>4. CASE Fail(r) \/ NeedCode(r) \/ EnterCode(r) \/ CancelCode(r)
    BY <2>4, <1>1 DEF Fail, NeedCode, EnterCode, CancelCode, GiveUp, netVars
  <2> QED
    BY <1>4, <2>1, <2>2, <2>3, <2>4 DEF Answer
<1>5. ASSUME NEW s \in Sessions,
             Ready(s) \/ SocketEnds(s) \/ OnClose(s) \/ ClientEnds(s) \/ TunnelDrops(s)
      PROVE  LinkInv' /\ [Abstract!ViewNext]_(Abstract!viewVars)
  <2>1. CASE SocketEnds(s) \/ ClientEnds(s)
    BY <2>1, EndDrops DEF SocketEnds, ClientEnds, Live
  <2>2. CASE Ready(s) \/ TunnelDrops(s)
    BY <2>2, LiveStays DEF Ready, TunnelDrops, Live
  <2>3. CASE OnClose(s)
    BY <2>3, <1>1 DEF OnClose
  <2> QED
    BY <1>5, <2>1, <2>2, <2>3
<1>6. CASE UNCHANGED vars
  BY <1>6, <1>1 DEF vars, netVars
<1> QED
  BY <1>3, <1>4, <1>5, <1>6 DEF Next

(* The workspace implements LiveView, for any bounds: OneLiveSession.      *)
THEOREM WorkspaceIsLiveView == Spec => OneLiveSession
<1>1. Init => LinkInv /\ Abstract!ViewInit
  BY BoundsAssumption DEF Init, LinkInv, Abstract!ViewInit, Sessions, Live
<1>2. LinkInv /\ [Next]_vars => LinkInv' /\ [Abstract!ViewNext]_(Abstract!viewVars)
  BY StepIsAbstract
<1> QED
  BY <1>1, <1>2, PTL DEF Spec, OneLiveSession, Abstract!ViewSpec

(***************************************************************************)
(* What the view says.  StatusIsTrue and BusyIsTrue rest on the order in   *)
(* which views are mounted: an answer or an onclose is of this view or of  *)
(* an earlier one, never of a later one.                                   *)
(***************************************************************************)
ViewOrder ==
  /\ view \in 0 .. created
  /\ ws # 0 => view # 0 /\ owner[ws] = view
  /\ \A s \in Sessions : owner[s] <= view
  /\ \A r \in reqs : r.in <= view /\ (r.op \in {"connect", "dial"} => r.in = 0)

(* An onclose that is due is of a socket that is closed.                   *)
EventsAreLate == \A s \in events : conn[s] = "closed"

(* StatusIsTrue; no onclose is due of an earlier session of the view, nor  *)
(* of the one on the screen once it is shown as disconnected or is being   *)
(* reconnected: none can spoil the status of the session that comes next.  *)
StatusFollows ==
  ws # 0 /\ ~replaced =>
    /\ \A s \in events : owner[s] = view => s = ws
    /\ status = "disconnected" \/ (\E r \in reqs : r.op = "reconnect" /\ InView(r))
         => conn[ws] = "closed" /\ ws \notin events
    /\ status = "connected" => conn[ws] \in {"open", "dropped"} \/ ws \in events

(* TypeOK, and each flag by itself. *)
Types == TypeOK /\ closing \in BOOLEAN /\ reconnecting \in BOOLEAN /\ replaced \in BOOLEAN

(* The inductive invariant. *)
ViewInv == Types /\ LinkInv /\ ViewOrder /\ EventsAreLate /\ StatusFollows /\ BusyIsTrue

(* The request that a click sends. *)
LEMMA SendAdds ==
  ASSUME Types, ViewOrder, NEW op \in {"connect", "dial", "reconnect", "close"}, NEW k \in Kinds,
         Send(op, k), op \in {"reconnect", "close"} => ws # 0
  PROVE  \E q \in Requests : /\ reqs' = reqs \cup {q} /\ q.op = op
                             /\ q.in = IF op \in {"connect", "dial"} THEN 0 ELSE view
                             /\ issued' \in 0 .. MaxRequests
<1> DEFINE q == [id |-> issued + 1, op |-> op, kind |-> k, of |-> ws,
                 in |-> IF op \in {"connect", "dial"} THEN 0 ELSE view, phase |-> "sent"]
<1>1. issued + 1 \in 1 .. MaxRequests /\ issued' = issued + 1
  BY BoundsAssumption DEF Types, TypeOK, Send
<1>2. q \in Requests
  <2>1. ws \in 0 .. MaxSessions /\ view \in 0 .. MaxSessions /\ 0 \in 0 .. MaxSessions
    BY BoundsAssumption DEF Types, TypeOK
  <2> QED
    BY <1>1, <2>1 DEF Requests
<1>3. reqs' = reqs \cup {q}
  BY DEF Send
<1> QED
  BY <1>1, <1>2, <1>3, BoundsAssumption

(* Connect, ConnectDialog: the view hears nothing of it.                   *)
LEMMA AsksKeep ==
  ASSUME ViewInv, LinkInv', NEW k \in Kinds, Connect(k) \/ Dial(k)
  PROVE  ViewInv'
<1>1. PICK q \in Requests : /\ reqs' = reqs \cup {q} /\ q.op \in {"connect", "dial"}
                            /\ q.in = 0 /\ issued' \in 0 .. MaxRequests
  <2>1. CASE Connect(k)
    BY <2>1, SendAdds DEF Connect, ViewInv
  <2>2. CASE Dial(k)
    BY <2>2, SendAdds DEF Dial, ViewInv
  <2> QED
    BY <2>1, <2>2
<1>2. ws = 0 /\ UNCHANGED <<ws, view, viewState, netVars, replaced>>
  BY DEF Connect, Dial
<1> USE <1>1, <1>2 DEF viewState, netVars
<1>3. Types'
  BY DEF ViewInv, Types, TypeOK
<1>4. ViewOrder'
  BY DEF ViewInv, ViewOrder, LinkInv
<1>5. EventsAreLate' /\ StatusFollows' /\ BusyIsTrue'
  BY DEF ViewInv, EventsAreLate, StatusFollows, BusyIsTrue
<1> QED
  BY <1>3, <1>4, <1>5 DEF ViewInv

(* Reconnect and close are sent once: the flag was down, so no request of  *)
(* this view and kind was under way.                                       *)
LEMMA ButtonsKeep ==
  ASSUME ViewInv, LinkInv', Reconnect \/ Close
  PROVE  ViewInv'
<1>0. ws \in Sessions /\ ws # 0 /\ kind[ws] \in Kinds
  BY BoundsAssumption DEF ViewInv, LinkInv, Types, TypeOK, Reconnect, Close, CanReconnect, CanClose, Sessions
<1>1. PICK q \in Requests : /\ reqs' = reqs \cup {q} /\ q.op = (IF Reconnect THEN "reconnect" ELSE "close")
                            /\ q.in = view /\ issued' \in 0 .. MaxRequests
  <2>1. CASE Reconnect
    BY <2>1, <1>0, SendAdds DEF Reconnect, ViewInv
  <2>2. CASE ~Reconnect
    BY <2>2, <1>0, SendAdds DEF Close, ViewInv
  <2> QED
    BY <2>1, <2>2
<1>2. /\ UNCHANGED <<ws, view, status, netVars, replaced>>
      /\ \/ /\ q.op = "reconnect" /\ status = "disconnected" /\ ~reconnecting
            /\ reconnecting' = TRUE /\ closing' = closing
         \/ q.op = "close" /\ ~closing /\ closing' = TRUE /\ reconnecting' = reconnecting
  BY <1>1 DEF Reconnect, Close, CanReconnect, CanClose
<1> USE <1>0, <1>1, <1>2 DEF netVars
<1>3. Types'
  BY DEF ViewInv, Types, TypeOK
<1>4. ViewOrder'
  BY DEF ViewInv, ViewOrder, LinkInv
<1>5. EventsAreLate'
  BY DEF ViewInv, EventsAreLate
<1>6. StatusFollows'
  BY DEF ViewInv, StatusFollows, InView
<1>7. BusyIsTrue'
  BY DEF ViewInv, BusyIsTrue, InView, Types
<1> QED
  BY <1>3, <1>4, <1>5, <1>6, <1>7 DEF ViewInv

(* A view that is gone says nothing. *)
LEMMA HideKeeps ==
  ASSUME ViewInv, LinkInv', NEW STATE rs, rs \subseteq reqs, Hide(rs), UNCHANGED issued
  PROVE  ViewInv'
<1>0. /\ ws' = 0 /\ conn' = Torn /\ UNCHANGED <<view, created, kind, owner, issued>>
      /\ reqs' \subseteq reqs
      /\ status' = "connecting" /\ closing' = FALSE /\ reconnecting' = FALSE /\ replaced' = FALSE
  BY DEF Hide, WithoutPrompts
<1>1. events' \subseteq events \cup {s \in Sessions : s = ws /\ conn[s] \in Live}
  <2>1. ws # 0 => ws \in Sessions
    BY BoundsAssumption DEF ViewInv, LinkInv, Sessions
  <2> QED
    BY <2>1 DEF Hide, CleanupEvents
<1>2. Types'
  <2>1. closing' \in BOOLEAN /\ reconnecting' \in BOOLEAN /\ replaced' \in BOOLEAN
    BY <1>0
  <2>2. ws' \in 0 .. MaxSessions /\ conn' \in [Sessions -> {"none", "closed"} \cup Live]
    BY <1>0, BoundsAssumption DEF LinkInv
  <2>3. events' \subseteq Sessions /\ reqs' \subseteq Requests
    BY <1>0, <1>1 DEF ViewInv, Types, TypeOK
  <2>4. {closing', reconnecting', replaced'} \subseteq BOOLEAN
    BY <2>1
  <2> QED
    BY <1>0, <2>1, <2>2, <2>3, <2>4 DEF ViewInv, Types, TypeOK
<1>3. ViewOrder'
  BY <1>0 DEF ViewInv, ViewOrder
<1>4. EventsAreLate'
  BY <1>0, <1>1, TornIsDetached DEF ViewInv, EventsAreLate, Types, TypeOK, Live
<1> QED
  BY <1>0, <1>2, <1>3, <1>4 DEF ViewInv, StatusFollows, BusyIsTrue

(* A new session: of a new view, or given to the one that is mounted.      *)
LEMMA ShowKeeps ==
  ASSUME ViewInv, LinkInv', NEW r \in reqs, Connected(r) \/ Reconnected(r)
  PROVE  ViewInv'
<1> DEFINE n == created + 1
<1>0. r \in Requests /\ n \in Sessions /\ n = created + 1 /\ (ws # 0 => ws \in Sessions /\ ws # n)
  BY BoundsAssumption DEF ViewInv, Types, TypeOK, LinkInv, Connected, Reconnected, Show, Sessions
<1>1. PICK st \in {"connecting", "connected", "disconnected"} :
        /\ Show(r.kind, st, reqs \ {r})
        /\ r.op = "reconnect" /\ InView(r) => st = "connecting"
  BY DEF Connected, Reconnected, ViewInv, Types, TypeOK, InView
<1>2. /\ created' = n /\ ws' = n /\ n # 0 /\ issued' = issued
      /\ kind' = [kind EXCEPT ![n] = r.kind]
      /\ conn' = [Torn EXCEPT ![n] = "opening"]
      /\ reqs' = {q \in reqs \ {r} : ~(q.phase = "code" /\ q.op = "connect")}
      /\ owner' = [owner EXCEPT ![n] = view']
  BY <1>0, <1>1 DEF Show, WithoutPrompts, Sessions, Connected, Reconnected
<1>3. conn[n] = "none" /\ n \notin events
  BY <1>0 DEF ViewInv, LinkInv, EventsAreLate
<1>4. r.kind \in Kinds
  BY <1>0 DEF Requests
<1>5. CASE ws = 0
  <2>1. /\ view' = n /\ status' = "connecting" /\ closing' = FALSE /\ replaced' = FALSE
        /\ events' = events /\ reconnecting' = FALSE
    BY <1>5, <1>1 DEF Show, Connected, Reconnected
  <2>2. Types'
    BY <1>0, <1>2, <1>4, <2>1, BoundsAssumption DEF ViewInv, Types, TypeOK, LinkInv, Sessions
  <2>3. ViewOrder'
    BY <1>0, <1>2, <2>1, BoundsAssumption DEF ViewInv, ViewOrder, Types, TypeOK, Requests, Sessions
  <2>4. EventsAreLate'
    BY <1>0, <1>2, <1>3, <2>1, TornIsDetached DEF ViewInv, EventsAreLate, Types, TypeOK, Live
  <2>5. \A q \in reqs' : q.in < view'
    BY <1>0, <1>2, <2>1, BoundsAssumption DEF ViewInv, ViewOrder, Types, TypeOK, Requests
  <2>6. \A q \in reqs' : q.in # view'
    BY <2>5, <1>2, <2>1, BoundsAssumption DEF ViewInv, Types, TypeOK, Requests, Sessions
  <2>7. \A e \in events' : owner'[e] # view'
    BY <1>0, <1>2, <1>3, <2>1, BoundsAssumption DEF ViewInv, ViewOrder, Types, TypeOK, Sessions
  <2>8. StatusFollows' /\ BusyIsTrue'
    BY <2>1, <2>6, <2>7 DEF StatusFollows, BusyIsTrue, InView
  <2> QED
    BY <2>2, <2>3, <2>4, <2>8 DEF ViewInv
<1>6. CASE ws # 0
  <2>1. /\ view' = view /\ closing' = closing
        /\ status' = CleanupStatus(ws, st) /\ events' = CleanupEvents(ws)
    BY <1>6, <1>1 DEF Show
  <2>2. /\ replaced' = (replaced \/ ~(r.op = "reconnect" /\ InView(r)))
        /\ reconnecting' = (reconnecting /\ ~(r.op = "reconnect" /\ InView(r)))
    BY <1>6, <1>0 DEF Connected, Reconnected, ViewInv, Types, InView
  <2>3. /\ status' \in {"connecting", "connected", "disconnected"}
        /\ events' \subseteq events \cup {s \in Sessions : s = ws /\ conn[s] \in Live}
    BY <1>0, <1>6, <2>1 DEF CleanupStatus, CleanupEvents
  <2>4. Types'
    <3>1. replaced' \in BOOLEAN /\ reconnecting' \in BOOLEAN
      BY <2>2
    <3>2. closing' \in BOOLEAN
      BY <2>1 DEF ViewInv, Types
    <3> QED
      BY <1>0, <1>2, <1>4, <2>1, <2>3, <3>1, <3>2, BoundsAssumption
      DEF ViewInv, Types, TypeOK, LinkInv, Sessions
  <2>5. ViewOrder'
    BY <1>0, <1>2, <1>6, <2>1, BoundsAssumption DEF ViewInv, ViewOrder, Types, TypeOK, Requests, Sessions
  <2>6. EventsAreLate'
    BY <1>0, <1>2, <1>3, <2>3, TornIsDetached DEF ViewInv, EventsAreLate, Types, TypeOK, Live
  <2>7. BusyIsTrue'
    BY <1>0, <1>2, <1>6, <2>1, <2>2 DEF ViewInv, BusyIsTrue, InView, Connected, Reconnected, Types
  <2>8. StatusFollows'
    <3>1. SUFFICES ASSUME ~replaced' PROVE StatusFollows'
      BY DEF StatusFollows
    <3>2. ~replaced /\ r.op = "reconnect" /\ InView(r) /\ st = "connecting"
      BY <3>1, <2>2, <1>1
    <3>3. conn[ws] = "closed" /\ ws \notin events /\ \A s \in events : owner[s] # view
      BY <3>2, <1>6 DEF ViewInv, StatusFollows
    <3>4. status' = "connecting" /\ events' = events
      BY <3>2, <3>3, <2>1 DEF CleanupStatus, CleanupEvents, Live
    <3>5. \A q \in reqs' : ~(q.op = "reconnect" /\ q.in = view')
      BY <3>2, <1>2, <1>6, <2>1 DEF ViewInv, BusyIsTrue, InView
    <3>6. \A e \in events' : owner'[e] # view'
      BY <3>3, <3>4, <1>2, <1>3, <2>1 DEF ViewInv, Types, TypeOK
    <3> QED
      BY <3>4, <3>5, <3>6 DEF StatusFollows, InView
  <2> QED
    BY <2>4, <2>5, <2>6, <2>7, <2>8 DEF ViewInv
<1> QED
  BY <1>5, <1>6

(* The end of a handler that changes nothing but its flag.                 *)
LEMMA GiveUpKeeps ==
  ASSUME ViewInv, LinkInv', NEW r \in reqs, GiveUp(r)
  PROVE  ViewInv'
<1>0. /\ reqs' = reqs \ {r} /\ UNCHANGED <<ws, view, status, netVars, issued, replaced>>
      /\ closing' = (closing /\ ~(r.op = "close" /\ InView(r)))
      /\ reconnecting' = (reconnecting /\ ~(r.op = "reconnect" /\ InView(r)))
  BY DEF GiveUp
<1>1. closing' \in BOOLEAN /\ reconnecting' \in BOOLEAN
  BY <1>0
<1>2. Types'
  BY <1>0, <1>1 DEF ViewInv, Types, TypeOK, netVars
<1>3. ViewOrder' /\ EventsAreLate' /\ StatusFollows'
  BY <1>0 DEF ViewInv, ViewOrder, EventsAreLate, StatusFollows, InView, netVars
<1>4. BusyIsTrue'
  BY <1>0 DEF ViewInv, BusyIsTrue, InView, Types
<1> QED
  BY <1>2, <1>3, <1>4 DEF ViewInv

(* A request that goes on in another phase, or never continues because its *)
(* prompt is gone: then it is not of the view on the screen.               *)
LEMMA CodesKeep ==
  ASSUME ViewInv, LinkInv', NEW r \in reqs, NeedCode(r) \/ EnterCode(r)
  PROVE  ViewInv'
<1>0. UNCHANGED <<ws, view, viewState, netVars, issued, replaced>>
  BY DEF NeedCode, EnterCode
<1> USE <1>0 DEF viewState, netVars
<1>1. PICK p \in {"sent", "code"} :
        \/ /\ ~InView(r) \/ r.op = "connect"
           /\ reqs' = reqs \ {r}
        \/ /\ {q \in reqs : InView(q)} \ {r} \subseteq reqs'
           /\ [r EXCEPT !.phase = p] \in reqs'
           /\ reqs' \subseteq (reqs \ {r}) \cup {[r EXCEPT !.phase = p]}
  <2>1. CASE NeedCode(r)
    <3>1. \A q \in reqs \ {r} : InView(q) /\ InView(r) => q.op # r.op
      BY DEF ViewInv, BusyIsTrue, InView
    <3>2. r.op = "connect" /\ ws = 0 => \A q \in reqs : ~InView(q)
      BY DEF InView
    <3> QED
      BY <2>1, <3>1, <3>2 DEF NeedCode, WithoutPrompts, InView
  <2>2. CASE EnterCode(r)
    BY <2>2 DEF EnterCode
  <2> QED
    BY <2>1, <2>2
<1>2. r \in Requests
  BY DEF ViewInv, Types, TypeOK
<1>3. /\ [r EXCEPT !.phase = p] \in Requests
      /\ [r EXCEPT !.phase = p].op = r.op /\ [r EXCEPT !.phase = p].in = r.in
  BY <1>2 DEF Requests
<1> DEFINE m == [r EXCEPT !.phase = p]
<1>4. m \in Requests /\ m.op = r.op /\ m.in = r.in
  BY <1>3
<1>5. \/ (~InView(r) \/ r.op = "connect") /\ reqs' = reqs \ {r}
      \/ /\ {q \in reqs : InView(q)} \ {r} \subseteq reqs' /\ m \in reqs'
         /\ reqs' \subseteq (reqs \ {r}) \cup {m}
  BY <1>1
<1> HIDE DEF m
<1>6. Types'
  BY <1>4, <1>5 DEF ViewInv, Types, TypeOK
<1>7. ViewOrder' /\ EventsAreLate'
  BY <1>4, <1>5 DEF ViewInv, ViewOrder, EventsAreLate
<1>8. StatusFollows'
  BY <1>4, <1>5 DEF ViewInv, StatusFollows, InView
<1>9. BusyIsTrue'
  BY <1>4, <1>5 DEF ViewInv, BusyIsTrue, InView
<1> QED
  BY <1>6, <1>7, <1>8, <1>9 DEF ViewInv

(* What sockets and clients report is of the session on the screen, but    *)
(* for an onclose, which StatusFollows covers.                             *)
LEMMA ReportsKeep ==
  ASSUME ViewInv, LinkInv', NEW s \in Sessions,
         Ready(s) \/ SocketEnds(s) \/ OnClose(s) \/ ClientEnds(s) \/ TunnelDrops(s)
  PROVE  ViewInv'
<1>0. UNCHANGED <<ws, view, closing, reconnecting, created, kind, owner, reqs, issued, replaced>>
  BY DEF Ready, SocketEnds, OnClose, ClientEnds, TunnelDrops, viewState
<1> USE <1>0
<1>1. /\ conn' \in [Sessions -> {"none", "closed"} \cup Live]
      /\ status' \in {"connecting", "connected", "disconnected"}
      /\ events' \subseteq events \cup {s}
  BY DEF Ready, SocketEnds, OnClose, ClientEnds, TunnelDrops, viewState, SetStatus,
         ViewInv, Types, TypeOK, Live
<1>2. Types'
  BY <1>1 DEF ViewInv, Types, TypeOK
<1>3. ViewOrder' /\ BusyIsTrue'
  BY DEF ViewInv, ViewOrder, BusyIsTrue, InView
<1>4. EventsAreLate'
  BY DEF ViewInv, EventsAreLate, Types, TypeOK, Ready, SocketEnds, OnClose, ClientEnds, TunnelDrops
<1>5. StatusFollows'
  <2>1. SUFFICES ASSUME ws # 0, ~replaced PROVE StatusFollows'
    BY DEF StatusFollows
  <2>2. conn[s] \in Live => s = ws /\ s \notin events
    BY DEF ViewInv, LinkInv, EventsAreLate, Live
  <2>3. owner[ws] = view
    BY <2>1 DEF ViewInv, ViewOrder
  <2>4. CASE Ready(s)
    BY <2>1, <2>2, <2>4 DEF Ready, SetStatus, ViewInv, StatusFollows, InView, Types, TypeOK, Live
  <2>5. CASE SocketEnds(s)
    BY <2>1, <2>2, <2>5 DEF SocketEnds, viewState, ViewInv, StatusFollows, InView, Types, TypeOK, Live
  <2>6. CASE OnClose(s)
    BY <2>1, <2>3, <2>6 DEF OnClose, SetStatus, ViewInv, StatusFollows, EventsAreLate, InView, Types, TypeOK
  <2>7. CASE ClientEnds(s)
    BY <2>1, <2>2, <2>3, <2>7 DEF ClientEnds, SetStatus, ViewInv, StatusFollows, InView, Types, TypeOK, Live
  <2>8. CASE TunnelDrops(s)
    BY <2>1, <2>2, <2>8 DEF TunnelDrops, viewState, ViewInv, StatusFollows, InView, Types, TypeOK, Live
  <2> QED
    BY <2>4, <2>5, <2>6, <2>7, <2>8
<1> QED
  BY <1>2, <1>3, <1>4, <1>5 DEF ViewInv

LEMMA ViewInductive ==
  ASSUME ViewInv, [Next]_vars
  PROVE  ViewInv'
<1>0. LinkInv'
  BY StepIsAbstract DEF ViewInv
<1>1. CASE User
  <2>1. CASE Leave
    BY <2>1, <1>0, HideKeeps DEF Leave
  <2> QED
    BY <1>0, <1>1, <2>1, ButtonsKeep, AsksKeep DEF User
<1>2. ASSUME NEW r \in reqs, Answer(r) \/ EnterCode(r) \/ CancelCode(r)
      PROVE  ViewInv'
  <2>1. CASE Connected(r) \/ Reconnected(r)
    BY <2>1, <1>0, ShowKeeps
  <2>2. CASE Closed(r) \/ SetupRequired(r)
    BY <2>2, <1>0, HideKeeps DEF Closed, SetupRequired
  <2>3. CASE Fail(r) \/ CancelCode(r)
    BY <2>3, <1>0, GiveUpKeeps DEF Fail, CancelCode
  <2>4. CASE NeedCode(r) \/ EnterCode(r)
    BY <2>4, <1>0, CodesKeep
  <2> QED
    BY <1>2, <2>1, <2>2, <2>3, <2>4 DEF Answer
<1>3. CASE UNCHANGED vars
  BY <1>3 DEF vars, viewState, netVars, ViewInv, Types, TypeOK, LinkInv, ViewOrder, EventsAreLate,
              StatusFollows, BusyIsTrue, InView
<1> QED
  BY <1>0, <1>1, <1>2, <1>3, ReportsKeep DEF Next

(* The first states have the invariant.                                    *)
LEMMA ViewOpens == ASSUME Init PROVE ViewInv
<1>1. Types
  <2>1. closing \in BOOLEAN /\ reconnecting \in BOOLEAN /\ replaced \in BOOLEAN
    BY DEF Init
  <2> QED
    BY <2>1, BoundsAssumption DEF Init, Types, TypeOK, Sessions, Kinds
<1>2. LinkInv
  BY BoundsAssumption DEF Init, LinkInv, Sessions, Live
<1>3. ViewOrder /\ EventsAreLate /\ StatusFollows /\ BusyIsTrue
  BY BoundsAssumption DEF Init, ViewOrder, EventsAreLate, StatusFollows, BusyIsTrue, Sessions
<1> QED
  BY <1>1, <1>2, <1>3 DEF ViewInv

(* What the invariant says of the workspace.                               *)
LEMMA ViewShows == ASSUME ViewInv PROVE TypeOK /\ StatusIsTrue /\ BusyIsTrue
BY DEF ViewInv, Types, StatusFollows, StatusIsTrue

LEMMA ViewInvariant == Spec => []ViewInv
<1>1. Init => ViewInv
  BY ViewOpens
<1>2. ViewInv /\ [Next]_vars => ViewInv'
  BY ViewInductive
<1> QED
  BY <1>1, <1>2, PTL DEF Spec

(* The workspace, its view, its connections and its requests hold values   *)
(* the code can give them.                                                 *)
THEOREM WorkspaceTypes == Spec => []TypeOK
<1>1. ViewInv => TypeOK
  BY DEF ViewInv, Types
<1> QED
  BY <1>1, ViewInvariant, PTL

(* A view whose session was not exchanged over its head tells the truth of *)
(* its connection, although an onclose runs late and sessions of the same  *)
(* view follow each other (SSHWorkspace, RDPWorkspace, reconnect).         *)
THEOREM ViewsTellTheStatus == Spec => []StatusIsTrue
<1>1. ViewInv => StatusIsTrue
  BY DEF ViewInv, StatusFollows, StatusIsTrue
<1> QED
  BY <1>1, ViewInvariant, PTL

(* The busy flags of Reconnect and Close say whether such a request of the *)
(* view is under way, and there is one at most, for any number of views,   *)
(* failures and prompts that are cancelled or forgotten.                   *)
THEOREM ButtonsTellTheRequests == Spec => []BusyIsTrue
<1>1. ViewInv => BusyIsTrue
  BY DEF ViewInv
<1> QED
  BY <1>1, ViewInvariant, PTL

-----------------------------------------------------------------------------
(***************************************************************************)
(* Desktop input: no key is forgotten and none is held on a desktop that   *)
(* is not typed into, for every set of keysyms and every assignment of     *)
(* them to modifiers.                                                      *)
(***************************************************************************)

(* The inductive invariant: besides the two properties, the keyboard holds *)
(* nothing while it is not focused (or a key repeat would press a key),    *)
(* and a client that is not up yet, or was cleaned up while it was, has    *)
(* left nothing down.                                                      *)
KeysInv ==
  /\ InputTypeOK
  /\ NoForgottenKey
  /\ NothingHeldAway
  /\ focus # "display" => held = {}
  /\ client \in {"connecting", "gone"} => remote = {}
  /\ Over => focus # "display"

(* releaseInputState lets every key go that a live client has pressed.     *)
LEMMA ReleaseLets ==
  ASSUME KeysInv, ReleaseInputState, ~Lost
  PROVE  held' = {} /\ pressed' = {} /\ remote' = {}
  BY DEF KeysInv, InputTypeOK, NoForgottenKey, ReleaseInputState, SentUp, Lost, Over

LEMMA ReleaseTyped ==
  ASSUME KeysInv, ReleaseInputState
  PROVE  held' = {} /\ pressed' = {} /\ remote' \in SUBSET Keys
  BY DEF KeysInv, InputTypeOK, ReleaseInputState, SentUp

(* What the runs check on four keys holds for all: no key is forgotten and *)
(* none is held on a desktop that is not typed into.                       *)
THEOREM KeysAreReleased == InputSpec => [](InputTypeOK /\ NoForgottenKey /\ NothingHeldAway)
<1>1. InputInit => KeysInv
  BY DEF InputInit, KeysInv, InputTypeOK, NoForgottenKey, NothingHeldAway, Lost, Over
<1>2. KeysInv /\ [InputNext]_inputVars => KeysInv'
  <2> SUFFICES ASSUME KeysInv, [InputNext]_inputVars PROVE KeysInv'
    OBVIOUS
  <2> USE KeysOfAssumption
  <2>1. ASSUME NEW k \in Keys, OnKeyDown(k) PROVE KeysInv'
    BY <2>1 DEF OnKeyDown, SentDown, KeysInv, InputTypeOK, NoForgottenKey, NothingHeldAway, Lost, Over
  <2>2. ASSUME NEW k \in Keys, KeyRepeat(k) PROVE KeysInv'
    BY <2>2 DEF KeyRepeat, SentDown, KeysInv, InputTypeOK, NoForgottenKey, NothingHeldAway, Lost, Over
  <2>3. ASSUME NEW k \in Keys, OnKeyUp(k) PROVE KeysInv'
    BY <2>3 DEF OnKeyUp, SentUp, KeysInv, InputTypeOK, NoForgottenKey, NothingHeldAway, Lost, Over
  <2>4. ASSUME NEW k \in Keys, KeyUpMissed(k) PROVE KeysInv'
    BY <2>4 DEF KeyUpMissed, KeysInv, InputTypeOK, NoForgottenKey, NothingHeldAway, Lost, Over
  <2>5. ASSUME NEW k \in Keys, OnWindowKeyUp(k) PROVE KeysInv'
    <3>1. CASE ~Over /\ focus = "page"
      <4>1. ReleaseInputState /\ UNCHANGED <<client, focus>> /\ down' = down \ {k}
        BY <2>5, <3>1 DEF OnWindowKeyUp
      <4> QED
        BY <4>1, ReleaseLets, ReleaseTyped
        DEF KeysInv, InputTypeOK, NoForgottenKey, NothingHeldAway, Lost, Over
    <3>2. CASE ~(~Over /\ focus = "page")
      BY <2>5, <3>2 DEF OnWindowKeyUp, KeysInv, InputTypeOK, NoForgottenKey, NothingHeldAway, Lost, Over
    <3> QED
      BY <3>1, <3>2
  <2>6. ASSUME NEW f \in {"page", "away"}, LoseFocus(f) PROVE KeysInv'
    <3>1. CASE Over
      <4>1. UNCHANGED <<held, pressed, remote, client, down>> /\ focus' = f
        BY <2>6, <3>1 DEF LoseFocus
      <4>2. Lost \/ client = "gone"
        BY <3>1 DEF Over, Lost
      <4>3. held = {}
        BY <4>1, <2>6, <3>1 DEF LoseFocus, KeysInv, Over
      <4> QED
        BY <4>1, <4>2, <4>3 DEF KeysInv, InputTypeOK, NoForgottenKey, NothingHeldAway, Lost, Over
    <3>2. CASE ~Over
      <4>1. ReleaseInputState /\ UNCHANGED <<client, down>> /\ focus' = f
        BY <2>6, <3>2 DEF LoseFocus
      <4> QED
        BY <4>1, ReleaseLets, ReleaseTyped
        DEF KeysInv, InputTypeOK, NoForgottenKey, NothingHeldAway, Lost, Over
    <3> QED
      BY <3>1, <3>2
  <2>7. CASE OnMouseDown
    BY <2>7 DEF OnMouseDown, SentUp, KeysInv, InputTypeOK, NoForgottenKey, NothingHeldAway, Lost, Over
  <2>8. CASE FocusDisplay
    BY <2>8 DEF FocusDisplay, KeysInv, InputTypeOK, NoForgottenKey, NothingHeldAway, Lost, Over
  <2>9. CASE ClientConnects
    BY <2>9 DEF ClientConnects, KeysInv, InputTypeOK, NoForgottenKey, NothingHeldAway, Lost, Over
  <2>10. CASE ClientLost
    BY <2>10 DEF ClientLost, KeysInv, InputTypeOK, NoForgottenKey, NothingHeldAway, Lost, Over
  <2>11. CASE InputCleanup
    <3>1. CASE Lost
      <4>1. ReleaseInputState /\ client' = "lost_gone" /\ down' = down /\ focus' \in {"page", "away"}
        BY <2>11, <3>1 DEF InputCleanup, KeysInv, InputTypeOK
      <4> QED
        BY <4>1, ReleaseTyped DEF KeysInv, InputTypeOK, NoForgottenKey, NothingHeldAway, Lost, Over
    <3>2. CASE ~Lost
      <4>1. ReleaseInputState /\ client' = "gone" /\ down' = down /\ focus' \in {"page", "away"}
        BY <2>11, <3>2 DEF InputCleanup, KeysInv, InputTypeOK
      <4> QED
        BY <4>1, <3>2, ReleaseLets DEF KeysInv, InputTypeOK, NoForgottenKey, NothingHeldAway, Lost, Over
    <3> QED
      BY <3>1, <3>2
  <2>12. CASE UNCHANGED inputVars
    BY <2>12 DEF inputVars, KeysInv, InputTypeOK, NoForgottenKey, NothingHeldAway, Lost, Over
  <2> QED
    BY <2>1, <2>2, <2>3, <2>4, <2>5, <2>6, <2>7, <2>8, <2>9, <2>10, <2>11, <2>12 DEF InputNext
<1>3. KeysInv => InputTypeOK /\ NoForgottenKey /\ NothingHeldAway
  BY DEF KeysInv
<1> QED
  BY <1>1, <1>2, <1>3, PTL DEF InputSpec

-----------------------------------------------------------------------------
(***************************************************************************)
(* The sessions of a user on the server, for any sets of tokens, requests  *)
(* under way and roles, whichever store operations fail and however often  *)
(* the process restarts. RevokedIsDead is not inductive: a token must be   *)
(* gone from map and row when it counts as revoked (EndsInOrder), nobody   *)
(* may hold it then (AloneIsTrue), and whoever presents it later must find *)
(* nothing to bring back (DeadStays). OnlineMatches needs an invariant of  *)
(* its own, of the user's record and the requests that write it            *)
(* (OnlineInv).                                                            *)
(***************************************************************************)

Ops == {"none", "login", "me", "logout", "password", "edit", "refused", "rollback"}

(* The local state of a request. *)
HandlerStates ==
  [op : Ops, at : Auth!Steps, token : Tokens \cup {"none"}, session : Auth!Sessions, copy : Auth!Users,
   other : BOOLEAN, left : SUBSET Tokens, ends : SUBSET Tokens, alone : BOOLEAN,
   had : SUBSET Roles, blind : BOOLEAN]

LocalTypes == Auth!TypeOK /\ handler \in [Handlers -> HandlerStates]

(* The steps of authSession. *)
Checks == {"load", "fill", "check", "persistRole", "rememberRole", "serve"}

(* A request that is idle holds nothing, and which request can be at which *)
(* step: only a login saves a token it has drawn, and only it does before  *)
(* the token is given out; a logout ends its own token, a password change  *)
(* others.                                                                 *)
Shape ==
  \A h \in Handlers :
    /\ Auth!At(h, "idle") <=> Auth!Me(h) = Auth!Idle
    /\ Auth!Me(h).at \in {"persist", "remember"} => Auth!Me(h).op = "login"
    /\ Auth!Me(h).at \in {"list", "dropRows"} => Auth!Me(h).op = "password"
    /\ Auth!Me(h).at \in Checks => Auth!Me(h).op \in {"me", "logout", "password"} /\ Auth!Me(h).token \in given
    /\ Auth!Me(h).op = "login" => Auth!Me(h).token \in drawn \ given
    /\ Auth!Me(h).op = "logout" => Auth!Me(h).ends = {Auth!Me(h).token}
    /\ Auth!Me(h).op = "password" => Auth!Me(h).token \notin Auth!Me(h).ends
    /\ Auth!Me(h).ends \subseteq given

(* Two logins do not draw the same token.                                  *)
DrawnOnce ==
  \A g, h \in Handlers :
    Auth!Me(g).op = "login" /\ Auth!Me(h).op = "login" /\ Auth!Me(g).token = Auth!Me(h).token => g = h

(* "alone" is true: nobody else presents a token that the request ends.    *)
AloneIsTrue ==
  \A g, h \in Handlers :
    Auth!Me(h).alone /\ g # h /\ ~Auth!At(g, "idle") => Auth!Me(g).token \notin Auth!Me(h).ends

(* RevokedIsDead, and a request that presents a revoked token has not got  *)
(* past the look into the store.                                           *)
DeadStays ==
  \A t \in revoked :
    /\ cache[t] = "none" /\ rows[t] = "none"
    /\ \A h \in Handlers : ~Auth!At(h, "idle") /\ Auth!Me(h).token = t => Auth!At(h, "load")

(* How far the end of a token has come: its entry is gone before its row,  *)
(* and a row that a password change has yet to delete is on its list.      *)
EndsInOrder ==
  \A h \in Handlers : Auth!Me(h).alone =>
    /\ Auth!Me(h).op = "logout" /\ Auth!At(h, "dropRow") => cache[Auth!Me(h).token] = "none"
    /\ Auth!At(h, "dropRows") => \A t \in Auth!Me(h).ends : rows[t] # "none" => t \in Auth!Me(h).left

(* The inductive invariant of revocation. *)
RevokeInv == Shape /\ DrawnOnce /\ AloneIsTrue /\ DeadStays /\ EndsInOrder

(* A request has seen every role its user has had since it arrived, and    *)
(* from its check on acts with one of them.                                *)
RoleInv ==
  \A h \in Handlers :
    /\ ~Auth!At(h, "idle") => Auth!RoleNow(user) \subseteq Auth!Me(h).had
    /\ Auth!Me(h).at \in {"persistRole", "rememberRole", "serve"}
         => Auth!Me(h).session \in Auth!Me(h).had \/ Auth!Me(h).blind

-----------------------------------------------------------------------------
(* The local states a request goes through are well formed.                *)
LEMMA IdleTypes ==
  ASSUME LocalTypes
  PROVE  /\ Auth!Idle \in HandlerStates /\ Auth!Idle.at = "idle" /\ Auth!Idle.op = "none"
         /\ Auth!Idle.ends = {} /\ Auth!Idle.left = {}
<1>1. Auth!NoUser \in Auth!Users
  <2>1. PICK role \in Roles : TRUE
    BY DEF LocalTypes, Auth!TypeOK, Auth!Users
  <2>2. (CHOOSE r \in Roles : TRUE) \in Roles
    BY <2>1
  <2> QED
    BY <2>2 DEF Auth!NoUser, Auth!Users
<1> QED
  BY <1>1 DEF Auth!Idle, HandlerStates, Ops, Auth!Steps, Auth!Sessions

LEMMA StateUpdates ==
  ASSUME NEW x \in HandlerStates, NEW at \in Auth!Steps, NEW op \in Ops,
         NEW session \in Auth!Sessions
  PROVE  /\ [x EXCEPT !.at = at] \in HandlerStates
         /\ [x EXCEPT !.op = op, !.at = at] \in HandlerStates
         /\ [x EXCEPT !.at = at, !.session = session] \in HandlerStates
         /\ [x EXCEPT !.at = at, !.blind = TRUE] \in HandlerStates
         /\ \A c \in Auth!Users : [x EXCEPT !.at = at, !.copy = c] \in HandlerStates
         /\ \A b \in BOOLEAN : [x EXCEPT !.other = b, !.at = at] \in HandlerStates
         /\ \A l \in SUBSET Tokens : [x EXCEPT !.at = at, !.left = l] \in HandlerStates
         /\ \A l \in SUBSET Tokens : [x EXCEPT !.left = l] \in HandlerStates
         /\ \A r \in SUBSET Roles : [x EXCEPT !.had = r] \in HandlerStates
  BY DEF HandlerStates

-----------------------------------------------------------------------------
(* Two local states that differ at most in what the request knows of the   *)
(* user.                                                                   *)
Like(x, y) ==
  /\ x.op = y.op /\ x.at = y.at /\ x.token = y.token /\ x.ends = y.ends
  /\ x.alone = y.alone /\ x.left = y.left /\ x.session = y.session /\ x.blind = y.blind
  /\ x.copy = y.copy /\ x.other = y.other
  /\ y = Auth!Idle => x = Auth!Idle

(* The two ways a step changes the local states: its own only, or, when it *)
(* saves the user, what every request under way knows of the user.         *)
LEMMA BecomesDoes ==
  ASSUME LocalTypes, NEW h \in Handlers, NEW x \in HandlerStates, Auth!Becomes(h, x)
  PROVE  /\ handler' \in [Handlers -> HandlerStates]
         /\ handler'[h] = x
         /\ \A g \in Handlers \ {h} : handler'[g] = handler[g]
  BY DEF LocalTypes, Auth!Becomes

LEMMA SaveUserDoes ==
  ASSUME LocalTypes, NEW h \in Handlers, NEW u \in Auth!Users, NEW x \in HandlerStates,
         Auth!SaveUser(h, u, x)
  PROVE  /\ user' = u /\ handler' \in [Handlers -> HandlerStates]
         /\ Like(handler'[h], x)
         /\ \A g \in Handlers \ {h} : Like(handler'[g], handler[g])
         /\ \A g \in Handlers \ {h} :
              handler[g] # Auth!Idle => handler'[g].had = handler[g].had \cup Auth!RoleNow(u)
         /\ x # Auth!Idle => handler'[h].had = x.had \cup Auth!RoleNow(u)
<1> DEFINE after(g) == IF g = h THEN x ELSE handler[g]
           next(g) == IF after(g) = Auth!Idle THEN Auth!Idle
                      ELSE [after(g) EXCEPT !.had = @ \cup Auth!RoleNow(u)]
<1>1. handler' = [g \in Handlers |-> next(g)] /\ user' = u
  BY DEF Auth!SaveUser, Auth!Me
<1>2. Auth!RoleNow(u) \subseteq Roles
  BY DEF Auth!RoleNow, Auth!Users
<1>3. ASSUME NEW g \in Handlers
      PROVE  /\ next(g) \in HandlerStates /\ Like(next(g), after(g))
             /\ after(g) # Auth!Idle => next(g).had = after(g).had \cup Auth!RoleNow(u)
  <2>1. after(g) \in HandlerStates
    BY DEF LocalTypes
  <2>2. CASE after(g) = Auth!Idle
    BY <2>1, <2>2 DEF Like
  <2>3. CASE after(g) # Auth!Idle
    <3>1. next(g) = [after(g) EXCEPT !.had = @ \cup Auth!RoleNow(u)]
      BY <2>3
    <3> HIDE DEF next, after
    <3> QED
      BY <1>2, <2>1, <2>3, <3>1 DEF HandlerStates, Like
  <2> QED
    BY <2>2, <2>3
<1> QED
  BY <1>1, <1>3

-----------------------------------------------------------------------------
(* How a step of a request may leave its local state, y after x.           *)
Follows(x, y) ==
  \/ y = Auth!Idle
  \/ /\ y.at \notin {"idle", "persist", "load"}
     /\ y.token = x.token /\ y.ends = x.ends /\ y.alone = x.alone
     /\ y.op \in {x.op, "refused", "rollback"}
     /\ y.at = "remember" => y.op = "login"
     /\ y.at \in {"list", "dropRows"} => y.op = "password"
     /\ y.at \in Checks => y.op = x.op /\ x.at \in Checks

(* What a step of request h does to the sessions: only its own token comes *)
(* back to map or store, and not from the look into an empty store.        *)
Grows(h) ==
  /\ cache' \in [Tokens -> Auth!Sessions] /\ rows' \in [Tokens -> Auth!Sessions]
  /\ \A t \in Tokens : cache'[t] # "none" => cache[t] # "none" \/ (t = Auth!Me(h).token /\ ~Auth!At(h, "load"))
  /\ \A t \in Tokens : rows'[t] # "none" => rows[t] # "none" \/ (t = Auth!Me(h).token /\ ~Auth!At(h, "load"))
  /\ Auth!At(h, "load") /\ rows[Auth!Me(h).token] = "none" => handler'[h] = Auth!Idle

(* How a step of request h ends tokens. *)
Revokes(h) ==
  /\ \/ revoked' = revoked
     \/ /\ Auth!Me(h).alone /\ handler'[h] = Auth!Idle /\ revoked' = revoked \cup Auth!Me(h).ends
        /\ \A t \in Auth!Me(h).ends : cache'[t] = "none" /\ rows'[t] = "none"
  /\ handler'[h] # Auth!Idle /\ handler'[h].op = "logout" /\ handler'[h].at = "dropRow"
       => cache'[handler'[h].token] = "none"
  /\ handler'[h] # Auth!Idle /\ handler'[h].at = "dropRows" /\ handler'[h].alone
       => \A t \in handler'[h].ends : rows'[t] # "none" => t \in handler'[h].left

(* What a step of request h leaves as it should be for every other. *)
Leaves(h) ==
  /\ ~Auth!At(h, "idle") /\ drawn' = drawn /\ expired' = expired /\ started' = started
  /\ \/ given' = given
     \/ Auth!Me(h).op = "login" /\ handler'[h] = Auth!Idle /\ given' = given \cup {Auth!Me(h).token}
  /\ user' \in Auth!Users /\ faults' \in 0 .. MaxFaults /\ excused' \in BOOLEAN
  /\ handler' \in [Handlers -> HandlerStates]
  /\ \A g \in Handlers \ {h} : Like(handler'[g], handler[g])

(* Every request knows the roles of the user. *)
Knows(h) ==
  /\ \A g \in Handlers : handler'[g] # Auth!Idle => Auth!RoleNow(user') \subseteq handler'[g].had
  /\ \A g \in Handlers \ {h} : handler[g].had \subseteq handler'[g].had
  /\ handler'[h].at \in {"persistRole", "rememberRole", "serve"}
       => handler'[h].session \in handler'[h].had \/ handler'[h].blind

(* The step of a request as the invariants see it. *)
StepDoes(h) ==
  Follows(Auth!Me(h), handler'[h]) /\ Grows(h) /\ Revokes(h) /\ Leaves(h) /\ Knows(h)

Inv == LocalTypes /\ RevokeInv /\ RoleInv

LEMMA StepKeeps ==
  ASSUME Auth!ConstantsOK, Inv, NEW h \in Handlers, StepDoes(h)
  PROVE  Inv'
<1> DEFINE x == handler[h]
           y == handler'[h]
<1>1. /\ LocalTypes /\ Shape /\ DrawnOnce /\ AloneIsTrue /\ DeadStays /\ EndsInOrder /\ RoleInv
      /\ Follows(x, y) /\ Grows(h) /\ Revokes(h) /\ Leaves(h) /\ Knows(h)
  BY DEF Inv, RevokeInv, StepDoes, Auth!Me
<1>2. /\ Auth!Idle \in HandlerStates /\ Auth!Idle.at = "idle" /\ Auth!Idle.op = "none"
      /\ Auth!Idle.ends = {} /\ Auth!Idle.left = {}
  BY <1>1, IdleTypes
<1>3. /\ x \in HandlerStates /\ y \in HandlerStates /\ x.at # "idle"
      /\ \A g \in Handlers : handler[g] \in HandlerStates /\ handler'[g] \in HandlerStates
  BY <1>1 DEF LocalTypes, Leaves, Auth!At, Auth!Me
<1>4. given \subseteq given' /\ given' \subseteq drawn' /\ revoked' \subseteq given'
  <2>1. given \subseteq drawn /\ revoked \subseteq given
    BY <1>1 DEF LocalTypes, Auth!TypeOK
  <2>2. x.op = "login" => x.token \in drawn
    BY <1>1 DEF Shape, Auth!Me
  <2>3. x.ends \subseteq given
    BY <1>1 DEF Shape, Auth!Me
  <2> QED
    BY <1>1, <2>1, <2>2, <2>3 DEF Leaves, Revokes, Auth!Me
<1>5. LocalTypes'
  <2>1. \A g \in Handlers :
          /\ handler'[g].at \in Auth!Steps /\ handler'[g].session \in Auth!Sessions /\ handler'[g].copy \in Auth!Users
          /\ handler'[g].left \subseteq Tokens /\ handler'[g].ends \subseteq Tokens
          /\ handler'[g].had \subseteq Roles
    BY <1>3 DEF HandlerStates
  <2> QED
    BY <1>1, <1>4, <2>1 DEF LocalTypes, Auth!TypeOK, Leaves, Grows
<1>6. ASSUME NEW g \in Handlers, g # h
      PROVE  /\ Like(handler'[g], handler[g])
             /\ handler'[g] = Auth!Idle <=> handler'[g].at = "idle"
  <2>1. Like(handler'[g], handler[g])
    BY <1>1, <1>6 DEF Leaves
  <2>2. handler[g].at = "idle" <=> handler[g] = Auth!Idle
    BY <1>1 DEF Shape, Auth!At, Auth!Me
  <2> QED
    BY <1>2, <2>1, <2>2 DEF Like
<1>7. y = Auth!Idle <=> y.at = "idle"
  BY <1>1, <1>2 DEF Follows
<1>8. Shape'
  <2>1. ASSUME NEW g \in Handlers, g # h
        PROVE  /\ handler'[g].op = "login" => handler'[g].token \in drawn' \ given'
               /\ handler'[g].ends \subseteq given'
    <3>1. handler[g].op = "login" => handler[g].token \in drawn \ given
      BY <1>1 DEF Shape, Auth!Me
    <3>2. handler[g].op = "login" /\ x.op = "login" => handler[g].token # x.token
      BY <1>1, <2>1 DEF DrawnOnce, Auth!Me
    <3>3. handler[g].ends \subseteq given
      BY <1>1 DEF Shape, Auth!Me
    <3> QED
      BY <1>1, <1>4, <1>6, <2>1, <3>1, <3>2, <3>3 DEF Leaves, Like, Auth!Me
  <2>2. ASSUME NEW g \in Handlers, g # h
        PROVE  /\ handler'[g].at \in {"persist", "remember"} => handler'[g].op = "login"
               /\ handler'[g].at \in {"list", "dropRows"} => handler'[g].op = "password"
               /\ handler'[g].at \in Checks =>
                    handler'[g].op \in {"me", "logout", "password"} /\ handler'[g].token \in given'
               /\ handler'[g].op = "logout" => handler'[g].ends = {handler'[g].token}
               /\ handler'[g].op = "password" => handler'[g].token \notin handler'[g].ends
    BY <1>1, <1>4, <1>6, <2>2 DEF Shape, Like, Auth!Me
  <2>3. CASE y = Auth!Idle
    BY <1>2, <1>6, <1>7, <2>1, <2>2, <2>3 DEF Shape, Auth!At, Auth!Me, Checks
  <2>4. CASE y # Auth!Idle
    <3>1. /\ x.op = "login" => x.token \in drawn \ given
          /\ x.op = "logout" => x.ends = {x.token}
          /\ x.op = "password" => x.token \notin x.ends
          /\ x.at \in Checks => x.op \in {"me", "logout", "password"} /\ x.token \in given
          /\ x.ends \subseteq given
      BY <1>1 DEF Shape, Auth!Me
    <3>2. given' = given /\ drawn' = drawn
      BY <1>1, <2>4 DEF Leaves
    <3>3. /\ y.at \in {"persist", "remember"} => y.op = "login"
          /\ y.at \in {"list", "dropRows"} => y.op = "password"
          /\ y.at \in Checks => y.op \in {"me", "logout", "password"} /\ y.token \in given'
          /\ y.op = "login" => y.token \in drawn' \ given'
          /\ y.op = "logout" => y.ends = {y.token}
          /\ y.op = "password" => y.token \notin y.ends
          /\ y.ends \subseteq given'
      BY <1>1, <2>4, <3>1, <3>2 DEF Follows
    <3> QED
      BY <1>6, <1>7, <2>1, <2>2, <3>3 DEF Shape, Auth!At, Auth!Me
  <2> QED
    BY <2>3, <2>4
<1>9. ASSUME NEW g \in Handlers
      PROVE  \/ handler'[g] = Auth!Idle
             \/ /\ handler[g].at # "idle" /\ handler'[g].token = handler[g].token
                /\ handler'[g].ends = handler[g].ends /\ handler'[g].alone = handler[g].alone
                /\ handler'[g].op = "login" => handler[g].op = "login"
                /\ handler'[g].op = "logout" => handler[g].op = "logout"
  <2>1. CASE g = h
    BY <1>1, <1>3, <2>1 DEF Follows
  <2>2. CASE g # h
    BY <1>6, <2>2 DEF Like
  <2> QED
    BY <2>1, <2>2
<1>10. DrawnOnce'
  BY <1>1, <1>2, <1>9 DEF DrawnOnce, Auth!Me
<1>11. AloneIsTrue'
  BY <1>1, <1>2, <1>9 DEF AloneIsTrue, Auth!Me, Auth!At
<1>12. DeadStays'
  <2>1. ASSUME NEW t \in revoked
        PROVE  /\ cache'[t] = "none" /\ rows'[t] = "none"
               /\ \A g \in Handlers : handler'[g].at # "idle" /\ handler'[g].token = t => handler'[g].at = "load"
    <3>1. /\ cache[t] = "none" /\ rows[t] = "none" /\ t \in Tokens
          /\ \A g \in Handlers : handler[g].at # "idle" /\ handler[g].token = t => handler[g].at = "load"
      BY <1>1 DEF DeadStays, Auth!Me, Auth!At, LocalTypes, Auth!TypeOK
    <3>2. cache'[t] = "none" /\ rows'[t] = "none"
      BY <1>1, <1>3, <3>1 DEF Grows, Auth!Me, Auth!At
    <3>3. ASSUME NEW g \in Handlers, handler'[g].at # "idle", handler'[g].token = t
          PROVE  handler'[g].at = "load"
      <4>1. CASE g = h
        BY <1>1, <1>2, <1>3, <1>9, <3>1, <3>3, <4>1 DEF Grows, Auth!Me, Auth!At
      <4>2. CASE g # h
        BY <1>6, <3>1, <3>3, <4>2 DEF Like
      <4> QED
        BY <4>1, <4>2
    <3> QED
      BY <3>2, <3>3
  <2>2. CASE revoked' = revoked
    BY <2>1, <2>2 DEF DeadStays, Auth!Me, Auth!At
  <2>3. CASE revoked' # revoked
    <3>1. /\ x.alone /\ y = Auth!Idle /\ revoked' = revoked \cup x.ends
          /\ \A t \in x.ends : cache'[t] = "none" /\ rows'[t] = "none"
      BY <1>1, <2>3 DEF Revokes, Auth!Me
    <3>2. ASSUME NEW t \in x.ends, NEW g \in Handlers, handler'[g].at # "idle"
          PROVE  handler'[g].token # t
      <4>1. g # h
        BY <1>2, <3>1, <3>2
      <4>2. handler[g].at # "idle" /\ handler'[g].token = handler[g].token
        BY <1>2, <1>9, <3>2
      <4> QED
        BY <1>1, <3>1, <4>1, <4>2 DEF AloneIsTrue, Auth!Me, Auth!At
    <3> QED
      BY <2>1, <3>1, <3>2 DEF DeadStays, Auth!Me, Auth!At
  <2> QED
    BY <2>2, <2>3
<1>13. EndsInOrder'
  <2>1. ASSUME NEW g \in Handlers, handler'[g].alone
        PROVE  /\ handler'[g].op = "logout" /\ handler'[g].at = "dropRow" => cache'[handler'[g].token] = "none"
               /\ handler'[g].at = "dropRows" =>
                    \A t \in handler'[g].ends : rows'[t] # "none" => t \in handler'[g].left
    <3>1. CASE handler'[g] = Auth!Idle
      BY <1>2, <3>1
    <3>2. CASE handler'[g] # Auth!Idle /\ g = h
      BY <1>1, <2>1, <3>2 DEF Revokes
    <3>3. CASE handler'[g] # Auth!Idle /\ g # h
      <4>1. x.token \notin handler[g].ends
        BY <1>1, <1>3, <1>6, <2>1, <3>3 DEF AloneIsTrue, Auth!Me, Auth!At, Like
      <4>2. handler[g].op = "logout" => handler[g].ends = {handler[g].token}
        BY <1>1 DEF Shape, Auth!Me
      <4>3. handler[g].ends \subseteq Tokens
        BY <1>3 DEF HandlerStates
      <4>4. /\ handler[g].op = "logout" /\ handler[g].at = "dropRow" => cache[handler[g].token] = "none"
            /\ handler[g].at = "dropRows" =>
                 \A t \in handler[g].ends : rows[t] # "none" => t \in handler[g].left
        BY <1>1, <1>6, <2>1, <3>3 DEF EndsInOrder, Auth!Me, Auth!At, Like
      <4> QED
        BY <1>1, <1>6, <3>3, <4>1, <4>2, <4>3, <4>4 DEF Grows, Like, Auth!Me
    <3> QED
      BY <3>1, <3>2, <3>3
  <2> QED
    BY <2>1 DEF EndsInOrder, Auth!Me, Auth!At
<1>14. RoleInv'
  <2>1. ASSUME NEW g \in Handlers, handler'[g].at \in {"persistRole", "rememberRole", "serve"}
        PROVE  handler'[g].session \in handler'[g].had \/ handler'[g].blind
    <3>1. CASE g = h
      BY <1>1, <2>1, <3>1 DEF Knows
    <3>2. CASE g # h
      <4>1. handler[g].session \in handler[g].had \/ handler[g].blind
        BY <1>1, <1>6, <2>1, <3>2 DEF RoleInv, Auth!Me, Like
      <4> QED
        BY <1>1, <1>6, <3>2, <4>1 DEF Knows, Like
    <3> QED
      BY <3>1, <3>2
  <2>2. \A g \in Handlers : handler'[g].at # "idle" => Auth!RoleNow(user') \subseteq handler'[g].had
    BY <1>1, <1>2 DEF Knows
  <2> QED
    BY <2>1, <2>2 DEF RoleInv, Auth!Me, Auth!At
<1> QED
  BY <1>5, <1>8, <1>10, <1>11, <1>12, <1>13, <1>14 DEF Inv, RevokeInv

-----------------------------------------------------------------------------
(* A step that changes no more than the request's own local state, the     *)
(* sessions and the bounds.                                                *)
LEMMA LocalStep ==
  ASSUME Auth!ConstantsOK, Inv, NEW h \in Handlers, NEW x \in HandlerStates,
         ~Auth!At(h, "idle"), Auth!Becomes(h, x), Follows(Auth!Me(h), x),
         x = Auth!Idle \/ x.had = Auth!Me(h).had,
         x.at \in {"persistRole", "rememberRole", "serve"} => x.session \in x.had \/ x.blind,
         UNCHANGED <<expired, user, drawn, given, started>>,
         Auth!Well \/ Auth!Fault, excused' \in BOOLEAN, Grows(h), Revokes(h)
  PROVE  Inv'
<1>1. /\ handler' \in [Handlers -> HandlerStates] /\ handler'[h] = x
      /\ \A g \in Handlers \ {h} : handler'[g] = handler[g]
  BY BecomesDoes DEF Inv
<1>2. faults' \in 0 .. MaxFaults /\ user \in Auth!Users
  BY DEF Auth!Well, Auth!Fault, Inv, LocalTypes, Auth!TypeOK, Auth!ConstantsOK
<1>3. Leaves(h)
  BY <1>1, <1>2 DEF Leaves, Like
<1>4. \A g \in Handlers : handler[g] # Auth!Idle => Auth!RoleNow(user) \subseteq handler[g].had
  BY DEF Inv, RevokeInv, Shape, RoleInv, Auth!Me, Auth!At
<1>5. handler[h] # Auth!Idle
  BY DEF Inv, RevokeInv, Shape, Auth!Me, Auth!At
<1>6. Knows(h)
  BY <1>1, <1>4, <1>5 DEF Knows, Auth!Me
<1> QED
  BY <1>1, <1>3, <1>6, StepKeeps DEF StepDoes

(* The same, when the step leaves the sessions and what is revoked as they *)
(* were and does not come to a step that depends on them.                  *)
LEMMA QuietStep ==
  ASSUME Auth!ConstantsOK, Inv, NEW h \in Handlers, NEW x \in HandlerStates,
         ~Auth!At(h, "idle"), ~Auth!At(h, "load"), Auth!Becomes(h, x), Follows(Auth!Me(h), x),
         x = Auth!Idle \/ x.had = Auth!Me(h).had,
         x.at \in {"persistRole", "rememberRole", "serve"} => x.session \in x.had \/ x.blind,
         x.at \notin {"dropRow", "dropRows"},
         UNCHANGED <<cache, expired, user, drawn, given, started, revoked>>,
         rows' = rows \/ \E gone \in SUBSET Tokens : rows' = Auth!Without(gone),
         Auth!Well \/ Auth!Fault, excused' \in BOOLEAN
  PROVE  Inv'
<1>1. handler'[h] = x
  BY BecomesDoes DEF Inv
<1>2. /\ rows' \in [Tokens -> Auth!Sessions]
      /\ \A t \in Tokens : rows'[t] # "none" => rows[t] # "none"
  BY DEF Inv, LocalTypes, Auth!TypeOK, Auth!Without, Auth!Sessions
<1>3. Grows(h)
  BY <1>2 DEF Grows, Inv, LocalTypes, Auth!TypeOK
<1>4. Revokes(h)
  BY <1>1 DEF Revokes
<1> QED
  BY <1>3, <1>4, LocalStep

(* The local state of a request that is under way. *)
LEMMA Here ==
  ASSUME Inv, NEW h \in Handlers
  PROVE  /\ Auth!Me(h) \in HandlerStates /\ Auth!Me(h).had \subseteq Roles
         /\ Auth!Idle \in HandlerStates /\ Follows(Auth!Me(h), Auth!Idle)
         /\ Auth!Idle.at = "idle" /\ excused \in BOOLEAN
         /\ cache \in [Tokens -> Auth!Sessions] /\ rows \in [Tokens -> Auth!Sessions]
         /\ expired \subseteq Tokens /\ user \in Auth!Users
         /\ Auth!Me(h).op = "login" => Auth!Me(h).token \in Tokens
         /\ Auth!Me(h).session \in Auth!Sessions
<1>1. Auth!Me(h) \in HandlerStates
  BY DEF Inv, LocalTypes, Auth!Me
<1>2. Auth!Idle \in HandlerStates /\ Auth!Idle.at = "idle"
  BY IdleTypes DEF Inv
<1>3. /\ excused \in BOOLEAN /\ cache \in [Tokens -> Auth!Sessions] /\ rows \in [Tokens -> Auth!Sessions]
      /\ expired \subseteq Tokens /\ user \in Auth!Users /\ drawn \subseteq Tokens
  BY DEF Inv, LocalTypes, Auth!TypeOK
<1>4. Auth!Me(h).op = "login" => Auth!Me(h).token \in Tokens
  BY <1>3 DEF Inv, RevokeInv, Shape
<1>5. Auth!Me(h).session \in Auth!Sessions /\ Auth!Me(h).had \subseteq Roles
  BY <1>1 DEF HandlerStates
<1> QED
  BY <1>1, <1>2, <1>3, <1>4, <1>5 DEF Follows

(* A request that goes on, or is refused. *)
LEMMA Goes ==
  ASSUME Inv, NEW h \in Handlers, NEW at \in Auth!Steps \ {"idle", "persist", "load"}
  PROVE  /\ [Auth!Me(h) EXCEPT !.at = at] \in HandlerStates
         /\ [Auth!Me(h) EXCEPT !.at = at].at = at
         /\ [Auth!Me(h) EXCEPT !.at = at].had = Auth!Me(h).had
         /\ [Auth!Me(h) EXCEPT !.at = at].session = Auth!Me(h).session
         /\ [Auth!Me(h) EXCEPT !.at = at].blind = Auth!Me(h).blind
         /\ [Auth!Me(h) EXCEPT !.at = at].token = Auth!Me(h).token
         /\ [Auth!Me(h) EXCEPT !.at = at].op = Auth!Me(h).op
         /\ [Auth!Me(h) EXCEPT !.at = at].alone = Auth!Me(h).alone
         /\ [Auth!Me(h) EXCEPT !.at = at].ends = Auth!Me(h).ends
         /\ [Auth!Me(h) EXCEPT !.at = at].left = Auth!Me(h).left
         /\ [Auth!Me(h) EXCEPT !.at = at].other = Auth!Me(h).other
         /\ (at = "remember" => Auth!Me(h).op = "login") /\ (at \in {"list", "dropRows"} => Auth!Me(h).op = "password")
            /\ (at \in Checks => Auth!Me(h).at \in Checks)
              => Follows(Auth!Me(h), [Auth!Me(h) EXCEPT !.at = at])
<1>1. Auth!Me(h) \in HandlerStates
  BY Here
<1> QED
  BY <1>1 DEF HandlerStates, Follows

LEMMA Refuses ==
  ASSUME Inv, NEW h \in Handlers
  PROVE  /\ Auth!Refused(Auth!Me(h)) \in HandlerStates /\ Auth!Refused(Auth!Me(h)).at = "forget"
         /\ Auth!Refused(Auth!Me(h)).had = Auth!Me(h).had /\ Follows(Auth!Me(h), Auth!Refused(Auth!Me(h)))
         /\ Auth!Refused(Auth!Me(h)).op = "refused" /\ Auth!Refused(Auth!Me(h)).token = Auth!Me(h).token
<1>1. Auth!Me(h) \in HandlerStates
  BY Here
<1> QED
  BY <1>1 DEF HandlerStates, Follows, Auth!Refused, Ops, Auth!Steps, Checks

-----------------------------------------------------------------------------
(* The steps of create.                                                    *)
LEMMA PersistKeeps ==
  ASSUME Auth!ConstantsOK, Inv, NEW h \in Handlers, Auth!Persist(h)
  PROVE  Inv'
<1> USE Here
<1>1. Auth!At(h, "persist") /\ Auth!Me(h).op = "login" /\ Auth!Me(h).token \in Tokens
  BY DEF Auth!Persist, Inv, RevokeInv, Shape, Auth!At
<1>2. CASE Auth!Fault
  <2>1. CASE Auth!Return(h)
    <3>1. \E gone \in SUBSET Tokens : rows' = Auth!Without(gone)
      BY <1>1, <1>2, <2>1 DEF Auth!Persist, Auth!Fault, Auth!Well, Inv, LocalTypes, Auth!TypeOK
    <3> QED
      BY <1>1, <1>2, <2>1, <3>1, QuietStep DEF Auth!Persist, Auth!Return, Auth!At
  <2>2. CASE ~Auth!Return(h)
    BY <1>2, <2>2 DEF Auth!Persist, Auth!Fault, Auth!Well, Inv, LocalTypes, Auth!TypeOK
  <2> QED
    BY <2>1, <2>2
<1>3. CASE ~Auth!Fault
  <2> DEFINE x == [Auth!Me(h) EXCEPT !.at = "remember"]
  <2>1. /\ Auth!Well /\ rows' = [Auth!Without(expired) EXCEPT ![Auth!Me(h).token] = Auth!Me(h).session]
        /\ Auth!Becomes(h, x)
    BY <1>3 DEF Auth!Persist, Auth!Goto
  <2>2. "remember" \in Auth!Steps \ {"idle", "persist", "load"}
    BY DEF Auth!Steps
  <2>3. /\ x \in HandlerStates /\ x.at = "remember" /\ x.had = Auth!Me(h).had /\ Follows(Auth!Me(h), x)
    BY <1>1, <2>2, Goes DEF Checks
  <2> HIDE DEF x
  <2>4. handler'[h] = x
    BY <2>1, <2>3, BecomesDoes DEF Inv
  <2>5. Grows(h)
    BY <1>1, <2>1 DEF Grows, Auth!Without, Auth!Persist, Auth!At, Auth!Sessions
  <2>6. Revokes(h)
    BY <2>3, <2>4 DEF Revokes, Auth!Persist
  <2> QED
    BY <1>1, <2>1, <2>3, <2>5, <2>6, LocalStep DEF Auth!Persist, Auth!At
<1> QED
  BY <1>2, <1>3

LEMMA RememberKeeps ==
  ASSUME Auth!ConstantsOK, Inv, NEW h \in Handlers, Auth!Remember(h)
  PROVE  Inv'
<1> USE Here
<1> DEFINE x == [Auth!Me(h) EXCEPT !.at = "readUser"]
<1>1. Auth!At(h, "remember") /\ Auth!Me(h).token \in Tokens /\ Auth!Becomes(h, x)
  BY DEF Auth!Remember, Auth!Goto, Inv, RevokeInv, Shape, Auth!At
<1>2. "readUser" \in Auth!Steps \ {"idle", "persist", "load"}
  BY DEF Auth!Steps
<1>3. /\ x \in HandlerStates /\ x.at = "readUser" /\ x.had = Auth!Me(h).had /\ Follows(Auth!Me(h), x)
  BY <1>1, <1>2, Goes DEF Checks
<1> HIDE DEF x
<1>4. handler'[h] = x
  BY <1>1, <1>3, BecomesDoes DEF Inv
<1>5. Grows(h)
  BY <1>1 DEF Grows, Auth!Remember, Auth!At
<1>6. Revokes(h)
  BY <1>3, <1>4 DEF Revokes, Auth!Remember
<1> QED
  BY <1>1, <1>3, <1>5, <1>6, LocalStep DEF Auth!Remember, Auth!At, Auth!Well

-----------------------------------------------------------------------------
(* The steps of authSession. *)
LEMMA LoadKeeps ==
  ASSUME Auth!ConstantsOK, Inv, NEW h \in Handlers, Auth!Load(h)
  PROVE  Inv'
<1> USE Here
<1> DEFINE t == Auth!Me(h).token
<1>1. Auth!At(h, "load") /\ t \in Tokens /\ ~Auth!At(h, "idle")
  BY DEF Auth!Load, Inv, RevokeInv, Shape, Auth!At, Checks, LocalTypes, Auth!TypeOK
<1>2. CASE Auth!Return(h)
  <2>1. handler'[h] = Auth!Idle
    BY <1>2, BecomesDoes DEF Inv, Auth!Return
  <2>2. rows' = rows \/ rows' = Auth!Without({t})
    <3>1. CASE Auth!Live(t) /\ Auth!Well /\ Auth!Becomes(h, [Auth!Me(h) EXCEPT !.at = "fill", !.session = rows[t]]) /\ UNCHANGED rows
      BY <3>1
    <3> QED
      BY <3>1 DEF Auth!Load
  <2>3. Grows(h)
    BY <2>1, <2>2 DEF Grows, Auth!Without, Auth!Load, Auth!Sessions
  <2>4. Revokes(h)
    BY <2>1 DEF Revokes, Auth!Load
  <2>5. Auth!Well \/ Auth!Fault
    BY DEF Auth!Load
  <2> QED
    BY <1>1, <1>2, <2>3, <2>4, <2>5, LocalStep DEF Auth!Load, Auth!Return
<1>3. CASE ~Auth!Return(h)
  <2> DEFINE x == [Auth!Me(h) EXCEPT !.at = "fill", !.session = rows[t]]
  <2>1. Auth!Live(t) /\ Auth!Well /\ Auth!Becomes(h, x) /\ rows' = rows
    BY <1>3 DEF Auth!Load
  <2>2. rows[t] \in Auth!Sessions
    BY <1>1
  <2>3. /\ x \in HandlerStates /\ x.at = "fill" /\ x.had = Auth!Me(h).had /\ Follows(Auth!Me(h), x)
    BY <1>1, <2>2 DEF HandlerStates, Auth!Steps, Checks, Follows, Auth!At
  <2> HIDE DEF x
  <2>4. handler'[h] = x
    BY <2>1, <2>3, BecomesDoes DEF Inv
  <2>5. Grows(h)
    BY <2>1 DEF Grows, Auth!Live, Auth!Load
  <2>6. Revokes(h)
    BY <2>3, <2>4 DEF Revokes, Auth!Load
  <2> QED
    BY <1>1, <2>1, <2>3, <2>5, <2>6, LocalStep DEF Auth!Load
<1> QED
  BY <1>2, <1>3

LEMMA FillKeeps ==
  ASSUME Auth!ConstantsOK, Inv, NEW h \in Handlers, Auth!Fill(h)
  PROVE  Inv'
<1> USE Here
<1> DEFINE x == [Auth!Me(h) EXCEPT !.at = "check"]
<1>1. Auth!At(h, "fill") /\ Auth!Becomes(h, x) /\ ~Auth!At(h, "idle")
  BY DEF Auth!Fill, Auth!Goto, Auth!At
<1>2. "check" \in Auth!Steps \ {"idle", "persist", "load"}
  BY DEF Auth!Steps
<1>3. /\ x \in HandlerStates /\ x.at = "check" /\ x.had = Auth!Me(h).had /\ Follows(Auth!Me(h), x)
  BY <1>1, <1>2, Goes DEF Checks, Auth!At
<1> HIDE DEF x
<1>4. handler'[h] = x
  BY <1>1, <1>3, BecomesDoes DEF Inv
<1>5. Grows(h)
  BY <1>1 DEF Grows, Auth!Fill, Auth!At
<1>6. Revokes(h)
  BY <1>3, <1>4 DEF Revokes, Auth!Fill
<1> QED
  BY <1>1, <1>3, <1>5, <1>6, LocalStep DEF Auth!Fill, Auth!Well

LEMMA CheckKeeps ==
  ASSUME Auth!ConstantsOK, Inv, NEW h \in Handlers, Auth!Check(h)
  PROVE  Inv'
<1> USE Here
<1>1. Auth!At(h, "check") /\ ~Auth!At(h, "idle") /\ ~Auth!At(h, "load")
  BY DEF Auth!Check, Auth!At
<1>2. Auth!RoleNow(user) \subseteq Auth!Me(h).had
  BY <1>1 DEF Inv, RoleInv
<1>3. /\ UNCHANGED <<cache, expired, user, drawn, given, started, revoked, excused>> /\ rows' = rows
      /\ Auth!Well \/ Auth!Fault
  BY DEF Auth!Check, Auth!sessions
<1>4. CASE Auth!Becomes(h, Auth!Refused(Auth!Me(h)))
  BY <1>1, <1>3, <1>4, Refuses, QuietStep
<1>5. CASE Auth!Goto(h, "serve") /\ Auth!RoleNow(user) = {Auth!Me(h).session}
  <2> DEFINE x == [Auth!Me(h) EXCEPT !.at = "serve"]
  <2>1. "serve" \in Auth!Steps \ {"idle", "persist", "load"}
    BY DEF Auth!Steps
  <2>2. /\ x \in HandlerStates /\ x.at = "serve" /\ x.had = Auth!Me(h).had /\ Follows(Auth!Me(h), x)
        /\ x.session = Auth!Me(h).session
    BY <1>1, <2>1, Goes DEF Checks, Auth!At
  <2>3. Auth!Becomes(h, x)
    BY <1>5 DEF Auth!Goto
  <2> HIDE DEF x
  <2> QED
    BY <1>1, <1>2, <1>3, <1>5, <2>2, <2>3, QuietStep
<1>6. CASE /\ Auth!RoleNow(user) # {}
           /\ Auth!Becomes(h, [Auth!Me(h) EXCEPT !.at = "persistRole", !.session = user.role])
  <2> DEFINE x == [Auth!Me(h) EXCEPT !.at = "persistRole", !.session = user.role]
  <2>1. user.role \in Auth!Sessions /\ user.role \in Auth!Me(h).had
    BY <1>2, <1>6 DEF Auth!RoleNow, Auth!Users, Auth!Sessions
  <2>2. /\ x \in HandlerStates /\ x.at = "persistRole" /\ x.had = Auth!Me(h).had /\ Follows(Auth!Me(h), x)
        /\ x.session = user.role
    BY <1>1, <2>1 DEF HandlerStates, Auth!Steps, Checks, Follows, Auth!At
  <2>3. Auth!Becomes(h, x)
    BY <1>6
  <2> HIDE DEF x
  <2> QED
    BY <1>1, <1>3, <2>1, <2>2, <2>3, QuietStep
<1>7. CASE Auth!Becomes(h, [Auth!Me(h) EXCEPT !.at = "serve", !.blind = TRUE])
  <2> DEFINE x == [Auth!Me(h) EXCEPT !.at = "serve", !.blind = TRUE]
  <2>1. /\ x \in HandlerStates /\ x.at = "serve" /\ x.had = Auth!Me(h).had /\ Follows(Auth!Me(h), x)
        /\ x.blind
    BY <1>1 DEF HandlerStates, Auth!Steps, Checks, Follows, Auth!At
  <2>2. Auth!Becomes(h, x)
    BY <1>7
  <2> HIDE DEF x
  <2> QED
    BY <1>1, <1>3, <2>1, <2>2, QuietStep
<1> QED
  BY <1>4, <1>5, <1>6, <1>7 DEF Auth!Check

LEMMA PersistRoleKeeps ==
  ASSUME Auth!ConstantsOK, Inv, NEW h \in Handlers, Auth!PersistRole(h)
  PROVE  Inv'
<1> USE Here
<1> DEFINE t == Auth!Me(h).token
<1>1. Auth!At(h, "persistRole") /\ ~Auth!At(h, "idle") /\ ~Auth!At(h, "load")
  BY DEF Auth!PersistRole, Auth!At
<1>2. CASE Auth!Fault /\ cache' = [cache EXCEPT ![t] = "none"] /\ Auth!Return(h) /\ UNCHANGED rows
  <2>1. handler'[h] = Auth!Idle
    BY <1>2, BecomesDoes DEF Inv, Auth!Return
  <2>2. Grows(h)
    BY <1>1, <1>2 DEF Grows, Auth!Sessions
  <2>3. Revokes(h)
    BY <2>1 DEF Revokes, Auth!PersistRole
  <2> QED
    BY <1>1, <1>2, <2>2, <2>3, LocalStep DEF Auth!PersistRole, Auth!Return
<1>3. CASE Auth!Well /\ rows' = [rows EXCEPT ![t] = Auth!Me(h).session] /\ Auth!Goto(h, "rememberRole") /\ UNCHANGED cache
  <2> DEFINE x == [Auth!Me(h) EXCEPT !.at = "rememberRole"]
  <2>1. "rememberRole" \in Auth!Steps \ {"idle", "persist", "load"}
    BY DEF Auth!Steps
  <2>2. /\ x \in HandlerStates /\ x.at = "rememberRole" /\ x.had = Auth!Me(h).had /\ Follows(Auth!Me(h), x)
        /\ x.session = Auth!Me(h).session /\ x.blind = Auth!Me(h).blind
    BY <1>1, <2>1, Goes DEF Checks, Auth!At
  <2>3. Auth!Becomes(h, x)
    BY <1>3 DEF Auth!Goto
  <2> HIDE DEF x
  <2>4. handler'[h] = x
    BY <2>2, <2>3, BecomesDoes DEF Inv
  <2>5. Auth!Me(h).session \in Auth!Me(h).had \/ Auth!Me(h).blind
    BY <1>1 DEF Inv, RoleInv, Auth!At
  <2>6. Grows(h)
    BY <1>1, <1>3 DEF Grows
  <2>7. Revokes(h)
    BY <2>2, <2>4 DEF Revokes, Auth!PersistRole
  <2> QED
    BY <1>1, <1>3, <2>2, <2>3, <2>5, <2>6, <2>7, LocalStep DEF Auth!PersistRole
<1> QED
  BY <1>2, <1>3 DEF Auth!PersistRole

LEMMA RememberRoleKeeps ==
  ASSUME Auth!ConstantsOK, Inv, NEW h \in Handlers, Auth!RememberRole(h)
  PROVE  Inv'
<1> USE Here
<1> DEFINE x == [Auth!Me(h) EXCEPT !.at = "serve"]
<1>1. Auth!At(h, "rememberRole") /\ Auth!Becomes(h, x) /\ ~Auth!At(h, "idle") /\ ~Auth!At(h, "load")
  BY DEF Auth!RememberRole, Auth!Goto, Auth!At
<1>2. "serve" \in Auth!Steps \ {"idle", "persist", "load"}
  BY DEF Auth!Steps
<1>3. /\ x \in HandlerStates /\ x.at = "serve" /\ x.had = Auth!Me(h).had /\ Follows(Auth!Me(h), x)
      /\ x.session = Auth!Me(h).session /\ x.blind = Auth!Me(h).blind
  BY <1>1, <1>2, Goes DEF Checks, Auth!At
<1> HIDE DEF x
<1>4. handler'[h] = x
  BY <1>1, <1>3, BecomesDoes DEF Inv
<1>5. Auth!Me(h).session \in Auth!Me(h).had \/ Auth!Me(h).blind
  BY <1>1 DEF Inv, RoleInv, Auth!At
<1>6. Grows(h)
  BY <1>1 DEF Grows, Auth!RememberRole
<1>7. Revokes(h)
  BY <1>3, <1>4 DEF Revokes, Auth!RememberRole
<1> QED
  BY <1>1, <1>3, <1>5, <1>6, <1>7, LocalStep DEF Auth!RememberRole, Auth!Well

LEMMA ServeKeeps ==
  ASSUME Auth!ConstantsOK, Inv, NEW h \in Handlers, Auth!Serve(h)
  PROVE  Inv'
<1> USE Here
<1>1. Auth!At(h, "serve") /\ ~Auth!At(h, "idle") /\ ~Auth!At(h, "load")
  BY DEF Auth!Serve, Auth!At
<1>2. Auth!Me(h).op \in {"me", "logout", "password"}
  BY <1>1 DEF Inv, RevokeInv, Shape, Checks, Auth!At
<1>3. /\ UNCHANGED <<cache, expired, user, drawn, given, started, revoked, excused>> /\ rows' = rows
      /\ Auth!Well
  BY DEF Auth!Serve, Auth!sessions, Auth!Well
<1>4. CASE Auth!Return(h)
  BY <1>1, <1>3, <1>4, QuietStep DEF Auth!Return
<1>5. ASSUME NEW at \in {"others", "list"}, Auth!Goto(h, at), at = "list" => Auth!Me(h).op = "password"
      PROVE  Inv'
  <2> DEFINE x == [Auth!Me(h) EXCEPT !.at = at]
  <2>1. at \in Auth!Steps \ {"idle", "persist", "load"}
    BY DEF Auth!Steps
  <2>2. /\ x \in HandlerStates /\ x.at = at /\ x.had = Auth!Me(h).had /\ Follows(Auth!Me(h), x)
    BY <1>1, <1>5, <2>1, Goes DEF Checks, Auth!At
  <2>3. Auth!Becomes(h, x)
    BY <1>5 DEF Auth!Goto
  <2> HIDE DEF x
  <2> QED
    BY <1>1, <1>3, <2>2, <2>3, QuietStep
<1> QED
  BY <1>2, <1>4, <1>5 DEF Auth!Serve

-----------------------------------------------------------------------------
(* The steps of revokeAuthSession and delete, and of the user's record.    *)
LEMMA OthersKeeps ==
  ASSUME Auth!ConstantsOK, Inv, NEW h \in Handlers, Auth!Others(h)
  PROVE  Inv'
<1> USE Here
<1>1. Auth!At(h, "others") /\ ~Auth!At(h, "idle") /\ ~Auth!At(h, "load")
  BY DEF Auth!Others, Auth!At
<1> DEFINE next(found) == [Auth!Me(h) EXCEPT !.other = found, !.at = IF found THEN "forget" ELSE "readUser"]
<1>2. PICK found \in BOOLEAN : Auth!Becomes(h, next(found))
  BY DEF Auth!Others
<1>3. /\ next(found) \in HandlerStates /\ next(found).at \in {"forget", "readUser"}
      /\ next(found).had = Auth!Me(h).had /\ Follows(Auth!Me(h), next(found))
  BY <1>1 DEF HandlerStates, Auth!Steps, Checks, Follows, Auth!At
<1>4. rows' = rows \/ \E gone \in SUBSET Tokens : rows' = Auth!Without(gone)
  BY DEF Auth!Others
<1>5. /\ UNCHANGED <<cache, expired, user, drawn, given, started, revoked>>
      /\ Auth!Well \/ Auth!Fault
      /\ excused' \in BOOLEAN
  BY DEF Auth!Others
<1> HIDE DEF next
<1> QED
  BY <1>1, <1>2, <1>3, <1>4, <1>5, QuietStep

(* A login that could not be recorded is refused, others just end. *)
LEMMA UnrecordedKeeps ==
  ASSUME Auth!ConstantsOK, Inv, NEW h \in Handlers, Auth!Unrecorded(h), ~Auth!At(h, "idle"), ~Auth!At(h, "load"),
         UNCHANGED <<cache, expired, user, drawn, given, started, revoked, rows>>,
         Auth!Well \/ Auth!Fault, excused' \in BOOLEAN
  PROVE  Inv'
<1> USE Here
<1>1. CASE Auth!Becomes(h, Auth!Refused(Auth!Me(h)))
  BY <1>1, Refuses, QuietStep
<1>2. CASE Auth!Return(h)
  BY <1>2, QuietStep DEF Auth!Return
<1> QED
  BY <1>1, <1>2 DEF Auth!Unrecorded

LEMMA ReadUserKeeps ==
  ASSUME Auth!ConstantsOK, Inv, NEW h \in Handlers, Auth!ReadUser(h)
  PROVE  Inv'
<1> USE Here
<1>1. Auth!At(h, "readUser") /\ ~Auth!At(h, "idle") /\ ~Auth!At(h, "load")
  BY DEF Auth!ReadUser, Auth!At
<1>2. /\ UNCHANGED <<cache, expired, user, drawn, given, started, revoked, rows>>
      /\ Auth!Well \/ Auth!Fault
  BY DEF Auth!ReadUser, Auth!sessions
<1>3. excused' \in BOOLEAN
  BY DEF Auth!ReadUser
<1>4. CASE Auth!Unrecorded(h)
  BY <1>1, <1>2, <1>3, <1>4, UnrecordedKeeps
<1>5. CASE Auth!Becomes(h, [Auth!Me(h) EXCEPT !.at = "saveUser", !.copy = user])
  <2> DEFINE x == [Auth!Me(h) EXCEPT !.at = "saveUser", !.copy = user]
  <2>1. /\ x \in HandlerStates /\ x.at = "saveUser" /\ x.had = Auth!Me(h).had /\ Follows(Auth!Me(h), x)
    BY <1>1 DEF HandlerStates, Auth!Steps, Checks, Follows, Auth!At
  <2>2. Auth!Becomes(h, x)
    BY <1>5
  <2> HIDE DEF x
  <2> QED
    BY <1>1, <1>2, <1>3, <2>1, <2>2, QuietStep
<1> QED
  BY <1>4, <1>5 DEF Auth!ReadUser

(* The user's record is saved. *)
LEMMA SaveKeeps ==
  ASSUME Auth!ConstantsOK, Inv, NEW h \in Handlers, NEW u \in Auth!Users, NEW x \in HandlerStates,
         Auth!SaveUser(h, u, x), Auth!At(h, "saveUser"), Follows(Auth!Me(h), x),
         x = Auth!Idle \/ (x.at = "forget" /\ x.had = Auth!Me(h).had),
         given' = given \/ (Auth!Me(h).op = "login" /\ x = Auth!Idle /\ given' = given \cup {Auth!Me(h).token}),
         UNCHANGED <<cache, rows, expired, drawn, started, faults, revoked, excused>>
  PROVE  Inv'
<1> USE Here
<1>1. /\ user' = u /\ handler' \in [Handlers -> HandlerStates]
      /\ Like(handler'[h], x)
      /\ \A g \in Handlers \ {h} : Like(handler'[g], handler[g])
      /\ \A g \in Handlers \ {h} :
           handler[g] # Auth!Idle => handler'[g].had = handler[g].had \cup Auth!RoleNow(u)
      /\ x # Auth!Idle => handler'[h].had = x.had \cup Auth!RoleNow(u)
  BY SaveUserDoes DEF Inv
<1>2. Follows(Auth!Me(h), handler'[h]) /\ (x = Auth!Idle => handler'[h] = Auth!Idle) /\ handler'[h].at = x.at
  BY <1>1 DEF Follows, Like
<1>3. Grows(h)
  BY DEF Grows, Auth!At
<1>4. x.at \in {"idle", "forget"}
  OBVIOUS
<1>5. Revokes(h)
  BY <1>2, <1>4 DEF Revokes
<1>6. Leaves(h)
  <2>1. faults' \in 0 .. MaxFaults
    BY DEF Inv, LocalTypes, Auth!TypeOK
  <2> QED
    BY <1>1, <1>2, <2>1 DEF Leaves, Auth!At
<1>7. Knows(h)
  <2>1. ASSUME NEW g \in Handlers, handler'[g] # Auth!Idle
        PROVE  Auth!RoleNow(u) \subseteq handler'[g].had
    <3>1. CASE g = h
      BY <1>1, <1>2, <2>1, <3>1
    <3>2. CASE g # h
      <4>1. handler[g] # Auth!Idle
        BY <1>1, <2>1, <3>2 DEF Like
      <4> QED
        BY <1>1, <3>2, <4>1
    <3> QED
      BY <3>1, <3>2
  <2>2. ASSUME NEW g \in Handlers \ {h}
        PROVE  handler[g].had \subseteq handler'[g].had
    <3>1. CASE handler[g] = Auth!Idle
      BY <1>1, <3>1 DEF Like
    <3>2. CASE handler[g] # Auth!Idle
      BY <1>1, <3>2
    <3> QED
      BY <3>1, <3>2
  <2> QED
    BY <1>1, <1>2, <1>4, <2>1, <2>2 DEF Knows
<1> QED
  BY <1>2, <1>3, <1>5, <1>6, <1>7, StepKeeps DEF StepDoes

LEMMA WriteUserKeeps ==
  ASSUME Auth!ConstantsOK, Inv, NEW h \in Handlers, Auth!WriteUser(h)
  PROVE  Inv'
<1> USE Here
<1> DEFINE copy == Auth!Me(h).copy
<1>1. Auth!At(h, "saveUser") /\ ~Auth!At(h, "idle") /\ ~Auth!At(h, "load")
  BY DEF Auth!WriteUser, Auth!At
<1>2. copy \in Auth!Users
  BY DEF HandlerStates
<1>3. /\ [copy EXCEPT !.online = TRUE] \in Auth!Users /\ [copy EXCEPT !.online = FALSE] \in Auth!Users
      /\ \A role \in Roles, enabled \in BOOLEAN :
           [copy EXCEPT !.role = role, !.enabled = enabled] \in Auth!Users
  BY <1>2 DEF Auth!Users
<1>4. UNCHANGED <<cache, rows, expired, drawn, started, revoked>>
  BY DEF Auth!WriteUser, Auth!sessions
<1>5. CASE /\ Auth!Fault /\ Auth!Unrecorded(h) /\ excused' = (excused \/ Auth!Me(h).op = "rollback")
           /\ UNCHANGED <<user, given>>
  <2>1. excused' \in BOOLEAN
    BY <1>5
  <2> QED
    BY <1>1, <1>4, <1>5, <2>1, UnrecordedKeeps
<1>6. ASSUME Auth!Well, UNCHANGED excused, NEW u \in Auth!Users, Auth!SaveUser(h, u, Auth!Idle),
             given' = given \/ (Auth!Me(h).op = "login" /\ given' = given \cup {Auth!Me(h).token})
      PROVE  Inv'
  <2>1. Auth!Idle = Auth!Idle \/ (Auth!Idle.at = "forget" /\ Auth!Idle.had = Auth!Me(h).had)
    OBVIOUS
  <2>2. given' = given \/ (Auth!Me(h).op = "login" /\ Auth!Idle = Auth!Idle /\ given' = given \cup {Auth!Me(h).token})
    BY <1>6
  <2> QED
    BY <1>1, <1>4, <1>6, <2>1, <2>2, SaveKeeps DEF Auth!Well
<1>7. ASSUME Auth!Well, UNCHANGED <<excused, given>>,
             Auth!SaveUser(h, [copy EXCEPT !.online = FALSE], [Auth!Me(h) EXCEPT !.at = "forget"])
      PROVE  Inv'
  <2> DEFINE x == [Auth!Me(h) EXCEPT !.at = "forget"]
             u == [copy EXCEPT !.online = FALSE]
  <2>1. "forget" \in Auth!Steps \ {"idle", "persist", "load"}
    BY DEF Auth!Steps
  <2>2. /\ x \in HandlerStates /\ x.at = "forget" /\ x.had = Auth!Me(h).had /\ Follows(Auth!Me(h), x)
    BY <1>1, <2>1, Goes DEF Checks
  <2>3. u \in Auth!Users /\ Auth!SaveUser(h, u, x)
    BY <1>3, <1>7
  <2> HIDE DEF x, u
  <2> QED
    BY <1>1, <1>4, <1>7, <2>2, <2>3, SaveKeeps DEF Auth!Well
<1>8. CASE /\ Auth!Well /\ UNCHANGED excused /\ Auth!Me(h).op = "login"
           /\ Auth!SaveUser(h, [copy EXCEPT !.online = TRUE], Auth!Idle)
           /\ given' = given \cup {Auth!Me(h).token}
  BY <1>3, <1>6, <1>8
<1>9. CASE /\ Auth!Well /\ UNCHANGED excused /\ UNCHANGED given
           /\ Auth!SaveUser(h, [copy EXCEPT !.online = FALSE], [Auth!Me(h) EXCEPT !.at = "forget"])
  BY <1>7, <1>9
<1>10. CASE /\ Auth!Well /\ UNCHANGED excused /\ UNCHANGED given
            /\ Auth!SaveUser(h, [copy EXCEPT !.online = TRUE], Auth!Idle)
  BY <1>3, <1>6, <1>10
<1>11. CASE /\ Auth!Well /\ UNCHANGED excused /\ UNCHANGED given
            /\ \E role \in Roles, enabled \in BOOLEAN :
                 Auth!SaveUser(h, [copy EXCEPT !.role = role, !.enabled = enabled], Auth!Idle)
  <2>1. PICK role \in Roles, enabled \in BOOLEAN :
          Auth!SaveUser(h, [copy EXCEPT !.role = role, !.enabled = enabled], Auth!Idle)
    BY <1>11
  <2> QED
    BY <1>3, <1>6, <1>11, <2>1
<1> QED
  BY <1>5, <1>8, <1>9, <1>10, <1>11 DEF Auth!WriteUser

LEMMA ForgetKeeps ==
  ASSUME Auth!ConstantsOK, Inv, NEW h \in Handlers, Auth!Forget(h)
  PROVE  Inv'
<1> USE Here
<1> DEFINE x == [Auth!Me(h) EXCEPT !.at = "dropRow"]
<1>1. Auth!At(h, "forget") /\ Auth!Becomes(h, x) /\ ~Auth!At(h, "idle") /\ ~Auth!At(h, "load")
  BY DEF Auth!Forget, Auth!Goto, Auth!At
<1>2. "dropRow" \in Auth!Steps \ {"idle", "persist", "load"}
  BY DEF Auth!Steps
<1>3. /\ x \in HandlerStates /\ x.at = "dropRow" /\ x.had = Auth!Me(h).had /\ Follows(Auth!Me(h), x)
      /\ x.token = Auth!Me(h).token /\ x.op = Auth!Me(h).op
  BY <1>1, <1>2, Goes DEF Checks
<1> HIDE DEF x
<1>4. handler'[h] = x
  BY <1>1, <1>3, BecomesDoes DEF Inv
<1>5. Grows(h)
  BY <1>1 DEF Grows, Auth!Forget, Auth!Sessions
<1>6. Auth!Me(h).op = "logout" => Auth!Me(h).token \in Tokens
  BY DEF Inv, RevokeInv, Shape, LocalTypes, Auth!TypeOK
<1>7. Revokes(h)
  BY <1>3, <1>4, <1>6 DEF Revokes, Auth!Forget
<1> QED
  BY <1>1, <1>3, <1>5, <1>7, LocalStep DEF Auth!Forget, Auth!Well

LEMMA DropRowKeeps ==
  ASSUME Auth!ConstantsOK, Inv, NEW h \in Handlers, Auth!DropRow(h)
  PROVE  Inv'
<1> USE Here
<1>1. Auth!At(h, "dropRow") /\ ~Auth!At(h, "idle") /\ ~Auth!At(h, "load")
  BY DEF Auth!DropRow, Auth!At
<1>2. UNCHANGED <<cache, expired, user, drawn, given, started>>
  BY DEF Auth!DropRow
<1>3. rows' = rows \/ rows' = Auth!Without({Auth!Me(h).token})
  BY DEF Auth!DropRow
<1>4. Grows(h)
  BY <1>1, <1>2, <1>3 DEF Grows, Auth!Without, Auth!Sessions
<1>5. CASE /\ Auth!Well /\ rows' = Auth!Without({Auth!Me(h).token}) /\ Auth!Return(h) /\ UNCHANGED excused
           /\ revoked' = IF Auth!Me(h).op = "logout" /\ Auth!Me(h).alone THEN revoked \cup Auth!Me(h).ends ELSE revoked
  <2>1. handler'[h] = Auth!Idle
    BY <1>5, BecomesDoes DEF Inv, Auth!Return
  <2>2. Auth!Me(h).op = "logout" => Auth!Me(h).ends = {Auth!Me(h).token} /\ Auth!Me(h).token \in Tokens
    BY DEF Inv, RevokeInv, Shape, LocalTypes, Auth!TypeOK
  <2>3. Auth!Me(h).op = "logout" /\ Auth!Me(h).alone => cache[Auth!Me(h).token] = "none"
    BY <1>1 DEF Inv, RevokeInv, EndsInOrder
  <2>4. Auth!Me(h).op = "logout" => rows'[Auth!Me(h).token] = "none"
    BY <1>5, <2>2 DEF Auth!Without
  <2>5. Revokes(h)
    BY <1>2, <1>5, <2>1, <2>2, <2>3, <2>4 DEF Revokes
  <2> QED
    BY <1>1, <1>2, <1>4, <1>5, <2>5, LocalStep DEF Auth!Return
<1>6. CASE Auth!Fault /\ UNCHANGED revoked /\ excused' = (excused \/ Auth!Me(h).op = "refused")
  <2>1. excused' \in BOOLEAN
    BY <1>6
  <2>2. CASE Auth!Return(h)
    <3>1. handler'[h] = Auth!Idle
      BY <2>2, BecomesDoes DEF Inv, Auth!Return
    <3>2. Revokes(h)
      BY <1>6, <3>1 DEF Revokes
    <3> QED
      BY <1>1, <1>2, <1>4, <1>6, <2>1, <2>2, <3>2, LocalStep DEF Auth!Return
  <2>3. CASE Auth!Becomes(h, [Auth!Me(h) EXCEPT !.op = "rollback", !.at = "readUser"])
    <3> DEFINE x == [Auth!Me(h) EXCEPT !.op = "rollback", !.at = "readUser"]
    <3>1. /\ x \in HandlerStates /\ x.at = "readUser" /\ x.had = Auth!Me(h).had /\ Follows(Auth!Me(h), x)
      BY <1>1 DEF HandlerStates, Auth!Steps, Checks, Follows, Auth!At, Ops
    <3>2. Auth!Becomes(h, x)
      BY <2>3
    <3> HIDE DEF x
    <3>3. handler'[h] = x
      BY <3>1, <3>2, BecomesDoes DEF Inv
    <3>4. Revokes(h)
      BY <1>6, <3>1, <3>3 DEF Revokes
    <3> QED
      BY <1>1, <1>2, <1>4, <1>6, <2>1, <3>1, <3>2, <3>4, LocalStep
  <2>4. CASE ~Auth!Return(h) /\ ~Auth!Becomes(h, [Auth!Me(h) EXCEPT !.op = "rollback", !.at = "readUser"])
    BY <2>4 DEF Auth!DropRow
  <2> QED
    BY <2>2, <2>3, <2>4
<1> QED
  BY <1>5, <1>6 DEF Auth!DropRow

-----------------------------------------------------------------------------
(* The steps of deleteUserSessionsExcept.                                  *)
LEMMA ListKeeps ==
  ASSUME Auth!ConstantsOK, Inv, NEW h \in Handlers, Auth!List(h)
  PROVE  Inv'
<1> USE Here
<1>1. Auth!At(h, "list") /\ ~Auth!At(h, "idle") /\ ~Auth!At(h, "load")
  BY DEF Auth!List, Auth!At
<1>2. /\ UNCHANGED <<cache, rows, expired, user, drawn, given, started, revoked, excused>>
      /\ Auth!Well \/ Auth!Fault
  BY DEF Auth!List, Auth!sessions
<1>3. CASE Auth!Return(h)
  BY <1>1, <1>2, <1>3, QuietStep DEF Auth!Return
<1>4. CASE ~Auth!Return(h)
  <2> DEFINE left == {t \in Tokens \ {Auth!Me(h).token} : rows[t] # "none"}
             x == [Auth!Me(h) EXCEPT !.at = "dropRows", !.left = left]
  <2>1. Auth!Becomes(h, x)
    BY <1>4 DEF Auth!List
  <2>2. /\ Auth!Me(h).op = "password" /\ Auth!Me(h).token \notin Auth!Me(h).ends
        /\ Auth!Me(h).ends \subseteq Tokens
    BY <1>1 DEF Inv, RevokeInv, Shape, Auth!At, LocalTypes, Auth!TypeOK
  <2>3. /\ x \in HandlerStates /\ x.at = "dropRows" /\ x.had = Auth!Me(h).had
        /\ x.ends = Auth!Me(h).ends /\ x.left = left
    BY DEF HandlerStates, Auth!Steps
  <2>4. Follows(Auth!Me(h), x)
    BY <1>1, <2>2 DEF HandlerStates, Auth!Steps, Checks, Follows
  <2> HIDE DEF x
  <2>5. handler'[h] = x
    BY <2>1, <2>3, BecomesDoes DEF Inv
  <2>6. \A t \in x.ends : rows'[t] # "none" => t \in x.left
    BY <1>2, <2>2, <2>3
  <2>7. Grows(h)
    BY <1>1, <1>2 DEF Grows
  <2>8. Revokes(h)
    BY <1>2, <2>3, <2>5, <2>6 DEF Revokes
  <2> QED
    BY <1>1, <1>2, <2>1, <2>3, <2>4, <2>7, <2>8, LocalStep
<1> QED
  BY <1>3, <1>4

LEMMA DropOtherKeeps ==
  ASSUME Auth!ConstantsOK, Inv, NEW h \in Handlers, Auth!DropOther(h)
  PROVE  Inv'
<1> USE Here
<1>1. Auth!At(h, "dropRows") /\ ~Auth!At(h, "idle") /\ ~Auth!At(h, "load") /\ Auth!Me(h).op = "password"
  BY DEF Auth!DropOther, Auth!At, Inv, RevokeInv, Shape
<1>2. /\ UNCHANGED <<cache, expired, user, drawn, given, started, revoked, excused>>
      /\ Auth!Well \/ Auth!Fault
  BY DEF Auth!DropOther
<1>3. PICK t \in Auth!Me(h).left :
        \/ Auth!Well /\ rows' = Auth!Without({t}) /\ Auth!Becomes(h, [Auth!Me(h) EXCEPT !.left = @ \ {t}])
        \/ Auth!Fault /\ rows' \in {rows, Auth!Without({t})} /\ Auth!Return(h)
  BY DEF Auth!DropOther
<1>4. Grows(h)
  BY <1>1, <1>2, <1>3 DEF Grows, Auth!Without, Auth!Sessions
<1>5. CASE Auth!Return(h)
  <2>1. handler'[h] = Auth!Idle
    BY <1>5, BecomesDoes DEF Inv, Auth!Return
  <2>2. Revokes(h)
    BY <1>2, <2>1 DEF Revokes
  <2> QED
    BY <1>1, <1>2, <1>4, <1>5, <2>2, LocalStep DEF Auth!Return
<1>6. CASE Auth!Well /\ rows' = Auth!Without({t}) /\ Auth!Becomes(h, [Auth!Me(h) EXCEPT !.left = @ \ {t}])
  <2> DEFINE x == [Auth!Me(h) EXCEPT !.left = @ \ {t}]
  <2>1. Auth!Becomes(h, x)
    BY <1>6
  <2>2. /\ x \in HandlerStates /\ x.at = "dropRows" /\ x.had = Auth!Me(h).had
        /\ x.ends = Auth!Me(h).ends /\ x.left = Auth!Me(h).left \ {t} /\ x.alone = Auth!Me(h).alone
        /\ Auth!Me(h).ends \subseteq Tokens
    BY <1>1 DEF HandlerStates, Auth!At
  <2>3. Follows(Auth!Me(h), x)
    BY <1>1 DEF HandlerStates, Auth!Steps, Checks, Follows, Auth!At
  <2> HIDE DEF x
  <2>4. handler'[h] = x
    BY <2>1, <2>2, BecomesDoes DEF Inv
  <2>5. Auth!Me(h).alone => \A s \in Auth!Me(h).ends : rows[s] # "none" => s \in Auth!Me(h).left
    BY <1>1 DEF Inv, RevokeInv, EndsInOrder
  <2>6. x.alone => \A s \in x.ends : rows'[s] # "none" => s \in x.left
    BY <1>6, <2>2, <2>5 DEF Auth!Without
  <2>7. Revokes(h)
    BY <1>2, <2>2, <2>4, <2>6 DEF Revokes
  <2> QED
    BY <1>1, <1>2, <1>4, <2>1, <2>2, <2>3, <2>7, LocalStep
<1> QED
  BY <1>3, <1>5, <1>6

LEMMA ForgetOthersKeeps ==
  ASSUME Auth!ConstantsOK, Inv, NEW h \in Handlers, Auth!ForgetOthers(h)
  PROVE  Inv'
<1> USE Here
<1>1. /\ Auth!At(h, "dropRows") /\ ~Auth!At(h, "idle") /\ ~Auth!At(h, "load") /\ Auth!Me(h).op = "password"
      /\ Auth!Me(h).token \notin Auth!Me(h).ends /\ Auth!Me(h).ends \subseteq Tokens
  BY DEF Auth!ForgetOthers, Auth!At, Inv, RevokeInv, Shape, LocalTypes, Auth!TypeOK
<1>2. /\ UNCHANGED <<rows, expired, user, drawn, given, started, faults, excused>>
      /\ Auth!Me(h).left = {} /\ Auth!Return(h)
      /\ cache' = [t \in Tokens |-> IF t = Auth!Me(h).token THEN cache[t] ELSE "none"]
      /\ revoked' = IF Auth!Me(h).alone THEN revoked \cup Auth!Me(h).ends ELSE revoked
  BY DEF Auth!ForgetOthers
<1>3. handler'[h] = Auth!Idle
  BY <1>2, BecomesDoes DEF Inv, Auth!Return
<1>4. Grows(h)
  BY <1>1, <1>2 DEF Grows, Auth!Sessions
<1>5. Auth!Me(h).alone => \A t \in Auth!Me(h).ends : rows[t] = "none"
  BY <1>1, <1>2 DEF Inv, RevokeInv, EndsInOrder
<1>6. \A t \in Auth!Me(h).ends : cache'[t] = "none"
  BY <1>1, <1>2
<1>7. Revokes(h)
  BY <1>1, <1>2, <1>3, <1>5, <1>6 DEF Revokes
<1> QED
  BY <1>1, <1>2, <1>4, <1>7, LocalStep DEF Auth!Return, Auth!Well

-----------------------------------------------------------------------------
(* A request arrives with a local state that looks like this. *)
Arrives(first) ==
  /\ first.at \in {"persist", "load", "check", "forget", "readUser"}
  /\ first.at = "persist" => first.op = "login"
  /\ first.at \in Checks => first.op \in {"me", "logout", "password"} /\ first.token \in given
  /\ first.op = "login" => first.token \in drawn' \ drawn
  /\ first.op = "logout" => first.ends = {first.token}
  /\ first.op = "password" => first.token \notin first.ends
  /\ first.ends \subseteq given
  /\ first.token \in revoked => first.at = "load"

LEMMA ArriveKeeps ==
  ASSUME Auth!ConstantsOK, Inv, NEW h \in Handlers, NEW first \in HandlerStates,
         Arrives(first), Auth!Arrive(h, first), drawn \subseteq drawn', drawn' \subseteq Tokens
  PROVE  Inv'
<1> USE Here
<1>1. /\ LocalTypes /\ Shape /\ DrawnOnce /\ AloneIsTrue /\ DeadStays /\ EndsInOrder /\ RoleInv
  BY DEF Inv, RevokeInv
<1>2. /\ UNCHANGED <<cache, rows, expired, user, given, faults, revoked>>
      /\ started < MaxRequests /\ started' = started + 1
      /\ handler[h] = Auth!Idle
  BY <1>1 DEF Auth!Arrive, Auth!sessions, Shape, Auth!At, Auth!Me
<1>3. excused' \in BOOLEAN
  BY DEF Auth!Arrive
<1> DEFINE alone == \A b \in Auth!Busy : Auth!Me(b).token \notin first.ends
           y == [first EXCEPT !.had = Auth!RoleNow(user), !.alone = alone]
           z(g) == [Auth!Me(g) EXCEPT !.alone = @ /\ first.token \notin Auth!Me(g).ends]
<1>4. handler' = [g \in Handlers |-> IF g = h THEN y ELSE IF Auth!Me(g) = Auth!Idle THEN Auth!Idle ELSE z(g)]
  BY DEF Auth!Arrive
<1>5. Auth!RoleNow(user) \subseteq Roles
  BY DEF Auth!RoleNow, Auth!Users
<1>6. /\ y \in HandlerStates /\ y.op = first.op /\ y.at = first.at /\ y.token = first.token
      /\ y.ends = first.ends /\ y.session = first.session /\ y.had = Auth!RoleNow(user)
      /\ y.alone = alone /\ handler'[h] = y
  <2>1. alone \in BOOLEAN
    OBVIOUS
  <2>2. handler'[h] = y
    BY <1>4
  <2> HIDE DEF alone
  <2> QED
    BY <1>5, <2>1, <2>2 DEF HandlerStates
<1>7. ASSUME NEW g \in Handlers, g # h, handler[g] = Auth!Idle
      PROVE  handler'[g] = Auth!Idle
  BY <1>4, <1>7 DEF Auth!Me
<1>8. ASSUME NEW g \in Handlers, g # h, handler[g] # Auth!Idle
      PROVE  /\ handler'[g] = z(g) /\ z(g) \in HandlerStates
             /\ handler'[g].op = handler[g].op /\ handler'[g].at = handler[g].at
             /\ handler'[g].token = handler[g].token /\ handler'[g].ends = handler[g].ends
             /\ handler'[g].left = handler[g].left /\ handler'[g].session = handler[g].session
             /\ handler'[g].had = handler[g].had /\ handler'[g].blind = handler[g].blind
             /\ handler'[g].alone => handler[g].alone /\ first.token \notin handler[g].ends
  <2>1. handler'[g] = z(g)
    BY <1>4, <1>8 DEF Auth!Me
  <2>2. handler[g] \in HandlerStates
    BY <1>1 DEF LocalTypes
  <2> QED
    BY <2>1, <2>2 DEF HandlerStates, Auth!Me
<1>9. Auth!Idle.at = "idle" /\ Auth!Idle.op = "none" /\ Auth!Idle.ends = {}
  BY <1>1, IdleTypes
<1> HIDE DEF y, z
<1>10. handler' \in [Handlers -> HandlerStates]
  BY <1>4, <1>6, <1>7, <1>8
<1>11. ASSUME NEW g \in Handlers
       PROVE  handler[g].at = "idle" <=> handler[g] = Auth!Idle
  BY <1>1 DEF Shape, Auth!At, Auth!Me
<1>12. LocalTypes'
  <2>1. \A g \in Handlers :
          /\ handler'[g].at \in Auth!Steps /\ handler'[g].session \in Auth!Sessions /\ handler'[g].copy \in Auth!Users
          /\ handler'[g].left \subseteq Tokens /\ handler'[g].ends \subseteq Tokens
          /\ handler'[g].had \subseteq Roles
    BY <1>10 DEF HandlerStates
  <2>2. started' \in 0 .. MaxRequests
    BY <1>1, <1>2 DEF LocalTypes, Auth!TypeOK, Auth!ConstantsOK
  <2> QED
    BY <1>1, <1>2, <1>3, <1>10, <2>1, <2>2 DEF LocalTypes, Auth!TypeOK
<1>13. Shape'
  <2>1. ASSUME NEW g \in Handlers
        PROVE  /\ handler'[g].at = "idle" <=> handler'[g] = Auth!Idle
               /\ handler'[g].at \in {"persist", "remember"} => handler'[g].op = "login"
               /\ handler'[g].at \in {"list", "dropRows"} => handler'[g].op = "password"
               /\ handler'[g].at \in Checks =>
                    handler'[g].op \in {"me", "logout", "password"} /\ handler'[g].token \in given'
               /\ handler'[g].op = "login" => handler'[g].token \in drawn' \ given'
               /\ handler'[g].op = "logout" => handler'[g].ends = {handler'[g].token}
               /\ handler'[g].op = "password" => handler'[g].token \notin handler'[g].ends
               /\ handler'[g].ends \subseteq given'
    <3>1. CASE g = h
      <4>1. given \subseteq drawn /\ given' = given
        BY <1>1, <1>2 DEF LocalTypes, Auth!TypeOK
      <4>2. y # Auth!Idle
        BY <1>6, <1>9 DEF Arrives
      <4> QED
        BY <1>6, <3>1, <4>1, <4>2 DEF Arrives
    <3>2. CASE g # h /\ handler[g] = Auth!Idle
      BY <1>7, <1>9, <3>2 DEF Checks
    <3>3. CASE g # h /\ handler[g] # Auth!Idle
      <4>1. handler'[g] # Auth!Idle
        BY <1>8, <1>9, <1>11, <3>3
      <4>2. /\ handler[g].at # "idle"
            /\ handler[g].at \in {"persist", "remember"} => handler[g].op = "login"
            /\ handler[g].at \in {"list", "dropRows"} => handler[g].op = "password"
            /\ handler[g].at \in Checks =>
                 handler[g].op \in {"me", "logout", "password"} /\ handler[g].token \in given
            /\ handler[g].op = "login" => handler[g].token \in drawn \ given
            /\ handler[g].op = "logout" => handler[g].ends = {handler[g].token}
            /\ handler[g].op = "password" => handler[g].token \notin handler[g].ends
            /\ handler[g].ends \subseteq given
        BY <1>1, <1>11, <3>3 DEF Shape, Auth!Me
      <4> QED
        BY <1>2, <1>8, <3>3, <4>1, <4>2
    <3> QED
      BY <3>1, <3>2, <3>3
  <2> QED
    BY <2>1 DEF Shape, Auth!At, Auth!Me
<1>14. DrawnOnce'
  <2>1. ASSUME NEW g \in Handlers, g # h, handler'[g].op = "login"
        PROVE  handler[g].op = "login" /\ handler'[g].token = handler[g].token /\ handler[g].token \in drawn
    <3>1. handler[g] # Auth!Idle
      BY <1>7, <1>9, <2>1
    <3> QED
      BY <1>1, <1>8, <2>1, <3>1 DEF Shape, Auth!Me
  <2>2. y.op = "login" => y.token \notin drawn
    BY <1>6 DEF Arrives
  <2> QED
    BY <1>1, <1>6, <2>1, <2>2 DEF DrawnOnce, Auth!Me
<1>15. AloneIsTrue'
  <2>1. ASSUME NEW f \in Handlers, NEW g \in Handlers, handler'[g].alone, f # g, handler'[f].at # "idle"
        PROVE  handler'[f].token \notin handler'[g].ends
    <3>1. CASE g = h
      <4>1. handler[f] # Auth!Idle
        BY <1>7, <1>9, <2>1, <3>1
      <4>2. f \in Auth!Busy
        BY <4>1 DEF Auth!Busy, Auth!Me
      <4>3. handler[f].token \notin first.ends
        BY <1>6, <2>1, <3>1, <4>2 DEF Auth!Me
      <4> QED
        BY <1>6, <1>8, <2>1, <3>1, <4>1, <4>3
    <3>2. CASE g # h /\ handler[g] = Auth!Idle
      BY <1>7, <1>9, <3>2
    <3>3. CASE g # h /\ handler[g] # Auth!Idle /\ f = h
      BY <1>6, <1>8, <2>1, <3>3
    <3>4. CASE g # h /\ handler[g] # Auth!Idle /\ f # h
      <4>1. handler[f] # Auth!Idle
        BY <1>7, <1>9, <2>1, <3>4
      <4>2. handler[f].at # "idle"
        BY <1>11, <4>1
      <4> QED
        BY <1>1, <1>8, <2>1, <3>4, <4>1, <4>2 DEF AloneIsTrue, Auth!Me, Auth!At
    <3> QED
      BY <3>1, <3>2, <3>3, <3>4
  <2> QED
    BY <2>1 DEF AloneIsTrue, Auth!Me, Auth!At
<1>16. DeadStays'
  <2>1. ASSUME NEW t \in revoked, NEW g \in Handlers, handler'[g].at # "idle", handler'[g].token = t
        PROVE  handler'[g].at = "load"
    <3>1. CASE g = h
      BY <1>6, <2>1, <3>1 DEF Arrives
    <3>2. CASE g # h
      <4>1. handler[g] # Auth!Idle
        BY <1>7, <1>9, <2>1, <3>2
      <4>2. handler[g].at # "idle"
        BY <1>11, <4>1
      <4> QED
        BY <1>1, <1>8, <2>1, <3>2, <4>1, <4>2 DEF DeadStays, Auth!Me, Auth!At
    <3> QED
      BY <3>1, <3>2
  <2> QED
    BY <1>1, <1>2, <2>1 DEF DeadStays, Auth!Me, Auth!At
<1>17. EndsInOrder'
  <2>1. ASSUME NEW g \in Handlers, handler'[g].alone
        PROVE  /\ handler'[g].op = "logout" /\ handler'[g].at = "dropRow" => cache'[handler'[g].token] = "none"
               /\ handler'[g].at = "dropRows" =>
                    \A t \in handler'[g].ends : rows'[t] # "none" => t \in handler'[g].left
    <3>1. CASE g = h
      BY <1>6, <3>1 DEF Arrives
    <3>2. CASE g # h /\ handler[g] = Auth!Idle
      BY <1>7, <1>9, <3>2
    <3>3. CASE g # h /\ handler[g] # Auth!Idle
      BY <1>1, <1>2, <1>8, <2>1, <3>3 DEF EndsInOrder, Auth!Me, Auth!At
    <3> QED
      BY <3>1, <3>2, <3>3
  <2> QED
    BY <2>1 DEF EndsInOrder, Auth!Me, Auth!At
<1>18. RoleInv'
  <2>1. ASSUME NEW g \in Handlers
        PROVE  /\ handler'[g].at # "idle" => Auth!RoleNow(user) \subseteq handler'[g].had
               /\ handler'[g].at \in {"persistRole", "rememberRole", "serve"}
                    => handler'[g].session \in handler'[g].had \/ handler'[g].blind
    <3>1. CASE g = h
      BY <1>6, <3>1 DEF Arrives
    <3>2. CASE g # h /\ handler[g] = Auth!Idle
      BY <1>7, <1>9, <3>2
    <3>3. CASE g # h /\ handler[g] # Auth!Idle
      BY <1>1, <1>8, <3>3 DEF RoleInv, Auth!Me, Auth!At
    <3> QED
      BY <3>1, <3>2, <3>3
  <2> QED
    BY <1>2, <2>1 DEF RoleInv, Auth!Me, Auth!At
<1> QED
  BY <1>12, <1>13, <1>14, <1>15, <1>16, <1>17, <1>18 DEF Inv, RevokeInv

LEMMA LoginKeeps ==
  ASSUME Auth!ConstantsOK, Inv, NEW h \in Handlers, Auth!Login(h)
  PROVE  Inv'
<1> USE Here
<1>1. PICK t \in Tokens \ drawn :
        /\ drawn' = drawn \cup {t}
        /\ Auth!Arrive(h, [Auth!Idle EXCEPT !.op = "login", !.at = "persist", !.token = t, !.session = user.role])
  BY DEF Auth!Login
<1> DEFINE first == [Auth!Idle EXCEPT !.op = "login", !.at = "persist", !.token = t, !.session = user.role]
<1>2. user.role \in Auth!Sessions
  BY DEF Auth!Users, Auth!Sessions
<1>3. /\ first \in HandlerStates /\ first.op = "login" /\ first.at = "persist" /\ first.token = t
      /\ first.ends = Auth!Idle.ends
  BY <1>2 DEF HandlerStates, Ops, Auth!Steps
<1>4. Auth!Idle.ends = {}
  BY IdleTypes DEF Inv
<1>5. revoked \subseteq drawn /\ drawn \subseteq Tokens
  BY DEF Inv, LocalTypes, Auth!TypeOK
<1>6. Auth!Arrive(h, first)
  BY <1>1
<1> HIDE DEF first
<1>7. Arrives(first)
  BY <1>1, <1>3, <1>4, <1>5 DEF Arrives, Checks
<1> QED
  BY <1>1, <1>3, <1>5, <1>6, <1>7, ArriveKeeps

(* The local state that a request with a cookie arrives with. *)
LEMMA RequestArrives ==
  ASSUME Inv, NEW h \in Handlers, Auth!Request(h)
  PROVE  \E t \in given, op \in {"me", "logout", "password"}, first \in HandlerStates :
           /\ Auth!Arrive(h, first) /\ first.token = t /\ first.ends \subseteq given
           /\ op = "logout" => first.ends = {t}
           /\ op = "password" => t \notin first.ends
           /\ (first.at \in {"load", "check"} /\ first.op = op) \/ (first.at = "forget" /\ first.op = "refused")
           /\ cache[t] = "none" => first.at = "load"
<1> USE Here
<1> DEFINE ends(op, t) == CASE op = "me" -> {} [] op = "logout" -> {t} [] op = "password" -> given \ {t}
           base(op, t) == [Auth!Idle EXCEPT !.op = op, !.token = t, !.ends = ends(op, t)]
<1>1. PICK t \in given, op \in {"me", "logout", "password"} : Auth!Arrive(h, Auth!Lookup(base(op, t)))
  BY DEF Auth!Request
<1>2. given \subseteq Tokens
  BY DEF Inv, LocalTypes, Auth!TypeOK
<1>3. /\ ends(op, t) \subseteq given
      /\ op = "logout" => ends(op, t) = {t}
      /\ op = "password" => t \notin ends(op, t)
  BY <1>1
<1> DEFINE b == base(op, t)
           first == Auth!Lookup(b)
<1> HIDE DEF ends
<1>4. /\ b \in HandlerStates /\ b.op = op /\ b.token = t /\ b.ends = ends(op, t)
  BY <1>1, <1>2, <1>3 DEF HandlerStates, Ops
<1>5. Auth!Arrive(h, first)
  BY <1>1
<1> HIDE DEF b
<1>6. /\ first \in HandlerStates /\ first.token = t /\ first.ends = ends(op, t)
      /\ (first.at \in {"load", "check"} /\ first.op = op) \/ (first.at = "forget" /\ first.op = "refused")
      /\ cache[t] = "none" => first.at = "load"
  <2>1. CASE cache[t] = "none"
    <3>1. first = [b EXCEPT !.at = "load"]
      BY <1>4, <2>1 DEF Auth!Lookup
    <3> QED
      BY <1>4, <3>1 DEF HandlerStates, Auth!Steps
  <2>2. CASE cache[t] # "none" /\ t \in expired
    <3>1. first = [b EXCEPT !.op = "refused", !.at = "forget"]
      BY <1>4, <2>2 DEF Auth!Lookup, Auth!Refused
    <3> QED
      BY <1>4, <2>2, <3>1 DEF HandlerStates, Auth!Steps, Ops
  <2>3. CASE cache[t] # "none" /\ t \notin expired
    <3>1. first = [b EXCEPT !.at = "check", !.session = cache[t]]
      BY <1>4, <2>3 DEF Auth!Lookup
    <3>2. cache[t] \in Auth!Sessions
      BY <1>1, <1>2
    <3> QED
      BY <1>4, <2>3, <3>1, <3>2 DEF HandlerStates, Auth!Steps
  <2> QED
    BY <2>1, <2>2, <2>3
<1> HIDE DEF first
<1> QED
  BY <1>3, <1>5, <1>6

LEMMA RequestKeeps ==
  ASSUME Auth!ConstantsOK, Inv, NEW h \in Handlers, Auth!Request(h)
  PROVE  Inv'
<1>1. PICK t \in given, op \in {"me", "logout", "password"}, first \in HandlerStates :
        /\ Auth!Arrive(h, first) /\ first.token = t /\ first.ends \subseteq given
        /\ op = "logout" => first.ends = {t}
        /\ op = "password" => t \notin first.ends
        /\ (first.at \in {"load", "check"} /\ first.op = op) \/ (first.at = "forget" /\ first.op = "refused")
        /\ cache[t] = "none" => first.at = "load"
  BY RequestArrives
<1>2. /\ drawn' = drawn /\ drawn \subseteq Tokens
      /\ \A s \in revoked : cache[s] = "none"
  BY DEF Auth!Request, Inv, LocalTypes, Auth!TypeOK, RevokeInv, DeadStays
<1>3. Arrives(first)
  BY <1>1, <1>2 DEF Arrives, Checks
<1> QED
  BY <1>1, <1>2, <1>3, ArriveKeeps

LEMMA EditKeeps ==
  ASSUME Auth!ConstantsOK, Inv, NEW h \in Handlers, Auth!Edit(h)
  PROVE  Inv'
<1> USE Here
<1> DEFINE first == [Auth!Idle EXCEPT !.op = "edit", !.at = "readUser"]
<1>1. Auth!Arrive(h, first) /\ drawn' = drawn
  BY DEF Auth!Edit
<1>2. /\ first \in HandlerStates /\ first.op = "edit" /\ first.at = "readUser"
      /\ first.token = "none" /\ first.ends = {}
  BY DEF HandlerStates, Ops, Auth!Steps, Auth!Idle
<1>3. revoked \subseteq Tokens /\ drawn \subseteq Tokens /\ "none" \notin Tokens
  BY DEF Inv, LocalTypes, Auth!TypeOK, Auth!ConstantsOK
<1> HIDE DEF first
<1>4. Arrives(first)
  BY <1>2, <1>3 DEF Arrives, Checks
<1> QED
  BY <1>1, <1>2, <1>3, <1>4, ArriveKeeps

-----------------------------------------------------------------------------
(* What no request does. *)
LEMMA DeleteUserKeeps ==
  ASSUME Auth!ConstantsOK, Inv, Auth!DeleteUser
  PROVE  Inv'
<1>1. user' \in Auth!Users /\ Auth!RoleNow(user') = {}
  BY DEF Auth!DeleteUser, Inv, LocalTypes, Auth!TypeOK, Auth!Users, Auth!RoleNow
<1>2. started' \in 0 .. MaxRequests /\ excused' \in BOOLEAN
  BY DEF Auth!DeleteUser, Inv, LocalTypes, Auth!TypeOK, Auth!ConstantsOK
<1>3. UNCHANGED <<cache, rows, expired, handler, drawn, given, faults, revoked>>
  BY DEF Auth!DeleteUser, Auth!sessions
<1>4. LocalTypes'
  BY <1>1, <1>2, <1>3 DEF Inv, LocalTypes, Auth!TypeOK
<1>5. RevokeInv'
  BY <1>3 DEF Inv, RevokeInv, Shape, DrawnOnce, AloneIsTrue, DeadStays, EndsInOrder, Auth!Me, Auth!At
<1>6. RoleInv'
  BY <1>1, <1>3 DEF Inv, RoleInv, Auth!Me, Auth!At
<1> QED
  BY <1>4, <1>5, <1>6 DEF Inv

LEMMA ExpireKeeps ==
  ASSUME Inv, Auth!Expire
  PROVE  Inv'
<1>1. UNCHANGED <<cache, rows, user, handler, drawn, given, started, faults, revoked, excused>>
  BY DEF Auth!Expire
<1>2. expired' \subseteq Tokens
  BY DEF Auth!Expire, Inv, LocalTypes, Auth!TypeOK
<1>3. LocalTypes'
  BY <1>1, <1>2 DEF Inv, LocalTypes, Auth!TypeOK
<1>4. RevokeInv'
  BY <1>1 DEF Inv, RevokeInv, Shape, DrawnOnce, AloneIsTrue, DeadStays, EndsInOrder, Auth!Me, Auth!At
<1>5. RoleInv'
  BY <1>1 DEF Inv, RoleInv, Auth!Me, Auth!At
<1> QED
  BY <1>3, <1>4, <1>5 DEF Inv

LEMMA QuietInv ==
  ASSUME Auth!ConstantsOK, LocalTypes, \A t \in revoked : cache[t] = "none" /\ rows[t] = "none",
         \A h \in Handlers : handler[h] = Auth!Idle
  PROVE  Inv
<1>1. /\ Auth!Idle.at = "idle" /\ Auth!Idle.op = "none" /\ Auth!Idle.ends = {}
  BY IdleTypes
<1>2. Shape
  BY <1>1 DEF Shape, Auth!Me, Auth!At, Checks
<1>3. DrawnOnce /\ AloneIsTrue /\ DeadStays /\ EndsInOrder
  BY <1>1 DEF DrawnOnce, AloneIsTrue, DeadStays, EndsInOrder, Auth!Me, Auth!At
<1>4. RoleInv
  BY <1>1 DEF RoleInv, Auth!Me, Auth!At
<1> QED
  BY <1>2, <1>3, <1>4 DEF Inv, RevokeInv

LEMMA QuietTypes ==
  ASSUME user \in Auth!Users, handler = [h \in Handlers |-> Auth!Idle]
  PROVE  /\ handler \in [Handlers -> HandlerStates]
         /\ \A h \in Handlers :
              /\ handler[h].at \in Auth!Steps /\ handler[h].session \in Auth!Sessions
              /\ handler[h].copy \in Auth!Users /\ handler[h].left \subseteq Tokens
              /\ handler[h].ends \subseteq Tokens /\ handler[h].had \subseteq Roles
<1>1. Auth!Idle \in HandlerStates
  <2>1. PICK role \in Roles : TRUE
    BY DEF Auth!Users
  <2>2. (CHOOSE r \in Roles : TRUE) \in Roles
    BY <2>1
  <2>3. Auth!NoUser \in Auth!Users
    BY <2>2 DEF Auth!NoUser, Auth!Users
  <2> QED
    BY <2>3 DEF Auth!Idle, HandlerStates, Ops, Auth!Steps, Auth!Sessions
<1> QED
  BY <1>1 DEF HandlerStates

LEMMA RestartKeeps ==
  ASSUME Auth!ConstantsOK, Inv, Auth!Restart
  PROVE  Inv'
<1>1. /\ cache' = [t \in Tokens |-> "none"] /\ handler' = [h \in Handlers |-> Auth!Idle]
      /\ UNCHANGED <<rows, expired, user, drawn, given, started, revoked>>
  BY DEF Auth!Restart
<1>2. faults' \in 0 .. MaxFaults /\ excused' \in BOOLEAN
  BY DEF Auth!Restart, Auth!Fault, Inv, LocalTypes, Auth!TypeOK, Auth!ConstantsOK
<1>3. /\ handler' \in [Handlers -> HandlerStates]
      /\ \A h \in Handlers :
           /\ handler'[h].at \in Auth!Steps /\ handler'[h].session \in Auth!Sessions
           /\ handler'[h].copy \in Auth!Users /\ handler'[h].left \subseteq Tokens
           /\ handler'[h].ends \subseteq Tokens /\ handler'[h].had \subseteq Roles
  <2>1. Auth!Idle \in HandlerStates
    BY IdleTypes DEF Inv
  <2> QED
    BY <1>1, <2>1 DEF HandlerStates
<1>4. cache' \in [Tokens -> Auth!Sessions]
  BY <1>1 DEF Auth!Sessions
<1>5. LocalTypes'
  BY <1>1, <1>2, <1>3, <1>4 DEF Inv, LocalTypes, Auth!TypeOK
<1>6. \A t \in revoked' : cache'[t] = "none" /\ rows'[t] = "none"
  BY <1>1 DEF Inv, LocalTypes, Auth!TypeOK, RevokeInv, DeadStays
<1>7. /\ Auth!Idle.at = "idle" /\ Auth!Idle.op = "none" /\ Auth!Idle.ends = {}
  BY IdleTypes DEF Inv
<1>8. \A h \in Handlers : handler'[h] = Auth!Idle
  BY <1>1
<1>9. RevokeInv'
  BY <1>6, <1>7, <1>8
  DEF RevokeInv, Shape, DrawnOnce, AloneIsTrue, DeadStays, EndsInOrder, Auth!Me, Auth!At, Checks
<1>10. RoleInv'
  BY <1>7, <1>8 DEF RoleInv, Auth!Me, Auth!At
<1> QED
  BY <1>5, <1>9, <1>10 DEF Inv

LEMMA InitInv ==
  ASSUME Auth!ConstantsOK, Auth!Init
  PROVE  Inv
<1>1. /\ user \in Auth!Users /\ handler = [h \in Handlers |-> Auth!Idle] /\ \A h \in Handlers : handler[h] = Auth!Idle
      /\ cache \in [Tokens -> Auth!Sessions] /\ rows \in [Tokens -> Auth!Sessions]
  BY DEF Auth!Init, Auth!Sessions
<1>2. LocalTypes
  <2>1. /\ handler \in [Handlers -> HandlerStates]
        /\ \A h \in Handlers :
             /\ handler[h].at \in Auth!Steps /\ handler[h].session \in Auth!Sessions
             /\ handler[h].copy \in Auth!Users /\ handler[h].left \subseteq Tokens
             /\ handler[h].ends \subseteq Tokens /\ handler[h].had \subseteq Roles
    BY <1>1, QuietTypes
  <2>2. /\ started \in 0 .. MaxRequests /\ faults \in 0 .. MaxFaults
        /\ expired = {} /\ drawn = {} /\ given = {} /\ revoked = {}
    BY DEF Auth!Init, Auth!ConstantsOK
  <2>3. excused \in BOOLEAN
    BY DEF Auth!Init
  <2> QED
    BY <1>1, <2>1, <2>2, <2>3 DEF LocalTypes, Auth!TypeOK
<1>3. revoked = {}
  BY DEF Auth!Init
<1> QED
  BY <1>1, <1>2, <1>3, QuietInv

(* Every step of the system keeps the invariant. *)
LEMMA NextKeeps ==
  ASSUME Auth!ConstantsOK, Inv, [Auth!Next]_Auth!vars
  PROVE  Inv'
<1>1. ASSUME NEW h \in Handlers,
             \/ Auth!Login(h) \/ Auth!Request(h) \/ Auth!Edit(h) \/ Auth!Persist(h) \/ Auth!Remember(h)
             \/ Auth!Load(h) \/ Auth!Fill(h) \/ Auth!Check(h) \/ Auth!PersistRole(h) \/ Auth!RememberRole(h) \/ Auth!Serve(h)
             \/ Auth!Others(h) \/ Auth!ReadUser(h) \/ Auth!WriteUser(h) \/ Auth!Forget(h) \/ Auth!DropRow(h)
             \/ Auth!List(h) \/ Auth!DropOther(h) \/ Auth!ForgetOthers(h)
      PROVE  Inv'
  BY <1>1, LoginKeeps, RequestKeeps, EditKeeps, PersistKeeps, RememberKeeps, LoadKeeps, FillKeeps,
     CheckKeeps, PersistRoleKeeps, RememberRoleKeeps, ServeKeeps, OthersKeeps, ReadUserKeeps,
     WriteUserKeeps, ForgetKeeps, DropRowKeeps, ListKeeps, DropOtherKeeps, ForgetOthersKeeps
<1>2. CASE UNCHANGED Auth!vars
  <2>1. UNCHANGED <<cache, rows, expired, user, handler, drawn, given, started, faults, revoked, excused>>
    BY <1>2 DEF Auth!vars, Auth!sessions
  <2>2. LocalTypes'
    BY <2>1 DEF Inv, LocalTypes, Auth!TypeOK
  <2>3. RevokeInv'
    BY <2>1 DEF Inv, RevokeInv, Shape, DrawnOnce, AloneIsTrue, DeadStays, EndsInOrder, Auth!Me, Auth!At
  <2>4. RoleInv'
    BY <2>1 DEF Inv, RoleInv, Auth!Me, Auth!At
  <2> QED
    BY <2>2, <2>3, <2>4 DEF Inv
<1> QED
  BY <1>1, <1>2, DeleteUserKeeps, ExpireKeeps, RestartKeeps DEF Auth!Next

LEMMA Invariance == ASSUME Auth!ConstantsOK PROVE Auth!Spec => []Inv
<1> USE DEF Auth!Spec
<1>1. Auth!Init => Inv
  BY InitInv
<1>2. Inv /\ [Auth!Next]_Auth!vars => Inv'
  BY NextKeeps
<1> QED
  BY <1>1, <1>2, PTL

(* The map and the rows of authManager hold a role or nothing, only tokens *)
(* that were given out are revoked, and each handler is at one of its steps. *)
THEOREM AuthTypes == ASSUME Auth!ConstantsOK PROVE Auth!Spec => []Auth!TypeOK
<1>1. Inv => Auth!TypeOK
  BY DEF Inv, LocalTypes
<1> QED
  BY <1>1, Invariance, PTL

(* A token that a logout or a password change has ended with success stays *)
(* out of the map and the store (delete, deleteUserSessionsExcept), for    *)
(* any number of tokens, requests under way, failing store operations and  *)
(* restarts, unless a request with that token overlapped.                  *)
THEOREM EndedTokensStayDead == ASSUME Auth!ConstantsOK PROVE Auth!Spec => []Auth!RevokedIsDead
<1>1. Inv => Auth!RevokedIsDead
  BY DEF Inv, RevokeInv, DeadStays, Auth!RevokedIsDead
<1> QED
  BY <1>1, Invariance, PTL

(* A request is let through with a role that its user had while it was     *)
(* under way, or as the session has it when the record cannot be read      *)
(* (refreshAuthSession), whatever map and row say and whoever edits or     *)
(* deletes the user meanwhile.                                             *)
THEOREM RequestsAreServedAsTheUser == ASSUME Auth!ConstantsOK PROVE Auth!Spec => []Auth!ServedAsUser
<1>1. Inv => Auth!ServedAsUser
  BY DEF Inv, RoleInv, Auth!ServedAsUser, Auth!At
<1> QED
  BY <1>1, Invariance, PTL

-----------------------------------------------------------------------------
(***************************************************************************)
(* Who is recorded as online.  OnlineMatches speaks of the system at rest. *)
(* For a request under way it rests on what the request is (OpFits), and,  *)
(* unless excused, on a writer of the user's record being alone            *)
(* (WritersAlone, CopyIsUser), on a logout having seen all there is        *)
(* (RowsAreGiven, OthersSeen), and on nothing being left of a user who is  *)
(* offline, neither row nor entry nor a request that could bring one back  *)
(* (OfflineIsOut).                                                         *)
(***************************************************************************)
OpFits(x) ==
  /\ x.at \in {"readUser", "saveUser"} => Auth!Writes(x.op)
  /\ x.at = "others" => x.op = "logout"
  /\ x.at \in {"forget", "dropRow"} => x.op \in {"logout", "refused"}
  /\ x.op \in {"rollback", "edit"} => x.at \in {"readUser", "saveUser"}
  /\ x.op = "login" => x.at \in {"persist", "remember", "readUser", "saveUser"}
  /\ x.op \in {"me", "logout", "password", "rollback"} => x.token \in given
  /\ x.op = "logout" /\ x.at \in {"readUser", "saveUser"} => ~x.other
OpsFit == \A h \in Handlers : OpFits(handler[h])

WritersAlone ==
  \A g, h \in Handlers : g # h /\ ~Auth!At(g, "idle") /\ ~Auth!At(h, "idle") => ~Auth!Writes(Auth!Me(h).op)

CopyIsUser == \A h \in Handlers : Auth!At(h, "saveUser") => Auth!Me(h).copy = user /\ user.there

(* A row whose token was not given out is that of a login under way. *)
Owns(x, t) == x.token = t /\ x.op \in {"login", "refused"} /\ x.at # "persist"
RowsAreGiven == \A t \in Tokens \ given : rows[t] # "none" => \E h \in Handlers : Owns(handler[h], t)

(* A logout that found no other session, from the moment it has recorded   *)
(* the user as offline.                                                    *)
Gone(t) == cache[t] = "none" /\ rows[t] = "none"
Ending(x) == x.op = "logout" /\ ~x.other /\ x.at \in {"forget", "dropRow"}

SeesOthers(x) ==
  /\ x.at \in {"readUser", "saveUser"} \/ Ending(x) => \A t \in given \ ({x.token} \cup expired) : Gone(t)
  /\ Ending(x) => ~user.online
  /\ x.at = "dropRow" => cache[x.token] = "none"
  /\ x.at \in {"forget", "dropRow"} /\ x.other => \E t \in given \ revoked : t # x.token
OthersSeen == \A h \in Handlers : Auth!Me(h).op = "logout" => SeesOthers(handler[h])

OfflineIsOut ==
  user.there /\ ~user.online /\ (\A h \in Handlers : ~Ending(handler[h]) /\ Auth!Me(h).op # "rollback")
    => \A t \in given \ expired :
         Gone(t) /\ \A h \in Handlers : Auth!Me(h).token = t => Auth!At(h, "load")

OutIsOffline == user.there /\ given \subseteq revoked => ~user.online

(* The inductive invariant of the user's record. *)
OnlineInv ==
  /\ OpsFit
  /\ ~excused => /\ WritersAlone /\ CopyIsUser /\ RowsAreGiven /\ OthersSeen
                 /\ OfflineIsOut /\ OutIsOffline

-----------------------------------------------------------------------------
(* What a step of request h, from x to y, does to what these speak of.     *)
SameFor(x, y) ==
  x.op = y.op /\ x.at = y.at /\ x.token = y.token /\ x.other = y.other /\ x.copy = y.copy

(* The request goes on, or is over. *)
GoesOn(x, y) ==
  \/ y = Auth!Idle
  \/ /\ y.at \notin {"idle", "persist", "load"} /\ y.token = x.token
     /\ y.op \in {x.op, "refused"} \/ (y.op = "rollback" /\ x.op \in {"logout", "rollback"})
     /\ y.at = "saveUser" => x.at = "readUser" /\ y.copy = user /\ user.there

(* The sessions: see Grows; and the row of a login that fails is deleted.  *)
SessionStep(x, y) ==
  /\ \A t \in Tokens : /\ cache'[t] # "none" => cache[t] # "none" \/ (t = x.token /\ x.at # "load")
                       /\ rows'[t] # "none" => rows[t] # "none" \/ (t = x.token /\ x.at # "load")
                       /\ rows'[t] # "none" /\ rows[t] = "none" => y # Auth!Idle /\ (x.op = "login" \/ t \in given)
  /\ x.at = "load" /\ x.token \in Tokens /\ rows[x.token] = "none" => y = Auth!Idle
  /\ x.op \in {"login", "refused"} /\ x.token \in Tokens /\ y = Auth!Idle /\ x.at # "persist" /\ given' = given
       => rows'[x.token] = "none" \/ excused'

(* The five steps of a logout that SeesOthers follows. *)
LogoutStep(x, y) ==
  y.op = "logout" /\ y.at \in {"readUser", "saveUser", "forget", "dropRow"} =>
    \/ /\ x.at = "others" /\ y.at = "readUser"
       /\ ~excused' => \A t \in given \ ({x.token} \cup expired) : cache'[t] = "none" /\ rows'[t] = "none"
    \/ /\ x.at = "others" /\ y.at = "forget" /\ y.other /\ revoked' = revoked
       /\ \E t \in Tokens \ {x.token} : rows[t] # "none"
    \/ /\ x.at = "readUser" /\ y.at = "saveUser" /\ y.other = x.other
       /\ cache' = cache /\ rows' = rows
    \/ /\ x.at = "saveUser" /\ y.at = "forget" /\ y.other = x.other /\ ~user'.online
       /\ cache' = cache /\ rows' = rows
    \/ /\ x.at = "forget" /\ y.at = "dropRow" /\ y.other = x.other /\ user' = user
       /\ revoked' = revoked /\ cache'[x.token] = "none" /\ rows' = rows
       /\ \A t \in Tokens : cache'[t] # "none" => cache[t] # "none"

(* How a logout that made the user offline and its undo end. *)
EndStep(x, y) ==
  /\ Ending(x) /\ y = Auth!Idle => rows'[x.token] = "none" /\ cache' = cache /\ x.at = "dropRow"
  /\ Ending(x) /\ y # Auth!Idle => Ending(y) \/ y.op = "rollback"
  /\ x.op = "rollback" /\ y = Auth!Idle /\ user' = user => excused' \/ ~user.there \/ user.online
  /\ x.op = "rollback" /\ y # Auth!Idle => y.op = "rollback"

(* The user's record is saved, tokens are given out and revoked. *)
RecordStep(x, y) ==
  /\ \/ user' = user /\ given' = given
     \/ /\ x.at = "saveUser" /\ user'.there = x.copy.there /\ revoked' = revoked
        /\ cache' = cache /\ rows' = rows
        /\ \/ x.op = "login" /\ user'.online /\ given' = given \cup {x.token}
           \/ x.op = "rollback" /\ user'.online /\ given' = given
           \/ x.op = "edit" /\ user'.online = x.copy.online /\ given' = given /\ y = Auth!Idle
           \/ x.op = "logout" /\ ~user'.online /\ given' = given /\ Ending(y)
  /\ \/ revoked' = revoked
     \/ /\ revoked' = revoked \cup x.ends
        /\ (x.op = "password" /\ x.at = "dropRows") \/ (x.op = "logout" /\ x.at = "dropRow")

OnlineStep(x, y) ==
  /\ GoesOn(x, y) /\ OpFits(y) /\ SessionStep(x, y) /\ LogoutStep(x, y) /\ EndStep(x, y) /\ RecordStep(x, y)
  /\ expired' = expired /\ (excused => excused')

(* ... and nothing to the other requests. *)
LeavesOthers(h) == \A g \in Handlers \ {h} : SameFor(handler'[g], handler[g])

LEMMA OnlineStepKeeps ==
  ASSUME Auth!ConstantsOK, Inv, Inv', OnlineInv, NEW h \in Handlers, ~Auth!At(h, "idle"),
         OnlineStep(handler[h], handler'[h]), LeavesOthers(h)
  PROVE  OnlineInv'
<1> DEFINE x == handler[h]
           y == handler'[h]
<1>1. /\ GoesOn(x, y) /\ OpFits(y) /\ SessionStep(x, y) /\ LogoutStep(x, y) /\ EndStep(x, y)
      /\ RecordStep(x, y) /\ expired' = expired /\ (excused => excused')
  BY DEF OnlineStep
<1>2. /\ Auth!Idle.at = "idle" /\ Auth!Idle.op = "none" /\ Auth!Idle.token = "none"
      /\ "none" \notin Tokens /\ x.at # "idle" /\ given \subseteq given'
      /\ given \subseteq Tokens /\ revoked \subseteq given
  BY <1>1, IdleTypes DEF Auth!ConstantsOK, Auth!Idle, Auth!At, Auth!Me, RecordStep, Inv, LocalTypes, Auth!TypeOK
<1>3. \A g \in Handlers \ {h} : SameFor(handler'[g], handler[g])
  BY DEF LeavesOthers
<1>4. /\ \A g \in Handlers : handler[g].at = "idle" <=> handler[g] = Auth!Idle
      /\ \A g \in Handlers : handler'[g].at = "idle" <=> handler'[g] = Auth!Idle
  BY DEF Inv, RevokeInv, Shape, Auth!At, Auth!Me
<1>5. OpsFit'
  <2>1. \A g \in Handlers : OpFits(handler[g])
    BY DEF OnlineInv, OpsFit
  <2>2. ASSUME NEW g \in Handlers PROVE OpFits(handler[g])'
    BY <1>1, <1>2, <1>3, <2>1 DEF OpFits, SameFor
  <2> QED
    BY <2>2 DEF OpsFit
<1>6. OpFits(x)
  BY DEF OnlineInv, OpsFit
<1>7. SUFFICES ASSUME ~excused'
               PROVE  /\ WritersAlone' /\ CopyIsUser' /\ RowsAreGiven' /\ OthersSeen'
                      /\ OfflineIsOut' /\ OutIsOffline'
  BY <1>5 DEF OnlineInv
<1>8. WritersAlone /\ CopyIsUser /\ RowsAreGiven /\ OthersSeen /\ OfflineIsOut /\ OutIsOffline
  BY <1>1, <1>7 DEF OnlineInv
<1> HIDE DEF x, y
<1>9. x = handler[h] /\ y = handler'[h]
  BY DEF x, y
(* No other request writes the record, and if h does it is alone. *)
<1>10. ASSUME NEW g \in Handlers \ {h}
       PROVE  /\ ~Auth!Writes(handler[g].op) \/ handler[g] = Auth!Idle
              /\ Auth!Writes(x.op) => handler[g] = Auth!Idle
              /\ SameFor(handler'[g], handler[g]) /\ OpFits(handler[g])
              /\ handler[g] = Auth!Idle => handler'[g] = Auth!Idle
  <2>1. SameFor(handler'[g], handler[g]) /\ OpFits(handler[g])
    BY <1>3 DEF OnlineInv, OpsFit
  <2>2. handler[g] = Auth!Idle => handler'[g] = Auth!Idle
    BY <1>2, <1>4, <2>1 DEF SameFor
  <2> QED
    BY <1>2, <1>4, <1>8, <1>9, <2>1, <2>2 DEF WritersAlone, Auth!At, Auth!Me
<1>11. ASSUME NEW g \in Handlers \ {h}
       PROVE  /\ handler'[g].op # "logout" /\ handler'[g].at # "saveUser" /\ handler'[g].op # "rollback"
              /\ handler[g].op # "logout" /\ handler[g].op # "rollback"
              /\ ~Ending(handler[g]) /\ ~Ending(handler'[g])
              /\ handler'[g].op = handler[g].op /\ handler'[g].at = handler[g].at
              /\ handler'[g].token = handler[g].token
  BY <1>2, <1>10 DEF SameFor, OpFits, Auth!Writes, Ending
<1>12. WritersAlone'
  <2>1. y # Auth!Idle /\ Auth!Writes(y.op) => Auth!Writes(x.op)
    BY <1>1, <1>9 DEF GoesOn, Auth!Writes
  <2>2. ASSUME NEW f \in Handlers, NEW g \in Handlers, f # g, handler'[f].at # "idle", handler'[g].at # "idle"
        PROVE  ~Auth!Writes(handler'[g].op)
    <3>1. CASE g = h
      <4>1. f \in Handlers \ {h} /\ handler[f] # Auth!Idle
        BY <1>2, <1>10, <2>2, <3>1
      <4> QED
        BY <1>4, <1>9, <1>10, <2>1, <2>2, <3>1, <4>1
    <3>2. CASE g # h
      <4>1. handler[g] # Auth!Idle /\ handler'[g].op = handler[g].op
        BY <1>2, <1>10, <1>11, <2>2, <3>2
      <4> QED
        BY <1>10, <3>2, <4>1
    <3> QED
      BY <3>1, <3>2
  <2> QED
    BY <2>2 DEF WritersAlone, Auth!At, Auth!Me
<1>13. CopyIsUser'
  <2>1. y.at = "saveUser" => y.copy = user' /\ user'.there
    BY <1>1, <1>2, <1>9 DEF GoesOn, RecordStep
  <2> QED
    BY <1>9, <1>11, <2>1 DEF CopyIsUser, Auth!At, Auth!Me
<1>14. RowsAreGiven'
  <2>1. SUFFICES ASSUME NEW t \in Tokens \ given', rows'[t] # "none"
                 PROVE  \E g \in Handlers : Owns(handler'[g], t)
    BY DEF RowsAreGiven, Owns
  <2>2. t \notin given
    BY <1>2, <2>1
  <2>3. x.op \in {"login", "refused"} /\ x.token = t /\ x.at # "persist" => Owns(y, t)
    <3>1. ASSUME x.op \in {"login", "refused"}, x.token = t, x.at # "persist"
          PROVE y # Auth!Idle
      <4>1. x.op = "login" /\ given' = given \cup {x.token} => FALSE
        BY <2>1, <3>1
      <4>2. given' = given
        BY <1>1, <3>1, <4>1 DEF RecordStep
      <4> QED
        BY <1>1, <1>7, <2>1, <3>1, <4>2 DEF SessionStep
    <3> QED
      BY <1>1, <3>1 DEF GoesOn, Owns
  <2>4. CASE rows[t] # "none"
    <3>1. PICK g \in Handlers : Owns(handler[g], t)
      BY <1>8, <2>1, <2>2, <2>4 DEF RowsAreGiven
    <3>2. CASE g = h
      BY <1>9, <2>3, <3>1, <3>2 DEF Owns
    <3>3. CASE g # h
      BY <1>11, <3>1, <3>3 DEF Owns
    <3> QED
      BY <3>2, <3>3
  <2>5. CASE rows[t] = "none"
    <3>1. t = x.token /\ x.op = "login"
      BY <1>1, <2>1, <2>2, <2>5 DEF SessionStep
    <3>2. given' = given
      BY <1>1, <2>1, <3>1 DEF RecordStep
    <3>3. CASE x.at # "persist"
      BY <1>9, <2>3, <3>1, <3>3
    <3>4. CASE x.at = "persist"
      <4>1. y # Auth!Idle
        BY <1>1, <2>1, <2>5, <3>1, <3>4 DEF SessionStep
      <4> QED
        BY <1>1, <1>9, <3>1, <4>1 DEF GoesOn, Owns
    <3> QED
      BY <3>3, <3>4
  <2> QED
    BY <2>4, <2>5
<1>15. /\ x.op = "login" => x.token \notin given
       /\ x.op = "logout" => x.ends = {x.token}
       /\ x.op = "password" => x.token \notin x.ends
       /\ x.token \in revoked => x.at = "load"
       /\ \A t \in revoked : rows[t] = "none"
  BY <1>2, <1>9 DEF Inv, RevokeInv, Shape, DeadStays, Auth!At, Auth!Me
<1>16. x.op = "logout" => SeesOthers(x) /\ x.token \in given
  BY <1>6, <1>8, <1>9 DEF OthersSeen, OpFits, Auth!Me
<1>17. x.op = "logout" => \A g \in Handlers : g # h => handler[g] = Auth!Idle /\ handler'[g] = Auth!Idle
  BY <1>10 DEF Auth!Writes
<1>18. OthersSeen'
  <2>1. SUFFICES ASSUME y.op = "logout" PROVE SeesOthers(handler[h])'
    BY <1>9, <1>11 DEF OthersSeen, Auth!Me
  <2>2. y # Auth!Idle /\ x.op = "logout" /\ y.token = x.token /\ x.token \in given /\ given' = given
    BY <1>1, <1>2, <1>16, <2>1 DEF GoesOn, RecordStep
  <2>3. SeesOthers(x)
    BY <1>16, <2>2
  <2>4. CASE y.at \notin {"readUser", "saveUser", "forget", "dropRow"}
    BY <1>9, <2>4 DEF SeesOthers, Ending
  <2>5. CASE /\ x.at = "others" /\ y.at = "readUser"
             /\ ~excused' => \A t \in given \ ({x.token} \cup expired) : cache'[t] = "none" /\ rows'[t] = "none"
    BY <1>9, <1>1, <1>7, <2>2, <2>5 DEF SeesOthers, Ending, Gone
  <2>6. CASE /\ x.at = "others" /\ y.at = "forget" /\ y.other /\ revoked' = revoked
             /\ \E t \in Tokens \ {x.token} : rows[t] # "none"
    <3>1. PICK t \in Tokens \ {x.token} : rows[t] # "none"
      BY <2>6
    <3>2. t \in given
      <4>1. \A g \in Handlers : ~Owns(handler[g], t)
        BY <1>2, <1>9, <1>17, <2>2 DEF Owns
      <4> QED
        BY <1>8, <3>1, <4>1 DEF RowsAreGiven
    <3>3. t \notin revoked
      BY <1>15, <3>1
    <3> QED
      BY <1>9, <2>2, <2>6, <3>1, <3>2, <3>3 DEF SeesOthers, Ending
  <2>7. CASE /\ x.at = "readUser" /\ y.at = "saveUser" /\ y.other = x.other
             /\ cache' = cache /\ rows' = rows
    BY <1>9, <1>1, <2>2, <2>3, <2>7 DEF SeesOthers, Ending, Gone
  <2>8. CASE /\ x.at = "saveUser" /\ y.at = "forget" /\ y.other = x.other /\ ~user'.online
             /\ cache' = cache /\ rows' = rows
    BY <1>9, <1>1, <1>6, <2>2, <2>3, <2>8 DEF SeesOthers, Ending, Gone, OpFits
  <2>9. CASE /\ x.at = "forget" /\ y.at = "dropRow" /\ y.other = x.other /\ user' = user
             /\ revoked' = revoked /\ cache'[x.token] = "none" /\ rows' = rows
             /\ \A t \in Tokens : cache'[t] # "none" => cache[t] # "none"
    BY <1>9, <1>1, <1>2, <2>1, <2>2, <2>3, <2>9 DEF SeesOthers, Ending, Gone
  <2> QED
    BY <1>1, <2>1, <2>4, <2>5, <2>6, <2>7, <2>8, <2>9 DEF LogoutStep
<1>19. OfflineIsOut'
  <2>1. SUFFICES ASSUME user'.there, ~user'.online,
                        \A g \in Handlers : ~Ending(handler'[g]) /\ handler'[g].op # "rollback",
                        NEW t \in given', t \notin expired
                 PROVE  /\ cache'[t] = "none" /\ rows'[t] = "none"
                        /\ \A g \in Handlers : handler'[g].token = t => handler'[g].at = "load"
    BY <1>1 DEF OfflineIsOut, Gone, Ending, Auth!Me, Auth!At
  <2>2. t \in Tokens /\ ~Ending(y) /\ y.op # "rollback"
    BY <1>9, <2>1 DEF Inv, LocalTypes, Auth!TypeOK
  <2>3. given' = given /\ user.there /\ ~user.online /\ (user' = user \/ x.op = "edit")
    <3>1. x.at = "saveUser" => x.copy = user
      BY <1>8, <1>9 DEF CopyIsUser, Auth!At, Auth!Me
    <3> QED
      BY <1>1, <2>1, <2>2, <3>1 DEF RecordStep
  <2>4. CASE Ending(x)
    <3>1. y = Auth!Idle /\ x.op = "logout" /\ rows'[x.token] = "none" /\ cache' = cache /\ x.at = "dropRow"
      BY <1>1, <2>2, <2>4 DEF EndStep, Ending
    <3>2. cache[x.token] = "none" /\ \A s \in given \ ({x.token} \cup expired) : Gone(s)
      BY <1>16, <2>4, <3>1 DEF SeesOthers
    <3>3. cache'[t] = "none" /\ rows'[t] = "none"
      BY <1>1, <2>1, <2>2, <2>3, <3>1, <3>2 DEF SessionStep, Gone
    <3>4. \A g \in Handlers : handler'[g] = Auth!Idle
      BY <1>9, <1>17, <3>1
    <3> QED
      BY <1>2, <2>2, <3>3, <3>4
  <2>5. CASE x.op = "rollback"
    <3>1. FALSE
      BY <1>1, <1>7, <2>2, <2>3, <2>5 DEF EndStep
    <3> QED
      BY <3>1
  <2>6. CASE ~Ending(x) /\ x.op # "rollback"
    <3>1. \A g \in Handlers : ~Ending(handler[g]) /\ handler[g].op # "rollback"
      BY <1>9, <1>11, <2>6
    <3>2. Gone(t) /\ \A g \in Handlers : handler[g].token = t => handler[g].at = "load"
      BY <1>8, <2>1, <2>3, <3>1 DEF OfflineIsOut, Auth!Me, Auth!At
    <3>3. cache'[t] = "none" /\ rows'[t] = "none"
      BY <1>1, <1>9, <2>2, <3>2 DEF SessionStep, Gone
    <3>4. y.token # t
      <4>1. CASE y = Auth!Idle
        BY <1>2, <2>2, <4>1
      <4>2. CASE y # Auth!Idle
        BY <1>1, <1>9, <2>2, <3>2, <4>2 DEF SessionStep, GoesOn, Gone
      <4> QED
        BY <4>1, <4>2
    <3> QED
      BY <1>9, <1>11, <3>2, <3>3, <3>4
  <2> QED
    BY <2>4, <2>5, <2>6
<1>20. OutIsOffline'
  <2>1. SUFFICES ASSUME user'.there, given' \subseteq revoked' PROVE ~user'.online
    BY DEF OutIsOffline
  <2>2. x.at = "saveUser" => x.copy = user
    BY <1>8, <1>9 DEF CopyIsUser, Auth!At, Auth!Me
  <2>3. CASE user' = user /\ given' = given
    <3>1. CASE revoked' = revoked
      BY <1>8, <2>1, <2>3, <3>1 DEF OutIsOffline
    <3>2. CASE revoked' = revoked \cup x.ends /\ x.op = "password" /\ x.at = "dropRows"
      BY <1>6, <1>15, <2>1, <2>3, <3>2 DEF OpFits
    <3>3. CASE revoked' = revoked \cup x.ends /\ x.op = "logout" /\ x.at = "dropRow"
      BY <1>15, <1>16, <2>1, <2>3, <3>3 DEF SeesOthers, Ending
    <3> QED
      BY <1>1, <3>1, <3>2, <3>3 DEF RecordStep
  <2>4. CASE x.at = "saveUser" /\ user'.there = x.copy.there /\ revoked' = revoked
    <3>1. x.op = "login" /\ given' = given \cup {x.token} => FALSE
      BY <1>2, <1>15, <2>1, <2>4
    <3>2. x.op = "rollback" /\ given' = given => FALSE
      BY <1>6, <1>15, <2>1, <2>4 DEF OpFits
    <3>3. given' = given => ~user.online
      BY <1>8, <2>1, <2>2, <2>4 DEF OutIsOffline
    <3> QED
      BY <1>1, <2>2, <2>4, <3>1, <3>2, <3>3, <2>3 DEF RecordStep
  <2> QED
    BY <1>1, <2>3, <2>4 DEF RecordStep
<1> QED
  BY <1>12, <1>13, <1>14, <1>18, <1>19, <1>20

-----------------------------------------------------------------------------
(* A step that changes no other request, x being the request after it.     *)
LEMMA OnlineBecomes ==
  ASSUME Auth!ConstantsOK, Inv, Inv', OnlineInv, NEW h \in Handlers, NEW x \in HandlerStates,
         ~Auth!At(h, "idle"), Auth!Becomes(h, x), OnlineStep(Auth!Me(h), x)
  PROVE  OnlineInv'
<1>1. handler'[h] = x /\ \A g \in Handlers \ {h} : handler'[g] = handler[g]
  BY BecomesDoes DEF Inv
<1>2. LeavesOthers(h)
  BY <1>1 DEF LeavesOthers, SameFor
<1> QED
  BY <1>1, <1>2, OnlineStepKeeps DEF Auth!Me

(* The same for steps before a request is served, of create and of         *)
(* deleteUserSessionsExcept, which leave the user's record alone.          *)
Early == Checks \cup {"persist", "remember", "list", "dropRows"}
LEMMA OnlineEarly ==
  ASSUME Auth!ConstantsOK, Inv, Inv', OnlineInv, NEW h \in Handlers, NEW x \in HandlerStates,
         Auth!Me(h).at \in Early, Auth!Becomes(h, x),
         x = Auth!Idle \/ /\ x.at \notin {"idle", "persist", "load", "saveUser"} /\ x.token = Auth!Me(h).token
                          /\ x.op = Auth!Me(h).op \/ (x.op = "refused" /\ x.at = "forget")
                          /\ x.at \in Checks \cup {"remember", "list", "dropRows", "others", "readUser", "forget"}
                          /\ x.at = "others" => x.op = "logout"
                          /\ x.at = "readUser" => x.op = "login"
                          /\ x.at = "forget" => x.op = "refused"
                          /\ x.op = "login" => x.at \in {"remember", "readUser"},
         UNCHANGED <<expired, user, given, excused>>,
         \/ revoked' = revoked
         \/ revoked' = revoked \cup Auth!Me(h).ends /\ Auth!Me(h).op = "password" /\ Auth!At(h, "dropRows"),
         SessionStep(Auth!Me(h), x)
  PROVE  OnlineInv'
<1>1. OpFits(Auth!Me(h)) /\ Auth!Idle.op = "none" /\ Auth!Idle.at = "idle"
  BY IdleTypes DEF OnlineInv, OpsFit, Auth!Me, Inv
<1>2. Auth!Me(h).at \notin {"idle", "others", "readUser", "saveUser", "forget", "dropRow"}
  BY DEF Early, Checks
<1>3. Auth!Me(h).op \notin {"rollback", "edit"}
  BY <1>1, <1>2 DEF OpFits
<1>4. GoesOn(Auth!Me(h), x)
  BY DEF GoesOn
<1>5. OpFits(x)
  BY <1>1, <1>3 DEF OpFits, Auth!Writes, Checks
<1>6. LogoutStep(Auth!Me(h), x)
  BY <1>1 DEF LogoutStep, Checks
<1>7. EndStep(Auth!Me(h), x)
  BY <1>2, <1>3 DEF EndStep, Ending
<1>8. RecordStep(Auth!Me(h), x)
  BY DEF RecordStep, Auth!At
<1> QED
  BY <1>2, <1>4, <1>5, <1>6, <1>7, <1>8, OnlineBecomes DEF OnlineStep, Auth!At

(* Rows and entries that only go, unless they are those of a request that  *)
(* is past its look into the store.                                        *)
LEMMA SessionsShrink ==
  ASSUME NEW x, NEW y, x.op # "refused", x.op = "login" => x.at = "persist" \/ y # Auth!Idle,
         cache' = cache \/ (x.at # "load" /\ \A t \in Tokens \ {x.token} : cache'[t] # "none" => cache[t] # "none"),
         \A t \in Tokens : rows'[t] # "none" => rows[t] # "none",
         x.at = "load" => y = Auth!Idle \/ rows[x.token] # "none"
  PROVE  SessionStep(x, y)
  BY DEF SessionStep

LEMMA PersistOnline ==
  ASSUME Auth!ConstantsOK, Inv, Inv', OnlineInv, NEW h \in Handlers, Auth!Persist(h)
  PROVE  OnlineInv'
<1> USE Here
<1>1. Auth!At(h, "persist") /\ Auth!Me(h).op = "login" /\ Auth!Me(h).token \in Tokens /\ Auth!Me(h).at \in Early
  BY DEF Auth!Persist, Inv, RevokeInv, Shape, Auth!At, Early
<1>2. UNCHANGED <<cache, expired, user, given, revoked, excused>>
  BY DEF Auth!Persist
<1>3. CASE Auth!Return(h) /\ \E gone \in SUBSET expired : rows' = Auth!Without(gone)
  <2>1. SessionStep(Auth!Me(h), Auth!Idle)
    BY <1>1, <1>2, <1>3, SessionsShrink DEF Auth!Without, Auth!At
  <2> QED
    BY <1>1, <1>2, <1>3, <2>1, OnlineEarly DEF Auth!Return
<1>4. CASE rows' = [Auth!Without(expired) EXCEPT ![Auth!Me(h).token] = Auth!Me(h).session] /\ Auth!Goto(h, "remember")
  <2> DEFINE x == [Auth!Me(h) EXCEPT !.at = "remember"]
  <2>1. "remember" \in Auth!Steps \ {"idle", "persist", "load"}
    BY DEF Auth!Steps
  <2>2. x \in HandlerStates /\ x.at = "remember" /\ x.token = Auth!Me(h).token /\ x.op = "login" /\ Auth!Becomes(h, x)
    BY <1>1, <1>4, <2>1, Goes DEF Auth!Goto
  <2> HIDE DEF x
  <2>3. x # Auth!Idle
    BY <2>2
  <2>4. SessionStep(Auth!Me(h), x)
    BY <1>1, <1>2, <1>4, <2>3 DEF SessionStep, Auth!Without, Auth!At
  <2> QED
    BY <1>1, <1>2, <2>2, <2>4, OnlineEarly
<1> QED
  BY <1>3, <1>4 DEF Auth!Persist

LEMMA RememberOnline ==
  ASSUME Auth!ConstantsOK, Inv, Inv', OnlineInv, NEW h \in Handlers, Auth!Remember(h)
  PROVE  OnlineInv'
<1> USE Here
<1> DEFINE x == [Auth!Me(h) EXCEPT !.at = "readUser"]
<1>1. Auth!At(h, "remember") /\ Auth!Me(h).op = "login" /\ Auth!Me(h).token \in Tokens /\ Auth!Me(h).at \in Early
  BY DEF Auth!Remember, Inv, RevokeInv, Shape, Auth!At, Early
<1>2. "readUser" \in Auth!Steps \ {"idle", "persist", "load"}
  BY DEF Auth!Steps
<1>3. x \in HandlerStates /\ x.at = "readUser" /\ x.token = Auth!Me(h).token /\ x.op = "login" /\ Auth!Becomes(h, x)
  BY <1>1, <1>2, Goes DEF Auth!Goto, Auth!Remember
<1> HIDE DEF x
<1>4. x # Auth!Idle
  BY <1>3
<1>5. SessionStep(Auth!Me(h), x)
  BY <1>1, <1>4, SessionsShrink DEF Auth!Remember, Auth!At
<1> QED
  BY <1>1, <1>3, <1>5, OnlineEarly DEF Auth!Remember

LEMMA LoadOnline ==
  ASSUME Auth!ConstantsOK, Inv, Inv', OnlineInv, NEW h \in Handlers, Auth!Load(h)
  PROVE  OnlineInv'
<1> USE Here
<1> DEFINE t == Auth!Me(h).token
<1>1. /\ Auth!At(h, "load") /\ t \in Tokens /\ Auth!Me(h).at \in Early /\ Auth!Me(h).op \in {"me", "logout", "password"}
  BY DEF Auth!Load, Inv, RevokeInv, Shape, Auth!At, Checks, Early, LocalTypes, Auth!TypeOK
<1>2. UNCHANGED <<cache, expired, user, given, revoked, excused>>
  BY DEF Auth!Load
<1>3. CASE Auth!Return(h) /\ (rows' = rows \/ rows' = Auth!Without({t}))
  <2>1. SessionStep(Auth!Me(h), Auth!Idle)
    BY <1>1, <1>2, <1>3, SessionsShrink DEF Auth!Without
  <2> QED
    BY <1>1, <1>2, <1>3, <2>1, OnlineEarly DEF Auth!Return
<1>4. CASE Auth!Live(t) /\ Auth!Becomes(h, [Auth!Me(h) EXCEPT !.at = "fill", !.session = rows[t]]) /\ UNCHANGED rows
  <2> DEFINE x == [Auth!Me(h) EXCEPT !.at = "fill", !.session = rows[t]]
  <2>1. rows[t] \in Auth!Sessions
    BY <1>1
  <2>2. x \in HandlerStates /\ x.at = "fill" /\ x.token = t /\ x.op = Auth!Me(h).op
    BY <1>1, <2>1 DEF HandlerStates, Auth!Steps
  <2>3. Auth!Becomes(h, x) /\ rows[t] # "none"
    BY <1>4 DEF Auth!Live
  <2> HIDE DEF x
  <2>4. SessionStep(Auth!Me(h), x)
    BY <1>1, <1>2, <1>4, <2>3, SessionsShrink
  <2> QED
    BY <1>1, <1>2, <2>2, <2>3, <2>4, OnlineEarly DEF Checks
<1> QED
  BY <1>3, <1>4 DEF Auth!Load

LEMMA FillOnline ==
  ASSUME Auth!ConstantsOK, Inv, Inv', OnlineInv, NEW h \in Handlers, Auth!Fill(h)
  PROVE  OnlineInv'
<1> USE Here
<1> DEFINE x == [Auth!Me(h) EXCEPT !.at = "check"]
<1>1. Auth!At(h, "fill") /\ Auth!Me(h).at \in Early /\ Auth!Me(h).op \in {"me", "logout", "password"}
  BY DEF Auth!Fill, Inv, RevokeInv, Shape, Auth!At, Checks, Early
<1>2. "check" \in Auth!Steps \ {"idle", "persist", "load"}
  BY DEF Auth!Steps
<1>3. x \in HandlerStates /\ x.at = "check" /\ x.token = Auth!Me(h).token /\ x.op = Auth!Me(h).op /\ Auth!Becomes(h, x)
  BY <1>2, Goes DEF Auth!Goto, Auth!Fill
<1> HIDE DEF x
<1>4. SessionStep(Auth!Me(h), x)
  BY <1>1, SessionsShrink DEF Auth!Fill, Auth!At
<1> QED
  BY <1>1, <1>3, <1>4, OnlineEarly DEF Auth!Fill, Checks

LEMMA CheckOnline ==
  ASSUME Auth!ConstantsOK, Inv, Inv', OnlineInv, NEW h \in Handlers, Auth!Check(h)
  PROVE  OnlineInv'
<1> USE Here
<1>1. Auth!At(h, "check") /\ Auth!Me(h).at \in Early /\ Auth!Me(h).op \in {"me", "logout", "password"}
  BY DEF Auth!Check, Inv, RevokeInv, Shape, Auth!At, Checks, Early
<1>2. UNCHANGED <<cache, rows, expired, user, given, revoked, excused>>
  BY DEF Auth!Check, Auth!sessions
<1>3. ASSUME NEW x PROVE SessionStep(Auth!Me(h), x)
  BY <1>1, <1>2, SessionsShrink DEF Auth!At
<1>4. CASE Auth!Becomes(h, Auth!Refused(Auth!Me(h)))
  BY <1>1, <1>2, <1>3, <1>4, Refuses, OnlineEarly
<1>5. ASSUME NEW x \in HandlerStates, Auth!Becomes(h, x), x.token = Auth!Me(h).token, x.op = Auth!Me(h).op,
             x.at \in {"serve", "persistRole"}
      PROVE  OnlineInv'
  BY <1>1, <1>2, <1>3, <1>5, OnlineEarly DEF Checks
<1>6. CASE Auth!Goto(h, "serve")
  <2>1. "serve" \in Auth!Steps \ {"idle", "persist", "load"}
    BY DEF Auth!Steps
  <2> QED
    BY <1>5, <1>6, <2>1, Goes DEF Auth!Goto
<1>7. CASE Auth!Becomes(h, [Auth!Me(h) EXCEPT !.at = "persistRole", !.session = user.role])
  <2> DEFINE x == [Auth!Me(h) EXCEPT !.at = "persistRole", !.session = user.role]
  <2>1. user.role \in Auth!Sessions
    BY DEF Auth!Users, Auth!Sessions
  <2>2. x \in HandlerStates /\ x.at = "persistRole" /\ x.token = Auth!Me(h).token /\ x.op = Auth!Me(h).op
    BY <2>1 DEF HandlerStates, Auth!Steps
  <2> QED
    BY <1>5, <1>7, <2>2
<1>8. CASE Auth!Becomes(h, [Auth!Me(h) EXCEPT !.at = "serve", !.blind = TRUE])
  <2> DEFINE x == [Auth!Me(h) EXCEPT !.at = "serve", !.blind = TRUE]
  <2>1. x \in HandlerStates /\ x.at = "serve" /\ x.token = Auth!Me(h).token /\ x.op = Auth!Me(h).op
    BY DEF HandlerStates, Auth!Steps
  <2> QED
    BY <1>5, <1>8, <2>1
<1> QED
  BY <1>4, <1>6, <1>7, <1>8 DEF Auth!Check

LEMMA PersistRoleOnline ==
  ASSUME Auth!ConstantsOK, Inv, Inv', OnlineInv, NEW h \in Handlers, Auth!PersistRole(h)
  PROVE  OnlineInv'
<1> USE Here
<1> DEFINE t == Auth!Me(h).token
<1>1. /\ Auth!At(h, "persistRole") /\ Auth!Me(h).at \in Early /\ Auth!Me(h).op \in {"me", "logout", "password"}
      /\ t \in given /\ Auth!Me(h).at # "load"
  BY DEF Auth!PersistRole, Inv, RevokeInv, Shape, Auth!At, Checks, Early
<1>2. UNCHANGED <<expired, user, given, revoked, excused>>
  BY DEF Auth!PersistRole
<1>3. CASE cache' = [cache EXCEPT ![t] = "none"] /\ Auth!Return(h) /\ UNCHANGED rows
  <2>1. SessionStep(Auth!Me(h), Auth!Idle)
    BY <1>1, <1>3, SessionsShrink
  <2> QED
    BY <1>1, <1>2, <1>3, <2>1, OnlineEarly DEF Auth!Return
<1>4. CASE rows' = [rows EXCEPT ![t] = Auth!Me(h).session] /\ Auth!Goto(h, "rememberRole") /\ UNCHANGED cache
  <2> DEFINE x == [Auth!Me(h) EXCEPT !.at = "rememberRole"]
  <2>1. "rememberRole" \in Auth!Steps \ {"idle", "persist", "load"}
    BY DEF Auth!Steps
  <2>2. x \in HandlerStates /\ x.at = "rememberRole" /\ x.token = t /\ x.op = Auth!Me(h).op /\ Auth!Becomes(h, x)
    BY <1>4, <2>1, Goes DEF Auth!Goto
  <2> HIDE DEF x
  <2>3. x # Auth!Idle
    BY <2>2
  <2>4. SessionStep(Auth!Me(h), x)
    BY <1>1, <1>4, <2>3 DEF SessionStep
  <2> QED
    BY <1>1, <1>2, <2>2, <2>4, OnlineEarly DEF Checks
<1> QED
  BY <1>3, <1>4 DEF Auth!PersistRole

LEMMA RememberRoleOnline ==
  ASSUME Auth!ConstantsOK, Inv, Inv', OnlineInv, NEW h \in Handlers, Auth!RememberRole(h)
  PROVE  OnlineInv'
<1> USE Here
<1> DEFINE x == [Auth!Me(h) EXCEPT !.at = "serve"]
<1>1. /\ Auth!At(h, "rememberRole") /\ Auth!Me(h).at \in Early /\ Auth!Me(h).op \in {"me", "logout", "password"}
      /\ Auth!Me(h).at # "load"
  BY DEF Auth!RememberRole, Inv, RevokeInv, Shape, Auth!At, Checks, Early
<1>2. "serve" \in Auth!Steps \ {"idle", "persist", "load"}
  BY DEF Auth!Steps
<1>3. x \in HandlerStates /\ x.at = "serve" /\ x.token = Auth!Me(h).token /\ x.op = Auth!Me(h).op /\ Auth!Becomes(h, x)
  BY <1>2, Goes DEF Auth!Goto, Auth!RememberRole
<1> HIDE DEF x
<1>4. SessionStep(Auth!Me(h), x)
  BY <1>1, SessionsShrink DEF Auth!RememberRole
<1> QED
  BY <1>1, <1>3, <1>4, OnlineEarly DEF Auth!RememberRole, Checks

LEMMA ServeOnline ==
  ASSUME Auth!ConstantsOK, Inv, Inv', OnlineInv, NEW h \in Handlers, Auth!Serve(h)
  PROVE  OnlineInv'
<1> USE Here
<1>1. /\ Auth!At(h, "serve") /\ Auth!Me(h).at \in Early /\ Auth!Me(h).op \in {"me", "logout", "password"}
      /\ Auth!Me(h).at # "load"
  BY DEF Auth!Serve, Inv, RevokeInv, Shape, Auth!At, Checks, Early
<1>2. UNCHANGED <<cache, rows, expired, user, given, revoked, excused>>
  BY DEF Auth!Serve, Auth!sessions
<1>3. ASSUME NEW x PROVE SessionStep(Auth!Me(h), x)
  BY <1>1, <1>2, SessionsShrink
<1>4. CASE Auth!Return(h)
  BY <1>1, <1>2, <1>3, <1>4, OnlineEarly DEF Auth!Return
<1>5. ASSUME NEW at \in {"others", "list"}, Auth!Goto(h, at), at = "others" => Auth!Me(h).op = "logout"
      PROVE  OnlineInv'
  <2> DEFINE x == [Auth!Me(h) EXCEPT !.at = at]
  <2>1. at \in Auth!Steps \ {"idle", "persist", "load"}
    BY DEF Auth!Steps
  <2>2. x \in HandlerStates /\ x.at = at /\ x.token = Auth!Me(h).token /\ x.op = Auth!Me(h).op /\ Auth!Becomes(h, x)
    BY <1>5, <2>1, Goes DEF Auth!Goto
  <2> HIDE DEF x
  <2> QED
    BY <1>1, <1>2, <1>3, <1>5, <2>2, OnlineEarly
<1> QED
  BY <1>1, <1>4, <1>5 DEF Auth!Serve

LEMMA ListOnline ==
  ASSUME Auth!ConstantsOK, Inv, Inv', OnlineInv, NEW h \in Handlers, Auth!List(h)
  PROVE  OnlineInv'
<1> USE Here
<1>1. Auth!At(h, "list") /\ Auth!Me(h).at \in Early /\ Auth!Me(h).op = "password" /\ Auth!Me(h).at # "load"
  BY DEF Auth!List, Inv, RevokeInv, Shape, Auth!At, Early
<1>2. UNCHANGED <<cache, rows, expired, user, given, revoked, excused>>
  BY DEF Auth!List, Auth!sessions
<1>3. ASSUME NEW x PROVE SessionStep(Auth!Me(h), x)
  BY <1>1, <1>2, SessionsShrink
<1>4. CASE Auth!Return(h)
  BY <1>1, <1>2, <1>3, <1>4, OnlineEarly DEF Auth!Return
<1>5. CASE ~Auth!Return(h)
  <2> DEFINE left == {t \in Tokens \ {Auth!Me(h).token} : rows[t] # "none"}
             x == [Auth!Me(h) EXCEPT !.at = "dropRows", !.left = left]
  <2>1. x \in HandlerStates /\ x.at = "dropRows" /\ x.token = Auth!Me(h).token /\ x.op = Auth!Me(h).op
    BY DEF HandlerStates, Auth!Steps
  <2>2. Auth!Becomes(h, x)
    BY <1>5 DEF Auth!List
  <2> HIDE DEF x
  <2> QED
    BY <1>1, <1>2, <1>3, <2>1, <2>2, OnlineEarly
<1> QED
  BY <1>4, <1>5

LEMMA DropOtherOnline ==
  ASSUME Auth!ConstantsOK, Inv, Inv', OnlineInv, NEW h \in Handlers, Auth!DropOther(h)
  PROVE  OnlineInv'
<1> USE Here
<1>1. Auth!At(h, "dropRows") /\ Auth!Me(h).at \in Early /\ Auth!Me(h).op = "password" /\ Auth!Me(h).at # "load"
  BY DEF Auth!DropOther, Inv, RevokeInv, Shape, Auth!At, Early
<1>2. UNCHANGED <<cache, expired, user, given, revoked, excused>>
  BY DEF Auth!DropOther
<1>3. PICK t \in Auth!Me(h).left :
        \/ rows' = Auth!Without({t}) /\ Auth!Becomes(h, [Auth!Me(h) EXCEPT !.left = @ \ {t}])
        \/ rows' \in {rows, Auth!Without({t})} /\ Auth!Return(h)
  BY DEF Auth!DropOther
<1>4. \A s \in Tokens : rows'[s] # "none" => rows[s] # "none"
  BY <1>3 DEF Auth!Without
<1>5. ASSUME NEW x PROVE SessionStep(Auth!Me(h), x)
  BY <1>1, <1>2, <1>4, SessionsShrink
<1>6. CASE Auth!Return(h)
  BY <1>1, <1>2, <1>5, <1>6, OnlineEarly DEF Auth!Return
<1>7. CASE Auth!Becomes(h, [Auth!Me(h) EXCEPT !.left = @ \ {t}])
  <2> DEFINE x == [Auth!Me(h) EXCEPT !.left = @ \ {t}]
  <2>1. x \in HandlerStates /\ x.at = "dropRows" /\ x.token = Auth!Me(h).token /\ x.op = Auth!Me(h).op
    BY <1>1 DEF HandlerStates, Auth!At
  <2>2. Auth!Becomes(h, x)
    BY <1>7
  <2> HIDE DEF x
  <2> QED
    BY <1>1, <1>2, <1>5, <2>1, <2>2, OnlineEarly
<1> QED
  BY <1>3, <1>6, <1>7

LEMMA ForgetOthersOnline ==
  ASSUME Auth!ConstantsOK, Inv, Inv', OnlineInv, NEW h \in Handlers, Auth!ForgetOthers(h)
  PROVE  OnlineInv'
<1> USE Here
<1>1. Auth!At(h, "dropRows") /\ Auth!Me(h).at \in Early /\ Auth!Me(h).op = "password" /\ Auth!Me(h).at # "load"
  BY DEF Auth!ForgetOthers, Inv, RevokeInv, Shape, Auth!At, Early
<1>2. UNCHANGED <<rows, expired, user, given, excused>> /\ Auth!Return(h)
  BY DEF Auth!ForgetOthers
<1>3. SessionStep(Auth!Me(h), Auth!Idle)
  BY <1>1, <1>2, SessionsShrink DEF Auth!ForgetOthers
<1>4. \/ revoked' = revoked
      \/ revoked' = revoked \cup Auth!Me(h).ends /\ Auth!Me(h).op = "password" /\ Auth!At(h, "dropRows")
  BY <1>1 DEF Auth!ForgetOthers
<1> QED
  BY <1>1, <1>2, <1>3, <1>4, OnlineEarly DEF Auth!Return

-----------------------------------------------------------------------------
(* The steps of revokeAuthSession and delete, and of the user's record.    *)
LEMMA OthersOnline ==
  ASSUME Auth!ConstantsOK, Inv, Inv', OnlineInv, NEW h \in Handlers, Auth!Others(h)
  PROVE  OnlineInv'
<1> USE Here
<1> DEFINE next(found) == [Auth!Me(h) EXCEPT !.other = found, !.at = IF found THEN "forget" ELSE "readUser"]
<1>1. /\ Auth!At(h, "others") /\ ~Auth!At(h, "idle") /\ OpFits(Auth!Me(h)) /\ Auth!Me(h).op = "logout"
      /\ Auth!Me(h).token \in given /\ Auth!Me(h).at = "others" /\ given \subseteq Tokens
  BY DEF Auth!Others, Auth!At, OnlineInv, OpsFit, OpFits, Auth!Me, Inv, LocalTypes, Auth!TypeOK
<1>2. UNCHANGED <<cache, expired, user, given, revoked>> /\ (excused => excused')
  BY DEF Auth!Others
<1>3. \A t \in Tokens : rows'[t] # "none" => rows[t] # "none"
  BY DEF Auth!Others, Auth!Without
<1>4. PICK found \in BOOLEAN :
        /\ Auth!Becomes(h, next(found))
        /\ found => \E t \in Tokens \ {Auth!Me(h).token} : rows[t] # "none"
        /\ ~found /\ ~excused' => \A t \in given \ ({Auth!Me(h).token} \cup expired) : cache[t] = "none" /\ rows[t] = "none"
  <2>1. CASE excused' = TRUE /\ Auth!Becomes(h, next(FALSE))
    BY <2>1
  <2>2. CASE /\ Auth!Becomes(h, next(\E t \in Tokens \ {Auth!Me(h).token} : Auth!Live(t)))
             /\ excused' = (excused \/ (/\ ~(\E t \in Tokens \ {Auth!Me(h).token} : Auth!Live(t))
                                        /\ \E t \in given \ ({Auth!Me(h).token} \cup expired) :
                                             cache[t] # "none" /\ rows[t] = "none"))
    <3> DEFINE f == \E t \in Tokens \ {Auth!Me(h).token} : Auth!Live(t)
    <3>1. f \in BOOLEAN /\ Auth!Becomes(h, next(f))
      BY <2>2
    <3>2. f => \E t \in Tokens \ {Auth!Me(h).token} : rows[t] # "none"
      BY DEF Auth!Live
    <3>3. ~f /\ ~excused' => \A t \in given \ ({Auth!Me(h).token} \cup expired) : cache[t] = "none" /\ rows[t] = "none"
      BY <1>1, <2>2 DEF Auth!Live
    <3> HIDE DEF f
    <3> QED
      BY <3>1, <3>2, <3>3
  <2> QED
    BY <2>1, <2>2 DEF Auth!Others
<1> DEFINE x == next(found)
<1>5. /\ x \in HandlerStates /\ x.at \in {"forget", "readUser"} /\ x.op = "logout" /\ x.token = Auth!Me(h).token
      /\ x.other = found /\ (x.at = "forget" <=> found)
  BY <1>1, <1>4 DEF HandlerStates, Auth!Steps
<1>6. Auth!Becomes(h, x)
  BY <1>4
<1> HIDE DEF x, next
<1>7. GoesOn(Auth!Me(h), x)
  BY <1>1, <1>5 DEF GoesOn
<1>8. OpFits(x)
  BY <1>1, <1>5 DEF OpFits, Auth!Writes
<1>9. SessionStep(Auth!Me(h), x)
  BY <1>1, <1>2, <1>3, SessionsShrink
<1>10. LogoutStep(Auth!Me(h), x)
  <2>1. CASE found
    BY <1>1, <1>2, <1>4, <1>5, <2>1 DEF LogoutStep
  <2>2. CASE ~found
    <3>1. ~excused' => \A t \in given \ ({Auth!Me(h).token} \cup expired) : cache'[t] = "none" /\ rows'[t] = "none"
      BY <1>1, <1>2, <1>3, <1>4, <2>2
    <3> QED
      BY <1>1, <1>5, <2>2, <3>1 DEF LogoutStep
  <2> QED
    BY <2>1, <2>2
<1>11. EndStep(Auth!Me(h), x)
  BY <1>1 DEF EndStep, Ending
<1>12. RecordStep(Auth!Me(h), x)
  BY <1>2 DEF RecordStep
<1> QED
  BY <1>1, <1>2, <1>5, <1>6, <1>7, <1>8, <1>9, <1>10, <1>11, <1>12, OnlineBecomes DEF OnlineStep

(* A login that could not be recorded is refused, others just end, and an  *)
(* undo only without the user or excused.                                  *)
LEMMA UnrecordedOnline ==
  ASSUME Auth!ConstantsOK, Inv, Inv', OnlineInv, NEW h \in Handlers, Auth!Unrecorded(h),
         Auth!Me(h).at \in {"readUser", "saveUser"},
         UNCHANGED <<cache, rows, expired, user, given, revoked>>, excused => excused',
         Auth!Me(h).op = "rollback" => excused' \/ ~user.there
  PROVE  OnlineInv'
<1> USE Here
<1>1. OpFits(Auth!Me(h)) /\ Auth!Writes(Auth!Me(h).op) /\ Auth!Idle.op = "none" /\ ~Auth!At(h, "idle")
  BY IdleTypes DEF OnlineInv, OpsFit, OpFits, Auth!Me, Inv, Auth!At
<1>2. Auth!Me(h).op \in {"login", "logout", "rollback", "edit"} /\ Auth!Me(h).at # "load"
  BY <1>1 DEF Auth!Writes
<1>3. CASE Auth!Me(h).op = "login" /\ Auth!Becomes(h, Auth!Refused(Auth!Me(h)))
  <2> DEFINE x == Auth!Refused(Auth!Me(h))
  <2>1. x \in HandlerStates /\ x.at = "forget" /\ x.op = "refused" /\ x.token = Auth!Me(h).token /\ Auth!Becomes(h, x)
    BY <1>3, Refuses
  <2> HIDE DEF x
  <2>2. x # Auth!Idle
    BY <1>1, <2>1
  <2>3. GoesOn(Auth!Me(h), x) /\ OpFits(x) /\ LogoutStep(Auth!Me(h), x) /\ EndStep(Auth!Me(h), x) /\ RecordStep(Auth!Me(h), x)
    BY <1>3, <2>1 DEF GoesOn, OpFits, LogoutStep, EndStep, RecordStep, Ending
  <2>4. SessionStep(Auth!Me(h), x)
    BY <1>2, <2>2, SessionsShrink
  <2> QED
    BY <1>1, <2>1, <2>3, <2>4, OnlineBecomes DEF OnlineStep
<1>4. CASE Auth!Me(h).op # "login" /\ Auth!Becomes(h, Auth!Idle)
  <2>1. GoesOn(Auth!Me(h), Auth!Idle) /\ OpFits(Auth!Idle) /\ LogoutStep(Auth!Me(h), Auth!Idle) /\ RecordStep(Auth!Me(h), Auth!Idle)
    BY <1>1 DEF GoesOn, OpFits, LogoutStep, RecordStep
  <2>2. EndStep(Auth!Me(h), Auth!Idle)
    BY <1>2 DEF EndStep, Ending
  <2>3. SessionStep(Auth!Me(h), Auth!Idle)
    BY <1>2, <1>4, SessionsShrink
  <2> QED
    BY <1>1, <1>4, <2>1, <2>2, <2>3, OnlineBecomes DEF OnlineStep
<1> QED
  BY <1>3, <1>4 DEF Auth!Unrecorded, Auth!Return

LEMMA ReadUserOnline ==
  ASSUME Auth!ConstantsOK, Inv, Inv', OnlineInv, NEW h \in Handlers, Auth!ReadUser(h)
  PROVE  OnlineInv'
<1> USE Here
<1>1. /\ Auth!At(h, "readUser") /\ ~Auth!At(h, "idle") /\ Auth!Me(h).at = "readUser"
      /\ UNCHANGED <<cache, rows, expired, user, given, revoked>> /\ (excused => excused')
  BY DEF Auth!ReadUser, Auth!At, Auth!sessions
<1>2. CASE Auth!Unrecorded(h) /\ (~user.there \/ excused' = (excused \/ Auth!Me(h).op = "rollback"))
  BY <1>1, <1>2, UnrecordedOnline
<1>3. CASE user.there /\ Auth!Becomes(h, [Auth!Me(h) EXCEPT !.at = "saveUser", !.copy = user])
  <2> DEFINE x == [Auth!Me(h) EXCEPT !.at = "saveUser", !.copy = user]
  <2>1. OpFits(Auth!Me(h)) /\ Auth!Writes(Auth!Me(h).op)
    BY <1>1 DEF OnlineInv, OpsFit, OpFits, Auth!Me
  <2>2. /\ x \in HandlerStates /\ x.at = "saveUser" /\ x.op = Auth!Me(h).op /\ x.token = Auth!Me(h).token
        /\ x.copy = user /\ x.other = Auth!Me(h).other
    BY DEF HandlerStates, Auth!Steps
  <2>3. Auth!Becomes(h, x)
    BY <1>3
  <2> HIDE DEF x
  <2>4. x # Auth!Idle
    BY <2>2
  <2>5. GoesOn(Auth!Me(h), x)
    BY <1>1, <1>3, <2>2 DEF GoesOn
  <2>6. OpFits(x)
    BY <1>1, <2>1, <2>2 DEF OpFits
  <2>7. SessionStep(Auth!Me(h), x)
    BY <1>1, <2>1, <2>4, SessionsShrink DEF Auth!Writes
  <2>8. LogoutStep(Auth!Me(h), x) /\ EndStep(Auth!Me(h), x) /\ RecordStep(Auth!Me(h), x)
    BY <1>1, <2>2 DEF LogoutStep, EndStep, RecordStep, Ending
  <2> QED
    BY <1>1, <2>2, <2>3, <2>5, <2>6, <2>7, <2>8, OnlineBecomes DEF OnlineStep
<1> QED
  BY <1>2, <1>3 DEF Auth!ReadUser

(* The user's record is saved, x being the request after it. *)
LEMMA SaveOnline ==
  ASSUME Auth!ConstantsOK, Inv, Inv', OnlineInv, NEW h \in Handlers, NEW u \in Auth!Users, NEW x \in HandlerStates,
         Auth!SaveUser(h, u, x), Auth!At(h, "saveUser"),
         \A y : SameFor(y, x) /\ (x = Auth!Idle => y = Auth!Idle) => OnlineStep(Auth!Me(h), y)
  PROVE  OnlineInv'
<1>1. Like(handler'[h], x) /\ \A g \in Handlers \ {h} : Like(handler'[g], handler[g])
  BY SaveUserDoes DEF Inv
<1>2. LeavesOthers(h)
  BY <1>1 DEF LeavesOthers, SameFor, Like
<1>3. SameFor(handler'[h], x) /\ (x = Auth!Idle => handler'[h] = Auth!Idle)
  BY <1>1 DEF SameFor, Like
<1>4. OnlineStep(handler[h], handler'[h])
  BY <1>3 DEF Auth!Me
<1> QED
  BY <1>2, <1>4, OnlineStepKeeps DEF Auth!At

LEMMA WriteUserOnline ==
  ASSUME Auth!ConstantsOK, Inv, Inv', OnlineInv, NEW h \in Handlers, Auth!WriteUser(h)
  PROVE  OnlineInv'
<1> USE Here
<1> DEFINE copy == Auth!Me(h).copy
<1>1. Auth!At(h, "saveUser") /\ ~Auth!At(h, "idle") /\ Auth!Me(h).at = "saveUser"
  BY DEF Auth!WriteUser, Auth!At
<1>2. OpFits(Auth!Me(h)) /\ Auth!Idle.op = "none" /\ (Auth!Me(h).op = "login" => Auth!Me(h).token \notin given)
  BY IdleTypes DEF OnlineInv, OpsFit, Auth!Me, Inv, RevokeInv, Shape
<1>3. copy \in Auth!Users
  BY DEF HandlerStates
<1>4. UNCHANGED <<cache, rows, expired, revoked>>
  BY DEF Auth!WriteUser, Auth!sessions
<1>5. CASE /\ Auth!Unrecorded(h) /\ excused' = (excused \/ Auth!Me(h).op = "rollback")
           /\ UNCHANGED <<user, given>>
  BY <1>1, <1>4, <1>5, UnrecordedOnline
<1>6. ASSUME NEW u \in Auth!Users, u.there = copy.there, Auth!SaveUser(h, u, Auth!Idle), excused' = excused,
             \/ Auth!Me(h).op = "login" /\ u.online /\ given' = given \cup {Auth!Me(h).token}
             \/ Auth!Me(h).op = "rollback" /\ u.online /\ given' = given
             \/ Auth!Me(h).op = "edit" /\ u.online = copy.online /\ given' = given
      PROVE  OnlineInv'
  <2>1. user' = u
    BY <1>6 DEF Auth!SaveUser
  <2>2. GoesOn(Auth!Me(h), Auth!Idle) /\ OpFits(Auth!Idle) /\ LogoutStep(Auth!Me(h), Auth!Idle)
    BY <1>2 DEF GoesOn, OpFits, LogoutStep
  <2>3. RecordStep(Auth!Me(h), Auth!Idle)
    BY <1>1, <1>4, <1>6, <2>1 DEF RecordStep
  <2>4. EndStep(Auth!Me(h), Auth!Idle)
    <3>1. Auth!Me(h).op = "rollback" /\ user' = user => ~user.there \/ user.online
      BY <1>6, <2>1
    <3> QED
      BY <1>1, <1>6, <2>1, <3>1 DEF EndStep, Ending
  <2>5. SessionStep(Auth!Me(h), Auth!Idle)
    BY <1>1, <1>2, <1>4, <1>6 DEF SessionStep
  <2>6. OnlineStep(Auth!Me(h), Auth!Idle)
    BY <1>4, <1>6, <2>2, <2>3, <2>4, <2>5 DEF OnlineStep
  <2>7. \A y : SameFor(y, Auth!Idle) /\ (Auth!Idle = Auth!Idle => y = Auth!Idle) => OnlineStep(Auth!Me(h), y)
    BY <2>6
  <2> QED
    BY <1>1, <1>6, <2>7, SaveOnline
<1>7. CASE /\ Auth!Me(h).op = "login" /\ excused' = excused
           /\ Auth!SaveUser(h, [copy EXCEPT !.online = TRUE], Auth!Idle)
           /\ given' = given \cup {Auth!Me(h).token}
  <2> DEFINE u == [copy EXCEPT !.online = TRUE]
  <2>1. u \in Auth!Users /\ u.there = copy.there /\ u.online
    BY <1>3 DEF Auth!Users
  <2> QED
    BY <1>6, <1>7, <2>1
<1>8. CASE /\ Auth!Me(h).op = "rollback" /\ excused' = excused /\ given' = given
           /\ Auth!SaveUser(h, [copy EXCEPT !.online = TRUE], Auth!Idle)
  <2> DEFINE u == [copy EXCEPT !.online = TRUE]
  <2>1. u \in Auth!Users /\ u.there = copy.there /\ u.online
    BY <1>3 DEF Auth!Users
  <2> QED
    BY <1>6, <1>8, <2>1
<1>9. CASE /\ Auth!Me(h).op = "edit" /\ excused' = excused /\ given' = given
           /\ \E role \in Roles, enabled \in BOOLEAN :
                Auth!SaveUser(h, [copy EXCEPT !.role = role, !.enabled = enabled], Auth!Idle)
  <2>1. PICK role \in Roles, enabled \in BOOLEAN :
          Auth!SaveUser(h, [copy EXCEPT !.role = role, !.enabled = enabled], Auth!Idle)
    BY <1>9
  <2> DEFINE u == [copy EXCEPT !.role = role, !.enabled = enabled]
  <2>2. u \in Auth!Users /\ u.there = copy.there /\ u.online = copy.online
    BY <1>3 DEF Auth!Users
  <2> QED
    BY <1>6, <1>9, <2>1, <2>2
<1>10. CASE /\ Auth!Me(h).op = "logout" /\ excused' = excused /\ given' = given
            /\ Auth!SaveUser(h, [copy EXCEPT !.online = FALSE], [Auth!Me(h) EXCEPT !.at = "forget"])
  <2> DEFINE u == [copy EXCEPT !.online = FALSE]
             x == [Auth!Me(h) EXCEPT !.at = "forget"]
  <2>1. u \in Auth!Users /\ u.there = copy.there /\ ~u.online
    BY <1>3 DEF Auth!Users
  <2>2. "forget" \in Auth!Steps \ {"idle", "persist", "load"}
    BY DEF Auth!Steps
  <2>3. /\ x \in HandlerStates /\ x.at = "forget" /\ x.op = "logout" /\ x.token = Auth!Me(h).token
        /\ x.other = Auth!Me(h).other
    BY <1>10, <2>2, Goes
  <2>4. Auth!SaveUser(h, u, x) /\ user' = u
    BY <1>10 DEF Auth!SaveUser
  <2> HIDE DEF x, u
  <2>5. ASSUME NEW y, SameFor(y, x) PROVE OnlineStep(Auth!Me(h), y)
    <3>1. /\ y.at = "forget" /\ y.op = "logout" /\ y.token = Auth!Me(h).token /\ y.other = Auth!Me(h).other
          /\ ~y.other /\ Auth!Me(h).token \in given /\ Auth!Me(h).at # "load"
      BY <1>1, <1>2, <1>10, <2>3, <2>5 DEF SameFor, OpFits
    <3>2. GoesOn(Auth!Me(h), y)
      BY <1>10, <3>1 DEF GoesOn
    <3>3. OpFits(y)
      BY <3>1 DEF OpFits, Auth!Writes
    <3>4. SessionStep(Auth!Me(h), y)
      BY <1>4, <1>10, <3>1, SessionsShrink
    <3>5. LogoutStep(Auth!Me(h), y)
      BY <1>1, <1>4, <2>1, <2>4, <3>1 DEF LogoutStep
    <3>6. EndStep(Auth!Me(h), y)
      BY <1>1, <1>10 DEF EndStep, Ending
    <3>7. RecordStep(Auth!Me(h), y)
      BY <1>1, <1>4, <1>10, <2>1, <2>4, <3>1 DEF RecordStep, Ending
    <3> QED
      BY <1>4, <1>10, <3>2, <3>3, <3>4, <3>5, <3>6, <3>7 DEF OnlineStep
  <2> QED
    BY <1>1, <2>1, <2>3, <2>4, <2>5, SaveOnline
<1> QED
  BY <1>5, <1>7, <1>8, <1>9, <1>10 DEF Auth!WriteUser

LEMMA ForgetOnline ==
  ASSUME Auth!ConstantsOK, Inv, Inv', OnlineInv, NEW h \in Handlers, Auth!Forget(h)
  PROVE  OnlineInv'
<1> USE Here
<1> DEFINE x == [Auth!Me(h) EXCEPT !.at = "dropRow"]
<1>1. /\ Auth!At(h, "forget") /\ ~Auth!At(h, "idle") /\ Auth!Me(h).at = "forget" /\ OpFits(Auth!Me(h))
      /\ given \subseteq Tokens
  BY DEF Auth!Forget, Auth!At, OnlineInv, OpsFit, Auth!Me, Inv, LocalTypes, Auth!TypeOK
<1>2. Auth!Me(h).op \in {"logout", "refused"} /\ (Auth!Me(h).op = "logout" => Auth!Me(h).token \in given)
  BY <1>1 DEF OpFits
<1>3. UNCHANGED <<rows, expired, user, given, revoked, excused>>
  BY DEF Auth!Forget
<1>4. \A t \in Tokens : cache'[t] # "none" => cache[t] # "none"
  BY DEF Auth!Forget
<1>5. Auth!Me(h).op = "logout" => cache'[Auth!Me(h).token] = "none"
  BY <1>1, <1>2 DEF Auth!Forget
<1>6. "dropRow" \in Auth!Steps \ {"idle", "persist", "load"}
  BY DEF Auth!Steps
<1>7. /\ x \in HandlerStates /\ x.at = "dropRow" /\ x.token = Auth!Me(h).token /\ x.op = Auth!Me(h).op
      /\ x.other = Auth!Me(h).other /\ Auth!Becomes(h, x)
  BY <1>6, Goes DEF Auth!Goto, Auth!Forget
<1> HIDE DEF x
<1>8. x # Auth!Idle
  BY <1>7
<1>9. GoesOn(Auth!Me(h), x) /\ OpFits(x)
  BY <1>1, <1>2, <1>7 DEF GoesOn, OpFits
<1>10. SessionStep(Auth!Me(h), x)
  BY <1>3, <1>4, <1>8, <1>1 DEF SessionStep
<1>11. LogoutStep(Auth!Me(h), x)
  BY <1>1, <1>2, <1>3, <1>4, <1>5, <1>7 DEF LogoutStep
<1>12. EndStep(Auth!Me(h), x)
  BY <1>2, <1>7, <1>8 DEF EndStep, Ending
<1>13. RecordStep(Auth!Me(h), x)
  BY <1>3 DEF RecordStep
<1> QED
  BY <1>1, <1>3, <1>7, <1>9, <1>10, <1>11, <1>12, <1>13, OnlineBecomes DEF OnlineStep

LEMMA DropRowOnline ==
  ASSUME Auth!ConstantsOK, Inv, Inv', OnlineInv, NEW h \in Handlers, Auth!DropRow(h)
  PROVE  OnlineInv'
<1> USE Here
<1>1. /\ Auth!At(h, "dropRow") /\ ~Auth!At(h, "idle") /\ Auth!Me(h).at = "dropRow" /\ OpFits(Auth!Me(h))
      /\ given \subseteq Tokens /\ Auth!Idle.op = "none"
  BY IdleTypes DEF Auth!DropRow, Auth!At, OnlineInv, OpsFit, Auth!Me, Inv, LocalTypes, Auth!TypeOK
<1>2. Auth!Me(h).op \in {"logout", "refused"} /\ (Auth!Me(h).op = "logout" => Auth!Me(h).token \in given)
  BY <1>1 DEF OpFits
<1>3. UNCHANGED <<cache, expired, user, given>> /\ (excused => excused')
  BY DEF Auth!DropRow
<1>4. \A t \in Tokens : rows'[t] # "none" => rows[t] # "none"
  BY DEF Auth!DropRow, Auth!Without
<1>5. ASSUME Auth!Becomes(h, Auth!Idle),
             \/ rows' = Auth!Without({Auth!Me(h).token})
             \/ excused' /\ Auth!Me(h).op = "refused"
             \/ Auth!Me(h).op = "logout" /\ Auth!Me(h).other,
             \/ revoked' = revoked
             \/ revoked' = revoked \cup Auth!Me(h).ends /\ Auth!Me(h).op = "logout"
      PROVE  OnlineInv'
  <2>1. GoesOn(Auth!Me(h), Auth!Idle) /\ OpFits(Auth!Idle) /\ LogoutStep(Auth!Me(h), Auth!Idle)
    BY <1>1 DEF GoesOn, OpFits, LogoutStep
  <2>2. SessionStep(Auth!Me(h), Auth!Idle)
    BY <1>1, <1>3, <1>4, <1>5 DEF SessionStep, Auth!Without
  <2>3. EndStep(Auth!Me(h), Auth!Idle)
    BY <1>1, <1>2, <1>3, <1>5 DEF EndStep, Ending, Auth!Without
  <2>4. RecordStep(Auth!Me(h), Auth!Idle)
    BY <1>1, <1>3, <1>5 DEF RecordStep
  <2> QED
    BY <1>1, <1>3, <1>5, <2>1, <2>2, <2>3, <2>4, OnlineBecomes DEF OnlineStep
<1>6. CASE /\ rows' = Auth!Without({Auth!Me(h).token}) /\ Auth!Return(h)
           /\ revoked' = IF Auth!Me(h).op = "logout" /\ Auth!Me(h).alone THEN revoked \cup Auth!Me(h).ends ELSE revoked
  BY <1>5, <1>6 DEF Auth!Return
<1>7. CASE /\ revoked' = revoked /\ excused' = (excused \/ Auth!Me(h).op = "refused")
           /\ ~(Auth!Me(h).op = "logout" /\ ~Auth!Me(h).other) /\ Auth!Return(h)
  BY <1>2, <1>5, <1>7 DEF Auth!Return
<1>8. CASE /\ revoked' = revoked /\ Auth!Me(h).op = "logout" /\ ~Auth!Me(h).other
           /\ Auth!Becomes(h, [Auth!Me(h) EXCEPT !.op = "rollback", !.at = "readUser"])
  <2> DEFINE x == [Auth!Me(h) EXCEPT !.op = "rollback", !.at = "readUser"]
  <2>1. x \in HandlerStates /\ x.at = "readUser" /\ x.op = "rollback" /\ x.token = Auth!Me(h).token
    BY DEF HandlerStates, Auth!Steps, Ops
  <2>2. Auth!Becomes(h, x)
    BY <1>8
  <2> HIDE DEF x
  <2>3. GoesOn(Auth!Me(h), x) /\ OpFits(x) /\ LogoutStep(Auth!Me(h), x) /\ EndStep(Auth!Me(h), x)
    BY <1>1, <1>2, <1>8, <2>1 DEF GoesOn, OpFits, Auth!Writes, LogoutStep, EndStep
  <2>4. SessionStep(Auth!Me(h), x)
    BY <1>1, <1>3, <1>4, <1>8, SessionsShrink
  <2>5. RecordStep(Auth!Me(h), x)
    BY <1>3, <1>8 DEF RecordStep
  <2> QED
    BY <1>1, <1>3, <2>1, <2>2, <2>3, <2>4, <2>5, OnlineBecomes DEF OnlineStep
<1> QED
  BY <1>6, <1>7, <1>8 DEF Auth!DropRow

-----------------------------------------------------------------------------
(* Arrivals: a writer finds nobody under way, and nobody a writer, unless  *)
(* excused.                                                                *)
LEMMA ArriveOnline ==
  ASSUME Auth!ConstantsOK, Inv, Inv', OnlineInv, NEW h \in Handlers, NEW first \in HandlerStates,
         Auth!Arrive(h, first), OpFits(first), first.at \notin {"idle", "saveUser"},
         first.op = "logout" => first.at \in {"load", "check"}, first.op # "rollback",
         first.token \in given /\ cache[first.token] = "none" => first.at = "load"
  PROVE  OnlineInv'
<1> USE Here
<1>1. /\ UNCHANGED <<cache, rows, expired, user, given, revoked>>
      /\ handler[h] = Auth!Idle /\ excused' = (excused \/ Auth!Overlaps(first.op))
  BY DEF Auth!Arrive, Auth!sessions, Inv, RevokeInv, Shape, Auth!At, Auth!Me
<1>2. Auth!Idle.at = "idle" /\ Auth!Idle.op = "none"
  BY IdleTypes DEF Inv
<1>3. SameFor(handler'[h], first)
  <2> DEFINE alone == \A b \in Auth!Busy : Auth!Me(b).token \notin first.ends
  <2>1. handler'[h] = [first EXCEPT !.had = Auth!RoleNow(user), !.alone = alone]
    BY DEF Auth!Arrive
  <2> HIDE DEF alone
  <2> QED
    BY <2>1 DEF HandlerStates, SameFor
<1>4. ASSUME NEW g \in Handlers \ {h}
      PROVE  SameFor(handler'[g], handler[g]) /\ (handler[g] = Auth!Idle => handler'[g] = Auth!Idle)
  <2>1. CASE handler[g] = Auth!Idle
    BY <2>1 DEF Auth!Arrive, Auth!Me, SameFor
  <2>2. CASE handler[g] # Auth!Idle
    <3>1. handler'[g] = [Auth!Me(g) EXCEPT !.alone = @ /\ first.token \notin Auth!Me(g).ends]
      BY <2>2 DEF Auth!Arrive, Auth!Me
    <3>2. handler[g] \in HandlerStates
      BY DEF Inv, LocalTypes
    <3> QED
      BY <2>2, <3>1, <3>2 DEF HandlerStates, SameFor, Auth!Me
  <2> QED
    BY <2>1, <2>2
<1>5. OpsFit'
  <2>1. \A g \in Handlers : OpFits(handler[g])
    BY DEF OnlineInv, OpsFit
  <2>2. ASSUME NEW g \in Handlers PROVE OpFits(handler[g])'
    <3>1. CASE g = h
      BY <1>1, <1>3, <3>1 DEF OpFits, SameFor
    <3>2. CASE g # h
      BY <1>1, <1>4, <2>1, <3>2 DEF OpFits, SameFor
    <3> QED
      BY <3>1, <3>2
  <2> QED
    BY <2>2 DEF OpsFit
<1>6. SUFFICES ASSUME ~excused'
               PROVE  /\ WritersAlone' /\ CopyIsUser' /\ RowsAreGiven' /\ OthersSeen'
                      /\ OfflineIsOut' /\ OutIsOffline'
  BY <1>5 DEF OnlineInv
<1>7. ~excused /\ WritersAlone /\ CopyIsUser /\ RowsAreGiven /\ OthersSeen /\ OfflineIsOut /\ OutIsOffline
  BY <1>1, <1>6 DEF OnlineInv
<1>8. ASSUME NEW g \in Handlers \ {h}, handler[g] # Auth!Idle
      PROVE  ~Auth!Writes(first.op) /\ ~Auth!Writes(handler[g].op)
  BY <1>1, <1>6, <1>8 DEF Auth!Overlaps, Auth!Busy, Auth!Me
<1>9. ASSUME NEW g \in Handlers \ {h}
      PROVE  /\ handler'[g].op = handler[g].op /\ handler'[g].at = handler[g].at
             /\ handler'[g].token = handler[g].token /\ ~Auth!Writes(handler[g].op)
             /\ handler[g].op \notin {"logout", "rollback"} /\ ~Ending(handler[g])
             /\ handler[g].at # "saveUser"
  <2>1. ~Auth!Writes(handler[g].op)
    BY <1>2, <1>8 DEF Auth!Writes
  <2>2. OpFits(handler[g])
    BY DEF OnlineInv, OpsFit
  <2> QED
    BY <1>4, <2>1, <2>2 DEF SameFor, Auth!Writes, OpFits, Ending
<1>10. WritersAlone'
  <2>1. ASSUME NEW f \in Handlers, NEW g \in Handlers, f # g, handler'[f].at # "idle", handler'[g].at # "idle"
        PROVE  ~Auth!Writes(handler'[g].op)
    <3>1. CASE g = h
      <4>1. f \in Handlers \ {h} /\ handler[f] # Auth!Idle
        BY <1>2, <1>4, <2>1, <3>1
      <4> QED
        BY <1>3, <1>8, <3>1, <4>1 DEF SameFor
    <3>2. CASE g # h
      BY <1>9, <3>2
    <3> QED
      BY <3>1, <3>2
  <2> QED
    BY <2>1 DEF WritersAlone, Auth!At, Auth!Me
<1>11. CopyIsUser'
  BY <1>3, <1>9 DEF CopyIsUser, SameFor, Auth!At, Auth!Me
<1>12. RowsAreGiven'
  <2>1. SUFFICES ASSUME NEW t \in Tokens \ given, rows[t] # "none"
                 PROVE  \E g \in Handlers : Owns(handler'[g], t)
    BY <1>1 DEF RowsAreGiven, Owns
  <2>2. PICK g \in Handlers : Owns(handler[g], t)
    BY <1>7, <2>1 DEF RowsAreGiven
  <2>3. g # h
    BY <1>1, <1>2, <2>2 DEF Owns
  <2> QED
    BY <1>9, <2>2, <2>3 DEF Owns
<1>13. OthersSeen'
  <2>1. handler'[h].op = "logout" => handler'[h].at \in {"load", "check"}
    BY <1>3 DEF SameFor
  <2> QED
    BY <1>9, <2>1 DEF OthersSeen, SeesOthers, Ending, Auth!Me
<1>14. OfflineIsOut'
  <2>1. SUFFICES ASSUME user.there, ~user.online, NEW t \in given \ expired
                 PROVE  /\ cache[t] = "none" /\ rows[t] = "none"
                        /\ \A g \in Handlers : handler'[g].token = t => handler'[g].at = "load"
    BY <1>1 DEF OfflineIsOut, Gone, Auth!Me, Auth!At
  <2>2. \A g \in Handlers : ~Ending(handler[g]) /\ handler[g].op # "rollback"
    BY <1>1, <1>2, <1>9 DEF Ending
  <2>3. Gone(t) /\ \A g \in Handlers : handler[g].token = t => handler[g].at = "load"
    BY <1>7, <2>1, <2>2 DEF OfflineIsOut, Auth!Me, Auth!At
  <2>4. handler'[h].token = t => handler'[h].at = "load"
    BY <1>3, <2>1, <2>3 DEF SameFor, Gone
  <2> QED
    BY <1>9, <2>3, <2>4 DEF Gone
<1>15. OutIsOffline'
  BY <1>1, <1>7 DEF OutIsOffline
<1> QED
  BY <1>10, <1>11, <1>12, <1>13, <1>14, <1>15

LEMMA LoginOnline ==
  ASSUME Auth!ConstantsOK, Inv, Inv', OnlineInv, NEW h \in Handlers, Auth!Login(h)
  PROVE  OnlineInv'
<1> USE Here
<1>1. PICK t \in Tokens \ drawn :
        Auth!Arrive(h, [Auth!Idle EXCEPT !.op = "login", !.at = "persist", !.token = t, !.session = user.role])
  BY DEF Auth!Login
<1> DEFINE first == [Auth!Idle EXCEPT !.op = "login", !.at = "persist", !.token = t, !.session = user.role]
<1>2. user.role \in Auth!Sessions
  BY DEF Auth!Users, Auth!Sessions
<1>3. first \in HandlerStates /\ first.op = "login" /\ first.at = "persist" /\ first.token = t
  BY <1>2 DEF HandlerStates, Ops, Auth!Steps
<1>4. t \notin given
  BY DEF Inv, LocalTypes, Auth!TypeOK
<1>5. Auth!Arrive(h, first)
  BY <1>1
<1> HIDE DEF first
<1>6. OpFits(first)
  BY <1>3 DEF OpFits
<1> QED
  BY <1>3, <1>4, <1>5, <1>6, ArriveOnline

LEMMA RequestOnline ==
  ASSUME Auth!ConstantsOK, Inv, Inv', OnlineInv, NEW h \in Handlers, Auth!Request(h)
  PROVE  OnlineInv'
<1>1. PICK t \in given, op \in {"me", "logout", "password"}, first \in HandlerStates :
        /\ Auth!Arrive(h, first) /\ first.token = t
        /\ (first.at \in {"load", "check"} /\ first.op = op) \/ (first.at = "forget" /\ first.op = "refused")
        /\ cache[t] = "none" => first.at = "load"
  BY RequestArrives
<1>2. OpFits(first)
  BY <1>1 DEF OpFits
<1> QED
  BY <1>1, <1>2, ArriveOnline

LEMMA EditOnline ==
  ASSUME Auth!ConstantsOK, Inv, Inv', OnlineInv, NEW h \in Handlers, Auth!Edit(h)
  PROVE  OnlineInv'
<1> USE Here
<1> DEFINE first == [Auth!Idle EXCEPT !.op = "edit", !.at = "readUser"]
<1>1. first \in HandlerStates /\ first.op = "edit" /\ first.at = "readUser" /\ first.token = "none"
  BY DEF HandlerStates, Ops, Auth!Steps, Auth!Idle
<1>2. "none" \notin given
  BY DEF Inv, LocalTypes, Auth!TypeOK, Auth!ConstantsOK
<1>3. Auth!Arrive(h, first)
  BY DEF Auth!Edit
<1> HIDE DEF first
<1>4. OpFits(first)
  BY <1>1 DEF OpFits, Auth!Writes
<1> QED
  BY <1>1, <1>2, <1>3, <1>4, ArriveOnline

-----------------------------------------------------------------------------
(* With nobody under way, little has to hold of the user's record. *)
LEMMA QuietOnline ==
  ASSUME Auth!ConstantsOK, Inv, \A h \in Handlers : handler[h] = Auth!Idle,
         ~excused => /\ \A t \in Tokens \ given : rows[t] = "none"
                     /\ user.there /\ ~user.online => \A t \in given \ expired : Gone(t)
                     /\ OutIsOffline
  PROVE  OnlineInv
<1>1. Auth!Idle.at = "idle" /\ Auth!Idle.op = "none" /\ Auth!Idle.token = "none"
  BY IdleTypes DEF Inv, Auth!Idle
<1>2. "none" \notin given
  BY DEF Inv, LocalTypes, Auth!TypeOK, Auth!ConstantsOK
<1>3. OpsFit
  BY <1>1 DEF OpsFit, OpFits
<1>4. WritersAlone /\ CopyIsUser /\ OthersSeen
  BY <1>1 DEF WritersAlone, CopyIsUser, OthersSeen, Auth!Me, Auth!At
<1>5. ~excused => RowsAreGiven /\ OfflineIsOut
  BY <1>1, <1>2 DEF RowsAreGiven, OfflineIsOut, Auth!Me
<1> QED
  BY <1>3, <1>4, <1>5 DEF OnlineInv

LEMMA DeleteUserOnline ==
  ASSUME Auth!ConstantsOK, Inv, Inv', OnlineInv, Auth!DeleteUser
  PROVE  OnlineInv'
<1>1. UNCHANGED <<cache, rows, expired, handler, given, revoked>> /\ ~user'.there
  BY DEF Auth!DeleteUser, Auth!sessions, Inv, LocalTypes, Auth!TypeOK, Auth!Users
<1>2. OpsFit'
  BY <1>1 DEF OnlineInv, OpsFit, OpFits
<1>3. SUFFICES ASSUME ~excused'
               PROVE  /\ WritersAlone' /\ CopyIsUser' /\ RowsAreGiven' /\ OthersSeen'
                      /\ OfflineIsOut' /\ OutIsOffline'
  BY <1>2 DEF OnlineInv
<1>4. ~excused /\ \A h \in Handlers : handler[h] = Auth!Idle
  BY <1>3 DEF Auth!DeleteUser, Auth!Overlaps, Auth!Writes, Auth!Busy, Auth!Me
<1>5. Auth!Idle.at = "idle" /\ Auth!Idle.op = "none"
  BY IdleTypes DEF Inv
<1>6. WritersAlone' /\ CopyIsUser' /\ OthersSeen'
  BY <1>1, <1>4, <1>5 DEF WritersAlone, CopyIsUser, OthersSeen, Auth!Me, Auth!At
<1>7. RowsAreGiven'
  BY <1>1, <1>4 DEF OnlineInv, RowsAreGiven, Owns
<1> QED
  BY <1>1, <1>6, <1>7 DEF OfflineIsOut, OutIsOffline

LEMMA ExpireOnline ==
  ASSUME OnlineInv, Auth!Expire
  PROVE  OnlineInv'
<1>1. UNCHANGED <<cache, rows, user, handler, given, revoked, excused>> /\ expired \subseteq expired'
  BY DEF Auth!Expire
<1>2. OpsFit'
  BY <1>1 DEF OnlineInv, OpsFit, OpFits
<1>3. ~excused => (WritersAlone /\ CopyIsUser /\ RowsAreGiven /\ OutIsOffline)'
  BY <1>1 DEF OnlineInv, WritersAlone, CopyIsUser, RowsAreGiven, OutIsOffline, Owns, Auth!Me, Auth!At
<1>4. ~excused => OthersSeen'
  BY <1>1 DEF OnlineInv, OthersSeen, SeesOthers, Ending, Gone, Auth!Me
<1>5. ~excused => OfflineIsOut'
  BY <1>1 DEF OnlineInv, OfflineIsOut, Ending, Gone, Auth!Me, Auth!At
<1> QED
  BY <1>1, <1>2, <1>3, <1>4, <1>5 DEF OnlineInv

LEMMA RestartOnline ==
  ASSUME Auth!ConstantsOK, Inv, Inv', OnlineInv, Auth!Restart
  PROVE  OnlineInv'
<1>1. /\ cache' = [t \in Tokens |-> "none"] /\ UNCHANGED <<rows, expired, user, given, revoked>>
      /\ \A h \in Handlers : handler'[h] = Auth!Idle
      /\ excused' = (excused \/ \E h \in Auth!Busy : Auth!Writes(Auth!Me(h).op) \/ Auth!Me(h).op = "refused")
  BY DEF Auth!Restart
<1>2. /\ Auth!Idle.at = "idle" /\ Auth!Idle.op = "none" /\ Auth!Idle.token = "none"
      /\ given \subseteq Tokens /\ "none" \notin given
  BY IdleTypes DEF Inv, Auth!Idle, LocalTypes, Auth!TypeOK, Auth!ConstantsOK
<1>3. OpsFit'
  BY <1>1, <1>2 DEF OpsFit, OpFits
<1>4. SUFFICES ASSUME ~excused'
               PROVE  /\ WritersAlone' /\ CopyIsUser' /\ RowsAreGiven' /\ OthersSeen'
                      /\ OfflineIsOut' /\ OutIsOffline'
  BY <1>3 DEF OnlineInv
<1>5. ~excused /\ \A h \in Handlers : handler[h].op \notin {"login", "logout", "rollback", "refused"}
  BY <1>1, <1>2, <1>4 DEF Auth!Busy, Auth!Writes, Auth!Me
<1>6. WritersAlone' /\ CopyIsUser' /\ OthersSeen'
  BY <1>1, <1>2 DEF WritersAlone, CopyIsUser, OthersSeen, Auth!Me, Auth!At
<1>7. RowsAreGiven'
  BY <1>1, <1>5 DEF OnlineInv, RowsAreGiven, Owns
<1>8. OfflineIsOut'
  BY <1>1, <1>2, <1>5 DEF OnlineInv, OfflineIsOut, Ending, Gone, Auth!Me, Auth!At
<1>9. OutIsOffline'
  BY <1>1, <1>5 DEF OnlineInv, OutIsOffline
<1> QED
  BY <1>6, <1>7, <1>8, <1>9

LEMMA InitOnline ==
  ASSUME Auth!ConstantsOK, Auth!Init, Inv
  PROVE  OnlineInv
<1>1. /\ \A h \in Handlers : handler[h] = Auth!Idle
      /\ \A t \in Tokens : rows[t] = "none"
      /\ given = {} /\ ~user.online
  BY DEF Auth!Init
<1> QED
  BY <1>1, QuietOnline DEF OutIsOffline

LEMMA NextOnline ==
  ASSUME Auth!ConstantsOK, Inv, Inv', OnlineInv, [Auth!Next]_Auth!vars
  PROVE  OnlineInv'
<1>1. ASSUME NEW h \in Handlers,
             \/ Auth!Login(h) \/ Auth!Request(h) \/ Auth!Edit(h) \/ Auth!Persist(h) \/ Auth!Remember(h)
             \/ Auth!Load(h) \/ Auth!Fill(h) \/ Auth!Check(h) \/ Auth!PersistRole(h) \/ Auth!RememberRole(h) \/ Auth!Serve(h)
             \/ Auth!Others(h) \/ Auth!ReadUser(h) \/ Auth!WriteUser(h) \/ Auth!Forget(h) \/ Auth!DropRow(h)
             \/ Auth!List(h) \/ Auth!DropOther(h) \/ Auth!ForgetOthers(h)
      PROVE  OnlineInv'
  BY <1>1, LoginOnline, RequestOnline, EditOnline, PersistOnline, RememberOnline, LoadOnline, FillOnline,
     CheckOnline, PersistRoleOnline, RememberRoleOnline, ServeOnline, OthersOnline, ReadUserOnline,
     WriteUserOnline, ForgetOnline, DropRowOnline, ListOnline, DropOtherOnline, ForgetOthersOnline
<1>2. CASE UNCHANGED Auth!vars
  <2>1. UNCHANGED <<cache, rows, expired, user, handler, given, revoked, excused>>
    BY <1>2 DEF Auth!vars, Auth!sessions
  <2>2. OpsFit'
    BY <2>1 DEF OnlineInv, OpsFit, OpFits
  <2>3. ~excused => (WritersAlone /\ CopyIsUser /\ RowsAreGiven /\ OutIsOffline)'
    BY <2>1 DEF OnlineInv, WritersAlone, CopyIsUser, RowsAreGiven, OutIsOffline, Owns, Auth!Me, Auth!At
  <2>4. ~excused => (OthersSeen /\ OfflineIsOut)'
    BY <2>1 DEF OnlineInv, OthersSeen, SeesOthers, OfflineIsOut, Ending, Gone, Auth!Me, Auth!At
  <2> QED
    BY <2>1, <2>2, <2>3, <2>4 DEF OnlineInv
<1> QED
  BY <1>1, <1>2, DeleteUserOnline, ExpireOnline, RestartOnline DEF Auth!Next

LEMMA OnlineInvariance == ASSUME Auth!ConstantsOK PROVE Auth!Spec => []OnlineInv
<1>1. Auth!Init /\ Inv => OnlineInv
  BY InitOnline
<1>2. Inv /\ Inv' /\ OnlineInv /\ [Auth!Next]_Auth!vars => OnlineInv'
  BY NextOnline
<1> QED
  BY <1>1, <1>2, Invariance, PTL DEF Auth!Spec

(* What the invariants say at rest.                                        *)
LEMMA OnlineShows == ASSUME Inv, OnlineInv PROVE Auth!OnlineMatches
<1>1. SUFFICES ASSUME Auth!Busy = {}, user.there, ~excused
               PROVE  /\ (\E t \in given : Auth!Live(t)) => user.online
                      /\ given \subseteq revoked => ~user.online
  BY DEF Auth!OnlineMatches
<1>2. \A h \in Handlers : handler[h].op = "none"
  BY <1>1, IdleTypes DEF Auth!Busy, Auth!Me, Inv
<1>3. OfflineIsOut /\ OutIsOffline
  BY <1>1 DEF OnlineInv
<1>4. ~user.online => \A t \in given \ expired : Gone(t)
  BY <1>1, <1>2, <1>3 DEF OfflineIsOut, Ending, Auth!Me
<1> QED
  BY <1>1, <1>3, <1>4 DEF OutIsOffline, Auth!Live, Gone

(* With no request under way, a user who holds a live session is recorded  *)
(* as online and one whose sessions were all ended is not                  *)
(* (revokeAuthSession, recordUserLoginState), whichever store operations   *)
(* failed, but for what OnlineMatches excepts.                             *)
THEOREM OnlineIsRecorded == ASSUME Auth!ConstantsOK PROVE Auth!Spec => []Auth!OnlineMatches
<1>1. Inv /\ OnlineInv => Auth!OnlineMatches
  BY OnlineShows
<1> QED
  BY <1>1, Invariance, OnlineInvariance, PTL

(* All that is known of the login sessions.                                *)
AuthInv == Inv /\ OnlineInv

LEMMA AuthOpens == ASSUME Auth!ConstantsOK, Auth!Init PROVE AuthInv
BY InitInv, InitOnline DEF AuthInv

LEMMA AuthKeeps ==
  ASSUME Auth!ConstantsOK, AuthInv, [Auth!Next]_Auth!vars PROVE AuthInv'
<1>1. Inv'
  BY NextKeeps DEF AuthInv
<1> QED BY <1>1, NextOnline DEF AuthInv

LEMMA AuthShows ==
  ASSUME AuthInv
  PROVE  Auth!TypeOK /\ Auth!RevokedIsDead /\ Auth!ServedAsUser /\ Auth!OnlineMatches
<1>1. Auth!TypeOK /\ Auth!RevokedIsDead
  BY DEF AuthInv, Inv, LocalTypes, RevokeInv, DeadStays, Auth!RevokedIsDead
<1>2. Auth!ServedAsUser
  BY DEF AuthInv, Inv, RoleInv, Auth!ServedAsUser, Auth!At
<1> QED BY <1>1, <1>2, OnlineShows DEF AuthInv
=============================================================================

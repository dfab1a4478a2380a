---------------------------- MODULE RecordingRow ----------------------------
(***************************************************************************)
(* One row of the closed sessions with a recording (ResourceRowActions):   *)
(* the badge with the state of its transcoding, which follows both the     *)
(* rows the page loads and a poll every second, and the buttons that start *)
(* a transcoding and delete the recording.  The server is abstracted to    *)
(* the stored state, the registry of running jobs and the job itself; the  *)
(* module Recording has their files, logs and failures.                    *)
(***************************************************************************)
EXTENDS Naturals, FiniteSets

CONSTANTS MaxStarts,  \* bound on the jobs, restarts and questions of one behaviour
          MaxPolls    \* bound on the polls under way together

(* What the values of the constants satisfy. *)
ConstantsOK == MaxStarts \in Nat /\ MaxPolls \in Nat

VARIABLES
  status, recording,  \* the stored item: its transcoding and whether it has a recording
  running, job,       \* the registry, and the goroutine
  persisted, present, \* the row as the page loaded it
  badge,              \* transcodeStatus
  transcoding, asking,\* busy flag and the open confirmation
  reqs, load, steps,
  retried,            \* history: a job was started over a state the page already knew
  missed              \* history: the stored state changed without a refresh to follow

server == <<status, recording, running, job>>
row == <<persisted, present, badge, transcoding, asking>>
history == <<retried, missed>>
vars == <<server, row, reqs, load, steps, history>>

Active == {"queued", "processing"}
Terminal == {"completed", "failed"}
Statuses == {"none"} \cup Active \cup Terminal
NoLoad == [phase |-> "none", status |-> "none", recording |-> TRUE]

TypeOK ==
  /\ {status, persisted, badge} \subseteq Statuses
  /\ {recording, running, present, transcoding, asking} \subseteq BOOLEAN
  /\ job \in {"none", "queued", "processing", "saved"}
  /\ load \in [phase : {"none", "sent", "served"}, status : Statuses, recording : BOOLEAN]
  /\ \A r \in reqs : r.kind \in {"poll", "start", "delete"} /\ r.value \in Statuses \cup {"error"}
                      /\ r.n \in 1 .. MaxPolls + MaxStarts

Init ==
  /\ status \in {"none"} \cup Terminal /\ recording = TRUE /\ running = FALSE /\ job = "none"
  /\ persisted = status /\ present = TRUE /\ badge = status
  /\ transcoding = FALSE /\ asking = FALSE /\ reqs = {} /\ load = NoLoad /\ steps = 0
  /\ retried = FALSE /\ missed = FALSE

(***************************************************************************)
(* The row                                                                 *)
(***************************************************************************)

(* Mutant: only a queued job is polled. *)
PollingQueued == badge = "queued"

Polling == badge \in Active
Polls == {r \in reqs : r.kind = "poll"}

(* Mutant: the effect keeps no alive flag. *)
EndedPollsKept(rest) == rest

EndedPolls(rest) == {IF r.kind = "poll" THEN [r EXCEPT !.alive = FALSE] ELSE r : r \in rest}

(* A new badge ends the effect and its interval and starts another; of the *)
(* requests that are left, the polls of the old effect are not heard.      *)
SetTranscodeStatus(value, rest) ==
  /\ badge' = value
  /\ reqs' = IF value = badge THEN rest ELSE EndedPolls(rest)

(* "n" tells requests apart. *)
Send(kind) ==
  reqs' = reqs \cup {[n |-> CHOOSE n \in 1 .. MaxPolls + MaxStarts : \A r \in reqs : r.n # n, kind |-> kind,
                     phase |-> "sent", value |-> "none", alive |-> TRUE]}

(* The interval asks whether or not the last answer is there. *)
Poll ==
  /\ Polling /\ Cardinality(Polls) < MaxPolls /\ Send("poll")
  /\ UNCHANGED <<server, row, load, steps, history>>

(* transcodeRecording; the button is disabled while a job is known. *)
TranscodeRecording ==
  /\ present /\ ~transcoding /\ ~Polling /\ steps < MaxStarts /\ steps' = steps + 1
  /\ transcoding' = TRUE /\ Send("start")
  /\ retried' = (retried \/ persisted # "none" \/ badge # "none")
  /\ UNCHANGED <<server, persisted, present, badge, asking, load, missed>>

AskDelete ==
  /\ present /\ ~asking /\ steps < MaxStarts /\ steps' = steps + 1 /\ asking' = TRUE
  /\ UNCHANGED <<server, persisted, present, badge, transcoding, reqs, load, history>>

(* deleteRecording after its question. *)
AnswerDelete(yes) ==
  /\ asking /\ asking' = FALSE
  /\ IF yes THEN Send("delete") ELSE UNCHANGED reqs
  /\ UNCHANGED <<server, persisted, present, badge, transcoding, load, steps, history>>

(***************************************************************************)
(* The server                                                              *)
(***************************************************************************)

Became(r, phase, value) == (reqs \ {r}) \cup {[r EXCEPT !.phase = phase, !.value = value]}
To(r, phase, value) == reqs' = Became(r, phase, value)

(* recordingTranscodeStatus: an item that was read, and the registry now. *)
StatusOf(read) ==
  IF running THEN "processing" ELSE IF read \in Active THEN "failed" ELSE read

(* handleAuditRecordingTranscode reads the item; without a recording the   *)
(* answer is an error.                                                     *)
ReadItem(r) ==
  /\ r.kind = "poll" /\ r.phase = "sent"
  /\ IF recording THEN To(r, "read", status) ELSE To(r, "served", "error")
  /\ UNCHANGED <<server, row, load, steps, history>>

(* startAuditRecordingTranscode, up to the goroutine. *)
StartJob(r) ==
  /\ r.kind = "start" /\ r.phase = "sent"
  /\ IF recording /\ ~running
       THEN /\ running' = TRUE /\ status' = "queued" /\ job' = "queued" /\ To(r, "read", "queued")
       ELSE To(r, "served", "error") /\ UNCHANGED <<running, status, job>>
  /\ UNCHANGED <<recording, row, load, steps, history>>

Answer(r) ==
  /\ r.phase = "read" /\ To(r, "served", StatusOf(r.value))
  /\ UNCHANGED <<server, row, load, steps, history>>

(* Refused while a job is running. *)
DeleteServed(r) ==
  /\ r.kind = "delete" /\ r.phase = "sent"
  /\ IF recording /\ ~running
       THEN recording' = FALSE /\ status' = "none" /\ To(r, "served", "none")
       ELSE To(r, "served", "error") /\ UNCHANGED <<recording, status>>
  /\ UNCHANGED <<running, job, row, load, steps, history>>

Lost(r) ==
  /\ r.phase \in {"sent", "served"} /\ r.value # "error" /\ To(r, "served", "error")
  /\ missed' = (missed \/ (r.phase = "served" /\ r.kind # "poll"))
  /\ UNCHANGED <<server, row, load, steps, retried>>

(* runRecordingTranscode: the registry is left last. *)
JobBegin ==
  /\ job = "queued" /\ job' = "processing" /\ status' = "processing"
  /\ UNCHANGED <<recording, running, row, reqs, load, steps, history>>

JobEnd(result) ==
  /\ job = "processing" /\ job' = "saved" /\ status' = result
  /\ UNCHANGED <<recording, running, row, reqs, load, steps, history>>

JobFinish ==
  /\ job = "saved" /\ job' = "none" /\ running' = FALSE
  /\ UNCHANGED <<status, recording, row, reqs, load, steps, history>>

(* Another administrator starts a job, or the service restarts and         *)
(* reconcileInterruptedRecordingTranscodes ends what was running.          *)
OtherStarts ==
  /\ recording /\ ~running /\ steps < MaxStarts /\ steps' = steps + 1
  /\ running' = TRUE /\ status' = "queued" /\ job' = "queued" /\ missed' = TRUE
  /\ UNCHANGED <<recording, row, reqs, load, retried>>

Restart ==
  /\ steps < MaxStarts /\ steps' = steps + 1
  /\ running' = FALSE /\ job' = "none" /\ status' = IF status \in Active THEN "failed" ELSE status
  /\ reqs' = {IF r.phase = "served" THEN r ELSE [r EXCEPT !.phase = "served", !.value = "error"] : r \in reqs}
  /\ missed' = (missed \/ (\E r \in reqs : r.kind = "start" /\ r.phase = "read"))
  /\ UNCHANGED <<recording, row, load, retried>>

(***************************************************************************)
(* Answers                                                                 *)
(***************************************************************************)

Refresh == load' = [NoLoad EXCEPT !.phase = "sent"]

(* An end is followed by a refresh; an error is shown and nothing else. *)
PollAnswered(r) ==
  /\ r.kind = "poll" /\ r.phase = "served"
  /\ IF r.alive /\ r.value # "error"
       THEN /\ SetTranscodeStatus(r.value, reqs \ {r})
            /\ IF r.value \in Terminal THEN Refresh ELSE UNCHANGED load
       ELSE reqs' = reqs \ {r} /\ UNCHANGED <<badge, load>>
  /\ UNCHANGED <<server, persisted, present, transcoding, asking, steps, history>>

(* The finally clause of transcodeRecording runs after its refresh. *)
StartAnswered(r) ==
  /\ r.kind = "start" /\ r.phase = "served"
  /\ IF r.value = "error"
       THEN reqs' = reqs \ {r} /\ transcoding' = FALSE /\ UNCHANGED <<badge, load>>
       ELSE SetTranscodeStatus(r.value, Became(r, "refresh", r.value)) /\ Refresh /\ UNCHANGED transcoding
  /\ UNCHANGED <<server, persisted, present, asking, steps, history>>

DeleteAnswered(r) ==
  /\ r.kind = "delete" /\ r.phase = "served" /\ reqs' = reqs \ {r}
  /\ IF r.value = "error" THEN UNCHANGED load ELSE Refresh
  /\ UNCHANGED <<server, row, steps, history>>

ServeLoad ==
  /\ load.phase = "sent" /\ load' = [phase |-> "served", status |-> status, recording |-> recording]
  /\ UNCHANGED <<server, row, reqs, steps, history>>

(* Mutant: the loaded state is only taken once. *)
BadgeLoadedOnce(loaded) == IF badge = "none" THEN loaded ELSE badge

(* The effect on the loaded state: it runs when that one changes. *)
BadgeLoaded(loaded) == IF loaded # persisted THEN loaded ELSE badge

(* Mutant: no finally clause. *)
StillTranscodingAlways(over) == transcoding

StillTranscoding(over) == transcoding /\ over = {}

Loaded ==
  /\ load.phase = "served" /\ load' = NoLoad
  /\ persisted' = load.status /\ present' = load.recording
  /\ LET over == {r \in reqs : r.phase = "refresh"} IN
       /\ SetTranscodeStatus(BadgeLoaded(load.status), reqs \ over) /\ transcoding' = StillTranscoding(over)
  /\ UNCHANGED <<server, asking, steps, history>>

JobStep == JobBegin \/ JobFinish \/ \E result \in Terminal : JobEnd(result)

Served(r) ==
  \/ ReadItem(r) \/ StartJob(r) \/ Answer(r) \/ DeleteServed(r)
  \/ PollAnswered(r) \/ StartAnswered(r) \/ DeleteAnswered(r)

Next ==
  \/ Poll \/ TranscodeRecording \/ AskDelete \/ OtherStarts \/ Restart \/ ServeLoad \/ Loaded \/ JobStep
  \/ \E yes \in BOOLEAN : AnswerDelete(yes)
  \/ \E r \in reqs : Served(r) \/ Lost(r)

Spec == Init /\ [][Next]_vars

(* The interval keeps asking, requests are answered and jobs go on.  Polls *)
(* and their answers may be lost, but not all of them for ever.            *)
FairSpec ==
  /\ Spec /\ WF_vars(Poll) /\ WF_vars(JobStep) /\ WF_vars(ServeLoad) /\ WF_vars(Loaded)
  /\ WF_vars(\E r \in reqs : Served(r))
  /\ SF_vars(\E r \in reqs : ReadItem(r))
  /\ SF_vars(\E r \in reqs : PollAnswered(r) /\ r.value # "error")

(***************************************************************************)
(* Properties                                                              *)
(***************************************************************************)

(* At rest a badge on display is the stored state: of a first transcoding, *)
(* when every change was followed by a refresh.                            *)
BadgeSettles ==
  reqs = {} /\ load = NoLoad /\ job = "none" /\ ~Polling /\ present /\ ~retried /\ ~missed => badge = status

(* The answer of a poll never puts a badge that showed the end of a job    *)
(* back to a job under way: the polls of an effect that ended are dropped. *)
NoStepBack ==
  (badge \in Terminal /\ badge' \in Active) => (persisted' # persisted \/ transcoding)

(* The transcoding button is disabled exactly while its request and the    *)
(* refresh after it are under way.                                         *)
BusyIsTrue == transcoding = (\E r \in reqs : r.kind = "start")
=============================================================================

-------------------------- MODULE RecordingPlayer --------------------------
(***************************************************************************)
(* The playback dialog of one recording (RecordingPlaybackDialog): a       *)
(* player of the raw recording, replaced by the video as soon as the       *)
(* polled transcoding state has one.  The player is an object outside      *)
(* React.  An effect makes it and aborts it, the callbacks of an aborted   *)
(* one may still come, and the buttons act on the one in the reference.    *)
(* The position of the slider and the sizes are left out; the library of   *)
(* the player is there.                                                    *)
(***************************************************************************)
EXTENDS Naturals, FiniteSets

CONSTANT MaxPlayers   \* bound on the players made in one behaviour

(* What the values of the constants satisfy. *)
ConstantsOK == MaxPlayers \in Nat \ {0}

VARIABLES
  stored,    \* the server's transcoding state
  query,     \* the state the dialog has, "pending" without one
  fetching,  \* a request for it is under way, and what it was answered
  canRead,
  open,
  current,   \* recordingRef: a player, or NoPlayer
  late,      \* aborted players that may still call back
  aborted,   \* the players that were aborted, by number
  made,      \* number of players made
  loading, error, playing, duration,
  hadVideo   \* history: the dialog has shown a video

dialog == <<query, fetching, canRead, open>>
players == <<current, late, aborted, made>>
display == <<loading, error, playing, duration>>
vars == <<stored, dialog, players, display, hadVideo>>

States == {"none", "processing", "completed", "failed"}

(* "seek" is the callback of a seek that has not been called, "going"      *)
(* whether that seek still goes on, "resume" whether it plays after it.    *)
Phase(n, phase) == [n |-> n, phase |-> phase, plays |-> FALSE, seek |-> "none", going |-> FALSE, resume |-> FALSE]
NoPlayer == Phase(0, "none")
Player == [n : 1 .. MaxPlayers, phase : {"loading", "ready", "error"}, plays : BOOLEAN,
           seek : {"none", "start", "slider"}, going : BOOLEAN, resume : BOOLEAN]

TypeOK ==
  /\ stored \in States /\ query \in States \cup {"pending"} /\ fetching \in States \cup {"no", "sent", "error"}
  /\ current \in Player \cup {NoPlayer} /\ late \subseteq Player /\ aborted \subseteq 1 .. made /\ made \in 0 .. MaxPlayers
  /\ {canRead, open, loading, error, playing, duration} \subseteq BOOLEAN

Video(state) == state = "completed"

(***************************************************************************)
(* The effect                                                              *)
(***************************************************************************)

(* Mutant: the old player is not aborted when its place is taken. *)
AbortedKept == aborted

(* The cleanup aborts the player in the reference, *)
Aborted == IF current = NoPlayer THEN aborted ELSE aborted \cup {current.n}

(* and what it still calls is not heard. *)
Left == IF current = NoPlayer THEN late ELSE late \cup {current}

CleanedUp == aborted' = Aborted /\ late' = Left

(* Mutant: loading is left to the player, also where there is none. *)
LoadingWithVideo == loading

LoadingWith == FALSE

(* The effect for a state of the query and of the permission, after the    *)
(* cleanup of the one before.                                              *)
Effect(state, may) ==
  IF state = "pending" THEN
    CleanedUp /\ current' = NoPlayer /\ UNCHANGED <<made, loading, error>>
  ELSE IF Video(state) THEN
    CleanedUp /\ current' = NoPlayer /\ loading' = LoadingWith /\ error' = FALSE /\ UNCHANGED made
  ELSE IF ~may THEN
    CleanedUp /\ current' = NoPlayer /\ loading' = FALSE /\ error' = TRUE /\ UNCHANGED made
  ELSE
    /\ made < MaxPlayers /\ made' = made + 1
    /\ current' = Phase(made + 1, "loading")
    /\ CleanedUp /\ UNCHANGED <<loading, error>>

(* The dialog opens with no state, or with one that an earlier dialog left *)
(* in the cache and that is asked for again.                               *)
Init ==
  /\ stored \in States /\ canRead = TRUE /\ open = TRUE /\ fetching = "sent"
  /\ query \in States \cup {"pending"} /\ late = {} /\ aborted = {}
  /\ made = (IF query = "pending" \/ Video(query) THEN 0 ELSE 1)
  /\ current = (IF made = 0 THEN NoPlayer ELSE Phase(1, "loading"))
  /\ loading = ~Video(query) /\ error = FALSE /\ playing = FALSE /\ duration = FALSE
  /\ hadVideo = Video(query)

(***************************************************************************)
(* The transcoding state                                                   *)
(***************************************************************************)

(* The job of another part of the system; a video may also be made again. *)
Job(state) ==
  /\ stored' = state /\ <<stored, state>> \in
       {<<"none", "processing">>, <<"processing", "completed">>, <<"processing", "failed">>,
        <<"completed", "processing">>, <<"failed", "processing">>}
  /\ UNCHANGED <<dialog, players, display, hadVideo>>

(* The answer of the request, or its failure. *)
Respond ==
  /\ fetching = "sent" /\ fetching' \in {stored, "error"}
  /\ UNCHANGED <<stored, query, canRead, open, players, display, hadVideo>>

(* A failure keeps the state the query has and ends its being pending. *)
Answered == IF fetching # "error" THEN fetching ELSE IF query = "pending" THEN "none" ELSE query

(* The effect runs again when the video comes or goes. *)
Fetched ==
  /\ open /\ fetching \in States \cup {"error"} /\ query' = Answered /\ fetching' = "no"
  /\ hadVideo' = (hadVideo \/ Video(Answered))
  /\ IF query = "pending" \/ Video(query) # Video(Answered)
       THEN Effect(Answered, canRead) ELSE UNCHANGED <<current, late, aborted, made, loading, error>>
  /\ UNCHANGED <<stored, canRead, open, playing, duration>>

(* refetchInterval. *)
Refetch ==
  /\ open /\ canRead /\ fetching = "no" /\ query = "processing" /\ fetching' = "sent"
  /\ UNCHANGED <<stored, query, canRead, open, players, display, hadVideo>>

(* The account loses the permission while the dialog is open. *)
Revoke ==
  /\ open /\ canRead /\ canRead' = FALSE /\ Effect(query, FALSE)
  /\ UNCHANGED <<stored, query, fetching, open, playing, duration, hadVideo>>

Close ==
  /\ open /\ open' = FALSE /\ CleanedUp /\ current' = NoPlayer
  /\ UNCHANGED <<stored, query, fetching, canRead, made, display, hadVideo>>

(***************************************************************************)
(* Callbacks of the players                                                *)
(***************************************************************************)

(* onprogress: there is something to play before all of it is loaded. *)
OnProgress ==
  /\ current.phase = "loading" /\ duration' = TRUE
  /\ UNCHANGED <<stored, dialog, players, loading, error, playing, hadVideo>>

OnLoad ==
  /\ current.phase = "loading" /\ current' = [current EXCEPT !.phase = "ready"]
  /\ duration' = TRUE /\ loading' = FALSE
  /\ UNCHANGED <<stored, dialog, late, aborted, made, error, playing, hadVideo>>

(* The recording cannot be loaded, or a part of it cannot be read. *)
OnError ==
  /\ current.phase \in {"loading", "ready"} /\ current' = [current EXCEPT !.phase = "error"]
  /\ loading' = FALSE /\ error' = TRUE
  /\ UNCHANGED <<stored, dialog, late, aborted, made, playing, duration, hadVideo>>

(* onpause at the end of the recording. *)
Ends ==
  /\ current.plays /\ current' = [current EXCEPT !.plays = FALSE, !.going = FALSE] /\ playing' = FALSE
  /\ UNCHANGED <<stored, dialog, late, aborted, made, loading, error, duration, hadVideo>>

(* Mutant: no alive flag. *)
LateErrorHeard(p) == p.phase = "loading"

(* What the page takes from an aborted player. *)
LateError(p) == FALSE

OnLate(p) ==
  /\ late' = late \ {p} /\ error' = (error \/ LateError(p))
  /\ UNCHANGED <<stored, dialog, current, aborted, made, loading, playing, duration, hadVideo>>

(***************************************************************************)
(* Buttons                                                                 *)
(***************************************************************************)

Enabled == open /\ ~Video(query) /\ query # "pending" /\ ~loading /\ ~error /\ duration /\ current # NoPlayer

(* recording.play does nothing where no frame follows, and takes the place *)
(* of a seek that goes on, whose callback then waits for the next seek.    *)
Played(p) == {p, [p EXCEPT !.plays = TRUE, !.going = IF p.plays THEN @ ELSE FALSE]}

(* The callback of a seek: it resumes, and restart plays. *)
CalledBack(p) ==
  LET done == [p EXCEPT !.seek = "none", !.going = FALSE, !.resume = FALSE]
  IN IF p.resume \/ p.seek = "start" THEN Played(done) ELSE {done}

(* Mutant: the pause button does not tell the page. *)
PlayingAfterKept(p) == playing \/ p.plays

(* The icon follows onplay and onpause. *)
PlayingAfter(p) == p.plays

TogglePlayback ==
  /\ Enabled
  /\ \E p \in (IF current.plays THEN {[current EXCEPT !.plays = FALSE, !.going = FALSE]} ELSE Played(current)) :
       current' = p /\ playing' = PlayingAfter(p)
  /\ UNCHANGED <<stored, dialog, late, aborted, made, loading, error, duration, hadVideo>>

(* seek of the slider, and restart with the start as the target: a seek    *)
(* that was not called back is called back first, then playback pauses.    *)
Seek(target) ==
  /\ Enabled
  /\ \E p \in (IF current.seek = "none" THEN {current} ELSE CalledBack(current)) :
       current' = [p EXCEPT !.plays = FALSE, !.seek = target, !.going = TRUE, !.resume = p.plays]
  /\ playing' = PlayingAfter(current')
  /\ UNCHANGED <<stored, dialog, late, aborted, made, loading, error, duration, hadVideo>>

SeekDone ==
  /\ current.going /\ \E p \in CalledBack(current) : current' = p /\ playing' = PlayingAfter(p)
  /\ UNCHANGED <<stored, dialog, late, aborted, made, loading, error, duration, hadVideo>>

Next ==
  \/ Respond \/ Fetched \/ Refetch \/ Revoke \/ Close \/ OnProgress \/ OnLoad \/ OnError \/ Ends
  \/ TogglePlayback \/ SeekDone
  \/ \E state \in States : Job(state)
  \/ \E p \in late : OnLate(p)
  \/ \E target \in {"start", "slider"} : Seek(target)

Spec == Init /\ [][Next]_vars

(* Requests are answered, and a player loads or fails. *)
FairSpec ==
  Spec /\ WF_vars(Respond) /\ WF_vars(Fetched) /\ WF_vars(current.phase = "loading" /\ (OnLoad \/ OnError))

(***************************************************************************)
(* Properties                                                              *)
(***************************************************************************)

(* Over the video there is neither the loading nor an error overlay, no    *)
(* matter what the player before it still says.                            *)
VideoIsClear == open /\ query = "completed" => ~loading /\ ~error

(* Every player that was made is the current one or aborted: none goes on  *)
(* loading behind the dialog or after it.                                  *)
OnePlayer ==
  /\ \A n \in 1 .. made : n \in aborted \/ n = current.n
  /\ (open /\ query \notin {"pending", "completed"} /\ canRead) = (current # NoPlayer)
  /\ ~open => current = NoPlayer

(* Until a video was shown the buttons are enabled only once the player is *)
(* loaded, and the icon shows whether it plays.                            *)
FirstPlayerIsShown ==
  ~hadVideo /\ current # NoPlayer =>
    (Enabled => current.phase = "ready") /\ playing = current.plays
=============================================================================

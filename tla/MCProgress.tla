---------------------------- MODULE MCProgress -----------------------------
(* What must end, ends: the waits of the server and of the pages that show *)
(* it, for TLC.  The parts keep variables of their own and one of them     *)
(* moves in a behaviour, so that the fairness of each is what its own      *)
(* module states.  Their safety is the subject of the other runs, with     *)
(* larger bounds, but for OneLiveSession of the workspace, which is        *)
(* checked here and proved for all bounds.                                 *)
EXTENDS Workspace

VARIABLES
  showing,  \* the part that moves
  gateway, dialPc, ready, connected, finPc, finStatus, live, pending, logRow,
  persistFailed, worker, handler, readyCall, stream,            \* AgentRelay
  record, disk, mirror, creator, pc, of, sock, reg, kpc, kof, taken, revived, stale,
  split,                                                        \* ConnectionSession
  sessPath, savedPath, item, dir, video, active, jpc, jcopy, dpc, dcopy, moved, raced,
  torn,                                                         \* Recording
  transcoded, recording, running, job, persisted, present, badge, transcoding, asking,
  polls, load, steps, retried, missed,                          \* RecordingRow
  stored, query, fetching, canRead, open, current, late, aborted, made, loading, error,
  playing, duration, hadVideo,                                  \* RecordingPlayer
  page, allowed, slot, filled, busy, result, calls, called, sent, acked, store, rows,
  fetch                                                         \* OperationDialogs

Relay == INSTANCE AgentRelay
  WITH Tunnels <- {"t1"}, Gateways <- {"g1"}, Workers <- {"w1", "w2"},
       WorkerGateway <- [w \in {"w1", "w2"} |-> "g1"]
Connection == INSTANCE ConnectionSession
  WITH Sessions <- {"s1"}, Conns <- {"c1", "c2"}, Closers <- {"k1"}, WritesFail <- FALSE,
       status <- record, made <- creator, torn <- split
Platform == INSTANCE Recording
  WITH Jobs <- {"j1", "j2"}, Deletes <- {"d1"}, HasSession <- FALSE
Row == INSTANCE RecordingRow
  WITH MaxStarts <- 1, MaxPolls <- 1, status <- transcoded, reqs <- polls
Player == INSTANCE RecordingPlayer WITH MaxPlayers <- 3
Operations == INSTANCE OperationDialogs
  WITH Kinds <- {"asset_import", "certificate_create", "task_logs", "ssh_exec"},
       MaxRequests <- 2, reqs <- calls, issued <- called

ASSUME ProgressAssumption ==
  Row!ConstantsOK /\ Player!ConstantsOK /\ Operations!ConstantsOK

(* The variables of each part. *)
relayVars == <<gateway, dialPc, ready, connected, finPc, finStatus, live, pending, logRow,
               persistFailed, worker, handler, readyCall, stream>>
connectionVars == <<record, disk, mirror, creator, pc, of, sock, reg, kpc, kof, taken, revived,
                    stale, split>>
recordingVars == <<sessPath, savedPath, item, dir, video, active, jpc, jcopy, dpc, dcopy,
                   moved, raced, torn>>
rowVars == <<transcoded, recording, running, job, persisted, present, badge, transcoding,
             asking, polls, load, steps, retried, missed>>
playerVars == <<stored, query, fetching, canRead, open, current, late, aborted, made, loading,
                error, playing, duration, hadVideo>>
operationVars == <<page, allowed, slot, filled, busy, result, calls, called, sent, acked,
                   store, rows, fetch>>
state == <<showing, vars, relayVars, connectionVars, recordingVars, rowVars, playerVars,
           operationVars>>

(* The parts that rest stay in one of their initial states. *)
PartsInit ==
  /\ showing \in {"workspace", "relay", "connection", "platform", "row", "player",
                  "operations"}
  /\ Init /\ Relay!RelayInit /\ Connection!Init /\ Platform!RecordingInit
  /\ Row!Init /\ (showing # "row" => transcoded = "none")
  /\ Player!Init /\ (showing # "player" => stored = "completed" /\ query = "pending")
  /\ Operations!Init /\ (showing # "operations" => page = "console" /\ allowed)

(* A step A of one part: the other ones rest. *)
InWorkspace(A) ==
  /\ showing = "workspace" /\ A
  /\ UNCHANGED <<showing, relayVars, connectionVars, recordingVars, rowVars, playerVars, operationVars>>
InRelay(A) ==
  /\ showing = "relay" /\ A
  /\ UNCHANGED <<showing, vars, connectionVars, recordingVars, rowVars, playerVars, operationVars>>
InConnection(A) ==
  /\ showing = "connection" /\ A
  /\ UNCHANGED <<showing, vars, relayVars, recordingVars, rowVars, playerVars, operationVars>>
InPlatform(A) ==
  /\ showing = "platform" /\ A
  /\ UNCHANGED <<showing, vars, relayVars, connectionVars, rowVars, playerVars, operationVars>>
InRow(A) ==
  /\ showing = "row" /\ A
  /\ UNCHANGED <<showing, vars, relayVars, connectionVars, recordingVars, playerVars, operationVars>>
InPlayer(A) ==
  /\ showing = "player" /\ A
  /\ UNCHANGED <<showing, vars, relayVars, connectionVars, recordingVars, rowVars, operationVars>>
InOperations(A) ==
  /\ showing = "operations" /\ A
  /\ UNCHANGED <<showing, vars, relayVars, connectionVars, recordingVars, rowVars, playerVars>>

PartsNext ==
  \/ InWorkspace(Next) \/ InRelay(Relay!RelayNext) \/ InConnection(Connection!Next)
  \/ InPlatform(Platform!RecordingNext) \/ InRow(Row!Next) \/ InPlayer(Player!Next) \/ InOperations(Operations!Next)

(* The fairness of FairSpec in each module: step n of the part that moves is *)
(* weakly fair, and the steps of a row that wait for a successful request are *)
(* strongly fair.  As showing never changes, fairness of the disjunction over *)
(* the parts is fairness of the step of the one that moves.                *)
FairStep(n) ==
  \/ InWorkspace(n \in Sessions /\ OnClose(n))
  \/ InRelay(\/ n = 1 /\ Relay!DialStep("t1")
             \/ n = 2 /\ Relay!FinishStep("t1")
             \/ n = 3 /\ Relay!ServerStep("t1")
             \/ n = 4 /\ Relay!AgentStep("t1"))
  \/ \E c \in {"c1", "c2"} :
       /\ n = (IF c = "c1" THEN 1 ELSE 2)
       /\ InConnection(\/ Connection!Upgrade(c) \/ Connection!Register(c)
                       \/ Connection!StillOpen(c) \/ Connection!ReadFails(c)
                       \/ Connection!Leave(c))
  \/ n = 3 /\ InConnection(\/ Connection!CloseRecord("k1") \/ Connection!Disconnect("k1")
                           \/ Connection!CloseSockets("k1"))
  \/ InPlatform(\/ n = 1 /\ Platform!JobStep("j1")
                \/ n = 2 /\ Platform!JobStep("j2"))
  \/ InRow(\/ n = 1 /\ Row!Poll
           \/ n = 2 /\ Row!JobStep
           \/ n = 3 /\ Row!ServeLoad
           \/ n = 4 /\ Row!Loaded
           \/ n = 5 /\ \E r \in polls : Row!Served(r))
  \/ InPlayer(\/ n = 1 /\ Player!Respond
              \/ n = 2 /\ Player!Fetched
              \/ n = 3 /\ current.phase = "loading" /\ (Player!OnLoad \/ Player!OnError))
  \/ InOperations(\/ n = 1 /\ \E r \in calls : Operations!Answer(r)
                  \/ n = 2 /\ \E r \in calls : Operations!Continue(r)
                  \/ n = 3 /\ Operations!BootstrapServed
                  \/ n = 4 /\ Operations!BootstrapArrives)

PartsFairness ==
  /\ \A n \in 1 .. 5 : WF_state(FairStep(n))
  /\ SF_state(InRow(\E r \in polls : Row!ReadItem(r)))
  /\ SF_state(InRow(\E r \in polls : Row!PollAnswered(r) /\ r.value # "error"))

PartsSpec == PartsInit /\ [][PartsNext]_state /\ PartsFairness

(***************************************************************************)
(* Properties                                                              *)
(***************************************************************************)

(* No wait is for ever: a Dial returns, with or without an agent; a        *)
(* transcoding leaves the registry, however it ends; a row that shows it   *)
(* stops polling, unless the recording was deleted; the player's loading   *)
(* overlay goes; and a dialog that saves or runs becomes idle again, is    *)
(* closed, or waits for the user's MFA code.                               *)
WaitsEnd ==
  \/ dialPc["t1"] = "waiting" \/ active \/ badge \in Row!Active \/ busy
  \/ showing = "player" /\ open
  ~>
  CASE showing = "relay" -> dialPc["t1"] \in {"open", "failed"}
    [] showing = "platform" -> ~active
    [] showing = "row" -> badge \notin Row!Active \/ ~recording
    [] showing = "player" -> ~loading \/ ~open
    [] OTHER -> ~busy \/ slot = Operations!None \/ \E r \in calls : r.phase = "code"

(* A close reaches the other end: once the user closes a tunnel, the       *)
(* agent's goroutine and both stream handlers of the server end, and       *)
(* closing a session ends the handlers that are past the dial, on every    *)
(* path of theirs, unless the close itself is refused.                     *)
ClosesComplete ==
  \A c \in {"c1", "c2"} :
    \/ dialPc["t1"] = "closing"
    \/ pc[c] \in {"running", "drained"} /\ of[c] = kof["k1"] /\ kpc["k1"] = "close"
    ~>
    IF showing = "relay"
    THEN /\ handler["t1"] \in {"none", "done"}
         /\ \A d \in Relay!Directions : stream["t1"][d] \notin {"copying", "finishing"}
    ELSE pc[c] \in {"ended", "gone"} \/ kpc["k1"] = "refused"

(* A loss is noticed: when the agent of a streaming tunnel goes away the   *)
(* tunnel is finished, so that its user does not wait for a peer that is   *)
(* gone, and a terminal whose socket has ended is reported as disconnected *)
(* or was left.                                                            *)
LossIsNoticed ==
  \A s \in Sessions :
    \/ Relay!AgentGone("t1") /\ \E d \in Relay!Directions : stream["t1"][d] = "copying"
    \/ ws = s /\ kind[s] = "ssh" /\ conn[s] = "closed"
    ~>
    IF showing = "relay" THEN finPc["t1"] = "done" ELSE ws # s \/ status = "disconnected"
============================================================================

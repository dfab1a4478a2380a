----------------------------- MODULE AgentRelay -----------------------------
(***************************************************************************)
(* The agent relay of internal/agentrelay: Manager (manager.go), the HTTP  *)
(* handlers that expose it (internal/app/agent_gateways.go) and the agent  *)
(* process that talks to it (client.go).                                   *)
(*                                                                         *)
(* A dial on the management side creates a tunnel, records it in the       *)
(* operation log, queues it for a gateway and waits.  A worker of that     *)
(* gateway's agent claims it by long poll, opens the target, reports       *)
(* ready or fail, and then streams in both directions.  Every party may    *)
(* end the tunnel; Manager.finish runs once (sync.Once) and is entered by  *)
(* whoever comes first, everyone else waits for it.                        *)
(*                                                                         *)
(* Bytes are not modelled.  A request of the agent may be lost, and the    *)
(* agent may die at any moment (HandlerGone); a write of the operation     *)
(* log may fail.                                                           *)
(***************************************************************************)
EXTENDS Naturals, Sequences, FiniteSets, SequencesExt

CONSTANTS Tunnels,          \* tunnel ids (randomTunnelID never repeats one)
          Gateways,         \* ids of agent gateways
          Workers,          \* claim loops of the agents
          WorkerGateway     \* the gateway each worker authenticates as

ASSUME RelayAssumption == WorkerGateway \in [Workers -> Gateways]

VARIABLES
  gateway,        \* gateway[t]: tunnel.gatewayID
  dialPc,         \* dialPc[t]: where the goroutine in Manager.Dial is
  ready,          \* ready[t]: content of the channel tunnel.ready (capacity 1)
  connected,      \* connected[t]: the channel tunnel.connected is closed
  finPc,          \* finPc[t]: progress of the body of closeOnce in finish
  finStatus,      \* finStatus[t]: the status the winning finish was called with
  live,           \* Manager.tunnels
  pending,        \* Manager.pending
  logRow,         \* logRow[t]: status of the tunnel's operation_logs row
  persistFailed,  \* persistFailed[t]: agent_relay.log.persist_failed audited
  worker,         \* worker[w]: state of a claimLoop and of its Claim call
  handler,        \* handler[t]: the agent's handleClaim goroutine
  readyCall,      \* readyCall[t]: the server's goroutine in Manager.Ready
  stream          \* stream[t][d]: the server's goroutine in CopyUp / CopyDown

managerVars == <<gateway, dialPc, ready, connected, finPc, finStatus, live,
                 pending, logRow, persistFailed>>
relayVars == <<managerVars, worker, handler, readyCall, stream>>

Directions == {"up", "down"}

ClosedNever(t) == FALSE  \* mutant: finish forgets close(t.closed)

(***************************************************************************)
(* close(t.closed) is the step between the locked section of finish and    *)
(* its log write.                                                          *)
(***************************************************************************)
Closed(t) == finPc[t] \in {"logging", "done"}

Queued(t) == \E g \in Gateways : t \in Range(pending[g])

(***************************************************************************)
(* TRUE when the agent side of a request on t is gone, so that the context *)
(* of the request is cancelled.                                            *)
(***************************************************************************)
AgentGone(t) == handler[t] = "done"

RelayInit ==
  /\ gateway \in [Tunnels -> Gateways]
  /\ dialPc = [t \in Tunnels |-> "idle"]
  /\ ready = [t \in Tunnels |-> "unset"]
  /\ connected = [t \in Tunnels |-> FALSE]
  /\ finPc = [t \in Tunnels |-> "none"]
  /\ finStatus = [t \in Tunnels |-> "none"]
  /\ live = {}
  /\ pending = [g \in Gateways |-> <<>>]
  /\ logRow = [t \in Tunnels |-> "none"]
  /\ persistFailed = [t \in Tunnels |-> FALSE]
  /\ worker = [w \in Workers |-> "idle"]
  /\ handler = [t \in Tunnels |-> "none"]
  /\ readyCall = [t \in Tunnels |-> "none"]
  /\ stream = [t \in Tunnels |-> [d \in Directions |-> "none"]]

-----------------------------------------------------------------------------
(***************************************************************************)
(* Manager.finish.  BeginFinish is the entry: the first caller wins the    *)
(* Once and runs the locked section, later ones change nothing and wait    *)
(* for finPc = "done".  FinishClose closes t.closed and both pipe ends,    *)
(* FinishLog writes the log row and audits, whether the write fails or not.*)
(***************************************************************************)
Without(q, t) == IF \E i \in DOMAIN q : q[i] = t
                 THEN RemoveAt(q, CHOOSE i \in DOMAIN q : q[i] = t)
                 ELSE q

(* Mutant: finish forgets to take the tunnel out of the queue. *)
BeginFinishKeepsQueue(t, status) ==
  IF finPc[t] = "none"
  THEN /\ finPc' = [finPc EXCEPT ![t] = "removed"]
       /\ finStatus' = [finStatus EXCEPT ![t] = status]
       /\ live' = live \ {t}
       /\ UNCHANGED pending
  ELSE UNCHANGED <<finPc, finStatus, live, pending>>

BeginFinish(t, status) ==
  IF finPc[t] = "none"
  THEN /\ finPc' = [finPc EXCEPT ![t] = "removed"]
       /\ finStatus' = [finStatus EXCEPT ![t] = status]
       /\ live' = live \ {t}
       /\ pending' = [pending EXCEPT ![gateway[t]] = Without(@, t)]
  ELSE UNCHANGED <<finPc, finStatus, live, pending>>

FinishClose(t) ==
  /\ finPc[t] = "removed"
  /\ finPc' = [finPc EXCEPT ![t] = "logging"]
  /\ UNCHANGED <<gateway, dialPc, ready, connected, finStatus, live, pending,
                 logRow, persistFailed, worker, handler, readyCall, stream>>

FinishLog(t) ==
  /\ finPc[t] = "logging"
  /\ finPc' = [finPc EXCEPT ![t] = "done"]
  /\ \/ /\ logRow' = [logRow EXCEPT ![t] = finStatus[t]]
        /\ UNCHANGED persistFailed
     \/ /\ persistFailed' = [persistFailed EXCEPT ![t] = TRUE]
        /\ UNCHANGED logRow
  /\ UNCHANGED <<gateway, dialPc, ready, connected, finStatus, live, pending,
                 worker, handler, readyCall, stream>>

-----------------------------------------------------------------------------
(***************************************************************************)
(* Manager.Dial.                                                           *)
(***************************************************************************)

(* Mutant: enqueue replaces the signal channel without closing it. *)
EnqueueSilently(t) ==
  /\ live' = live \cup {t}
  /\ pending' = [pending EXCEPT ![gateway[t]] = Append(@, t)]
  /\ UNCHANGED worker

(***************************************************************************)
(* enqueue publishes the tunnel and closes the gateway's signal channel:   *)
(* every worker that waits on it is woken.                                 *)
(***************************************************************************)
Enqueue(t) ==
  /\ live' = live \cup {t}
  /\ pending' = [pending EXCEPT ![gateway[t]] = Append(@, t)]
  /\ worker' = [w \in Workers |->
                  IF worker[w] = "waiting" /\ WorkerGateway[w] = gateway[t]
                  THEN "woken" ELSE worker[w]]

(* A dial is refused before it is queued when the log row cannot be made.  *)
DialBegin(t) ==
  /\ dialPc[t] = "idle"
  /\ \/ /\ dialPc' = [dialPc EXCEPT ![t] = "waiting"]
        /\ logRow' = [logRow EXCEPT ![t] = "requested"]
        /\ Enqueue(t)
     \/ /\ dialPc' = [dialPc EXCEPT ![t] = "refused"]
        /\ UNCHANGED <<live, pending, worker, logRow>>
  /\ UNCHANGED <<gateway, ready, connected, finPc, finStatus, persistFailed,
                 handler, readyCall, stream>>

(* Mutant: t.connected is closed before the log row says connected. *)
DialReadyEarly(t) ==
  /\ dialPc[t] = "waiting"
  /\ ready[t] \in {"ok", "error"}
  /\ ready' = [ready EXCEPT ![t] = "taken"]
  /\ connected' = [connected EXCEPT ![t] = ready[t] = "ok"]
  /\ \/ /\ ready[t] = "ok"
        /\ dialPc' = [dialPc EXCEPT ![t] = "logging"]
        /\ UNCHANGED <<finPc, finStatus, live, pending>>
     \/ /\ ready[t] = "error"
        /\ dialPc' = [dialPc EXCEPT ![t] = "aborting"]
        /\ BeginFinish(t, "failed")
  /\ UNCHANGED <<gateway, logRow, persistFailed, worker, handler, readyCall,
                 stream>>

(* The select of Dial takes the value of t.ready.                          *)
DialReady(t) ==
  /\ dialPc[t] = "waiting"
  /\ ready[t] \in {"ok", "error"}
  /\ ready' = [ready EXCEPT ![t] = "taken"]
  /\ \/ /\ ready[t] = "ok"
        /\ dialPc' = [dialPc EXCEPT ![t] = "logging"]
        /\ UNCHANGED <<finPc, finStatus, live, pending>>
     \/ /\ ready[t] = "error"
        /\ dialPc' = [dialPc EXCEPT ![t] = "aborting"]
        /\ BeginFinish(t, "failed")
  /\ UNCHANGED <<gateway, connected, logRow, persistFailed, worker, handler,
                 readyCall, stream>>

DialTimeoutNever(t) == FALSE  \* mutant: Dial waits for t.ready only

(* dialCtx.Done: the attempt timeout, or the caller's own cancellation.    *)
DialTimeout(t) ==
  /\ dialPc[t] = "waiting"
  /\ dialPc' = [dialPc EXCEPT ![t] = "aborting"]
  /\ BeginFinish(t, "failed")
  /\ UNCHANGED <<gateway, ready, connected, logRow, persistFailed, worker,
                 handler, readyCall, stream>>

(* updateLog(t, "connected"), and finish when the write fails.             *)
DialLog(t) ==
  /\ dialPc[t] = "logging"
  /\ \/ /\ logRow' = [logRow EXCEPT ![t] = "connected"]
        /\ dialPc' = [dialPc EXCEPT ![t] = "logged"]
        /\ UNCHANGED <<finPc, finStatus, live, pending>>
     \/ /\ dialPc' = [dialPc EXCEPT ![t] = "aborting"]
        /\ BeginFinish(t, "failed")
        /\ UNCHANGED logRow
  /\ UNCHANGED <<gateway, ready, connected, persistFailed, worker, handler,
                 readyCall, stream>>

(* close(t.connected); Dial returns the connection.                        *)
DialOpen(t) ==
  /\ dialPc[t] = "logged"
  /\ dialPc' = [dialPc EXCEPT ![t] = "open"]
  /\ connected' = [connected EXCEPT ![t] = TRUE]
  /\ UNCHANGED <<gateway, ready, finPc, finStatus, live, pending, logRow,
                 persistFailed, worker, handler, readyCall, stream>>

(* managedConn.Close by the user of the connection.                        *)
ConnClose(t) ==
  /\ dialPc[t] = "open"
  /\ dialPc' = [dialPc EXCEPT ![t] = "closing"]
  /\ BeginFinish(t, "closed")
  /\ UNCHANGED <<gateway, ready, connected, logRow, persistFailed, worker,
                 handler, readyCall, stream>>

(* finish returned: Dial returns its error, or Close returns.              *)
DialReturn(t) ==
  /\ finPc[t] = "done"
  /\ \/ /\ dialPc[t] = "aborting"
        /\ dialPc' = [dialPc EXCEPT ![t] = "failed"]
     \/ /\ dialPc[t] = "closing"
        /\ dialPc' = [dialPc EXCEPT ![t] = "released"]
  /\ UNCHANGED <<gateway, ready, connected, finPc, finStatus, live, pending,
                 logRow, persistFailed, worker, handler, readyCall, stream>>

-----------------------------------------------------------------------------
(***************************************************************************)
(* The agent's claim loop and Manager.Claim.                               *)
(***************************************************************************)
ClaimPost(w) ==
  /\ worker[w] = "idle"
  /\ worker' = [worker EXCEPT ![w] = "scanning"]
  /\ UNCHANGED <<managerVars, handler, readyCall, stream>>

OpenAt(q) == {i \in DOMAIN q : ~Closed(q[i])}

(***************************************************************************)
(* One pass of Claim's loop under the lock: closed tunnels are dropped     *)
(* from the head of the queue, the first open one is handed out; with none *)
(* left the signal channel is picked up before the lock is released.  The  *)
(* answer may be lost on its way to the agent: the tunnel is not requeued. *)
(***************************************************************************)
ClaimScan(w) ==
  LET g == WorkerGateway[w]
      q == pending[g]
  IN /\ worker[w] \in {"scanning", "woken"}
     /\ \/ \E i \in OpenAt(q) :
             /\ \A j \in OpenAt(q) : i <= j
             /\ pending' = [pending EXCEPT ![g] = SubSeq(q, i + 1, Len(q))]
             /\ worker' = [worker EXCEPT ![w] = "idle"]
             /\ \E h \in {"dialing", "done"} :
                  handler' = [handler EXCEPT ![q[i]] = h]
        \/ /\ OpenAt(q) = {}
           /\ pending' = [pending EXCEPT ![g] = <<>>]
           /\ worker' = [worker EXCEPT ![w] = "waiting"]
           /\ UNCHANGED handler
     /\ UNCHANGED <<gateway, dialPc, ready, connected, finPc, finStatus, live,
                    logRow, persistFailed, readyCall, stream>>

(* ErrClaimTimeout after 25 s, or the agent hangs up.                      *)
ClaimTimeout(w) ==
  /\ worker[w] \in {"waiting", "woken"}
  /\ worker' = [worker EXCEPT ![w] = "idle"]
  /\ UNCHANGED <<managerVars, handler, readyCall, stream>>

-----------------------------------------------------------------------------
(***************************************************************************)
(* handleClaim on the agent, with the server calls it makes.               *)
(***************************************************************************)

(* The agent dials the target; the result decides which call it makes.     *)
AgentDial(t) ==
  /\ handler[t] = "dialing"
  /\ \E h \in {"readying", "failing"} : handler' = [handler EXCEPT ![t] = h]
  /\ UNCHANGED <<managerVars, worker, readyCall, stream>>

Authorized(t) == t \in live /\ ~Closed(t)

(***************************************************************************)
(* Manager.Fail: readyOnce, then finish.  The agent's goroutine ends with  *)
(* the answer, whatever it is.                                             *)
(***************************************************************************)
Fail(t) ==
  /\ handler[t] = "failing"
  /\ handler' = [handler EXCEPT ![t] = "done"]
  /\ \/ /\ Authorized(t)
        /\ ready' = [ready EXCEPT ![t] = IF @ = "unset" THEN "error" ELSE @]
        /\ BeginFinish(t, "failed")
     \/ /\ ~Authorized(t)
        /\ UNCHANGED <<ready, finPc, finStatus, live, pending>>
  /\ UNCHANGED <<gateway, dialPc, connected, logRow, persistFailed, worker,
                 readyCall, stream>>

(* Manager.Ready up to its select.                                         *)
Ready(t) ==
  /\ handler[t] = "readying"
  /\ readyCall[t] = "none"
  /\ \/ /\ Authorized(t)
        /\ ready' = [ready EXCEPT ![t] = IF @ = "unset" THEN "ok" ELSE @]
        /\ readyCall' = [readyCall EXCEPT ![t] = "waiting"]
        /\ UNCHANGED handler
     \/ /\ ~Authorized(t)
        /\ readyCall' = [readyCall EXCEPT ![t] = "refused"]
        /\ handler' = [handler EXCEPT ![t] = "done"]
        /\ UNCHANGED ready
  /\ UNCHANGED <<gateway, dialPc, connected, finPc, finStatus, live, pending,
                 logRow, persistFailed, worker, stream>>

(* Mutant: Ready answers without waiting for t.connected. *)
ReadyReturnAtOnce(t) ==
  /\ readyCall[t] = "waiting"
  /\ readyCall' = [readyCall EXCEPT ![t] = "accepted"]
  /\ handler' = [handler EXCEPT ![t] = IF @ = "readying" THEN "streaming" ELSE @]
  /\ UNCHANGED <<managerVars, worker, stream>>

(***************************************************************************)
(* The select of Manager.Ready.  With a positive answer the agent starts   *)
(* to stream, with any other its goroutine ends.                           *)
(***************************************************************************)
ReadyReturn(t) ==
  /\ readyCall[t] = "waiting"
  /\ \/ /\ connected[t]
        /\ readyCall' = [readyCall EXCEPT ![t] = "accepted"]
        /\ handler' = [handler EXCEPT ![t] =
                         IF @ = "readying" THEN "streaming" ELSE @]
     \/ /\ Closed(t) \/ AgentGone(t)
        /\ readyCall' = [readyCall EXCEPT ![t] = "refused"]
        /\ handler' = [handler EXCEPT ![t] = "done"]
  /\ UNCHANGED <<managerVars, worker, stream>>

(***************************************************************************)
(* startStream: the tunnel must still be in the table, and each direction  *)
(* is opened once (t.up, t.down are never reset).                          *)
(***************************************************************************)
StreamOpen(t, d) ==
  /\ handler[t] = "streaming"
  /\ stream[t][d] = "none"
  /\ stream' = [stream EXCEPT ![t][d] = IF t \in live THEN "copying"
                                                      ELSE "refused"]
  /\ UNCHANGED <<managerVars, worker, handler, readyCall>>

(***************************************************************************)
(* io.Copy ends because a pipe end is closed, the request is cancelled or, *)
(* upwards, the target's data ends: the deferred finish is entered.        *)
(***************************************************************************)
StreamEnd(t, d) ==
  /\ stream[t][d] = "copying"
  /\ d = "up" \/ Closed(t) \/ AgentGone(t)
  /\ stream' = [stream EXCEPT ![t][d] = "finishing"]
  /\ BeginFinish(t, "closed")
  /\ UNCHANGED <<gateway, dialPc, ready, connected, logRow, persistFailed,
                 worker, handler, readyCall>>

StreamCanceledNever(t) == FALSE  \* mutant: no context.AfterFunc

(* context.AfterFunc: cancellation finishes the tunnel from outside Copy.  *)
StreamCanceled(t) ==
  /\ \E d \in Directions : stream[t][d] = "copying"
  /\ AgentGone(t)
  /\ finPc[t] = "none"
  /\ BeginFinish(t, "closed")
  /\ UNCHANGED <<gateway, dialPc, ready, connected, logRow, persistFailed,
                 worker, handler, readyCall, stream>>

StreamReturn(t, d) ==
  /\ stream[t][d] = "finishing"
  /\ finPc[t] = "done"
  /\ stream' = [stream EXCEPT ![t][d] = "ended"]
  /\ UNCHANGED <<managerVars, worker, handler, readyCall>>

(* <-result in handleClaim: one of the two streams is over.                *)
AgentStreamsOver(t) ==
  /\ handler[t] = "streaming"
  /\ \E d \in Directions : stream[t][d] \in {"refused", "ended"}
  /\ handler' = [handler EXCEPT ![t] = "done"]
  /\ UNCHANGED <<managerVars, worker, readyCall, stream>>

(* The agent dies, loses its link, or the target closes the connection.    *)
HandlerGone(t) ==
  /\ handler[t] \in {"dialing", "readying", "failing", "streaming"}
  /\ handler' = [handler EXCEPT ![t] = "done"]
  /\ UNCHANGED <<managerVars, worker, readyCall, stream>>

-----------------------------------------------------------------------------
DialStep(t) == DialReady(t) \/ DialTimeout(t) \/ DialLog(t) \/ DialOpen(t)
                 \/ DialReturn(t)

FinishStep(t) == FinishClose(t) \/ FinishLog(t)

ServerStep(t) == \/ ReadyReturn(t)
                 \/ \E d \in Directions : StreamReturn(t, d)
                 \/ \E d \in Directions :
                      (Closed(t) \/ (d = "up" /\ AgentGone(t))) /\ StreamEnd(t, d)
                 \/ StreamCanceled(t)

AgentStep(t) == \/ AgentDial(t) \/ Fail(t) \/ Ready(t) \/ AgentStreamsOver(t)
                \/ \E d \in Directions : StreamOpen(t, d)

RelayNext ==
  \/ \E t \in Tunnels :
       \/ DialBegin(t) \/ DialReady(t) \/ DialTimeout(t) \/ DialLog(t)
       \/ DialOpen(t) \/ ConnClose(t) \/ DialReturn(t)
       \/ FinishClose(t) \/ FinishLog(t)
       \/ AgentDial(t) \/ Fail(t) \/ Ready(t) \/ ReadyReturn(t)
       \/ StreamCanceled(t) \/ AgentStreamsOver(t) \/ HandlerGone(t)
       \/ \E d \in Directions :
            StreamOpen(t, d) \/ StreamEnd(t, d) \/ StreamReturn(t, d)
  \/ \E w \in Workers : ClaimPost(w) \/ ClaimScan(w) \/ ClaimTimeout(w)

RelaySpec == RelayInit /\ [][RelayNext]_relayVars

(***************************************************************************)
(* Goroutines of the server run, deadlines fire, and an agent that is      *)
(* alive makes its next call.  Nobody has to dial, to close a connection,  *)
(* to claim or to die.                                                     *)
(***************************************************************************)
RelayFairness ==
  \A t \in Tunnels :
    /\ WF_relayVars(DialStep(t))
    /\ WF_relayVars(FinishStep(t))
    /\ WF_relayVars(ServerStep(t))
    /\ WF_relayVars(AgentStep(t))

RelayFairSpec == RelaySpec /\ RelayFairness

-----------------------------------------------------------------------------
(***************************************************************************)
(* Properties                                                              *)
(***************************************************************************)

(* Each variable holds a value the code can give it.                       *)
RelayTypeOK ==
  /\ gateway \in [Tunnels -> Gateways]
  /\ dialPc \in [Tunnels -> {"idle", "waiting", "refused", "logging", "logged",
                             "open", "aborting", "failed", "closing",
                             "released"}]
  /\ ready \in [Tunnels -> {"unset", "ok", "error", "taken"}]
  /\ connected \in [Tunnels -> BOOLEAN]
  /\ finPc \in [Tunnels -> {"none", "removed", "logging", "done"}]
  /\ finStatus \in [Tunnels -> {"none", "failed", "closed"}]
  /\ live \in SUBSET Tunnels
  /\ pending \in [Gateways -> Seq(Tunnels)]
  /\ logRow \in [Tunnels -> {"none", "requested", "connected", "failed",
                             "closed"}]
  /\ persistFailed \in [Tunnels -> BOOLEAN]
  /\ worker \in [Workers -> {"idle", "scanning", "waiting", "woken"}]
  /\ handler \in [Tunnels -> {"none", "dialing", "readying", "failing",
                              "streaming", "done"}]
  /\ readyCall \in [Tunnels -> {"none", "waiting", "accepted", "refused"}]
  /\ stream \in [Tunnels -> [Directions -> {"none", "copying", "refused",
                                            "finishing", "ended"}]]

(***************************************************************************)
(* Dial's updateLog("connected") and finish's updateLog never run at the   *)
(* same time.  Both write the one map logItem.Metadata without a lock, and *)
(* Go aborts the process on concurrent map writes; only the order of the   *)
(* agent's calls keeps them apart.                                         *)
(***************************************************************************)
SingleLogWriter ==
  \A t \in Tunnels : ~(dialPc[t] = "logging" /\ finPc[t] \in {"removed", "logging"})

(***************************************************************************)
(* Once finish is over the log row keeps the status finish was called      *)
(* with: a late "connected" of Dial never overwrites "failed" or "closed". *)
(* The exception is a failed write, which is audited.                      *)
(***************************************************************************)
FinalLogStands ==
  \A t \in Tunnels : finPc[t] = "done" => \/ logRow[t] = finStatus[t]
                                          \/ persistFailed[t]

(***************************************************************************)
(* A Dial that returned an error and a connection that was closed leave    *)
(* nothing behind in Manager.tunnels or Manager.pending                    *)
(* (TestManagerDialTimesOutWithoutAgent checks one such case).             *)
(***************************************************************************)
NoResidue ==
  \A t \in Tunnels : dialPc[t] \in {"refused", "failed", "released"}
                       => t \notin live /\ ~Queued(t)

(***************************************************************************)
(* A queue holds only tunnels of its own gateway whose dial still has to   *)
(* be answered and which no agent has claimed, each of them once: a tunnel *)
(* is never handed to two workers, nor after it was closed.                *)
(***************************************************************************)
QueueSound ==
  \A g \in Gateways :
    /\ IsInjective(pending[g])
    /\ \A i \in DOMAIN pending[g] :
         LET t == pending[g][i]
         IN /\ gateway[t] = g
            /\ t \in live /\ ~Closed(t)
            /\ handler[t] = "none"
            /\ dialPc[t] = "waiting"

(***************************************************************************)
(* No lost wake-up: a worker sleeps on an open signal channel only while   *)
(* the queue of its gateway is empty, although Claim gives up the lock     *)
(* between its look at the queue and its wait.                             *)
(***************************************************************************)
NoLostWakeup ==
  \A w \in Workers : worker[w] = "waiting" => pending[WorkerGateway[w]] = <<>>

(***************************************************************************)
(* A stream exists only on a tunnel whose dial succeeded and was logged as *)
(* connected, and a dial succeeds only after the agent's ready call.       *)
(***************************************************************************)
HandshakeOrder ==
  \A t \in Tunnels :
    /\ (\E d \in Directions : stream[t][d] # "none") =>
         /\ dialPc[t] \in {"open", "closing", "released"}
         /\ logRow[t] \in {"connected", "closed"}
    /\ dialPc[t] \in {"logging", "logged", "open"} => readyCall[t] # "none"

-----------------------------------------------------------------------------
(***************************************************************************)
(* The inductive invariant behind the safety properties.  DialOrder says   *)
(* what the phases of Dial, of finish and of the agent's goroutine imply   *)
(* for each other; its heart is that nothing can start finish while Dial   *)
(* writes "connected".  QueueOrder is about the queues.                    *)
(***************************************************************************)
NotStarted(t) ==
  /\ finPc[t] = "none" /\ t \notin live /\ ready[t] = "unset"
  /\ handler[t] = "none" /\ logRow[t] = "none"

DialOrder(t) ==
  /\ dialPc[t] \in {"idle", "refused"} => NotStarted(t)
  /\ dialPc[t] = "waiting" => /\ ready[t] # "taken"
                              /\ finPc[t] # "none" => ready[t] = "error"
  /\ dialPc[t] \in {"logging", "logged"} => finPc[t] = "none"
  /\ dialPc[t] \in {"aborting", "closing"} => finPc[t] # "none"
  /\ dialPc[t] \in {"failed", "released"} => finPc[t] = "done"
  /\ connected[t] <=> dialPc[t] \in {"open", "closing", "released"}
  /\ readyCall[t] = "none" =>
       /\ ready[t] # "ok"
       /\ dialPc[t] \notin {"logging", "logged", "open", "closing", "released"}
  /\ handler[t] \in {"none", "dialing", "failing"} => readyCall[t] = "none"
  /\ handler[t] \in {"dialing", "failing"} =>
       dialPc[t] \notin {"idle", "refused"}
  /\ handler[t] \in {"dialing", "failing"} => ready[t] # "error"
  /\ (handler[t] = "streaming" \/ readyCall[t] = "accepted") => connected[t]
  /\ \A d \in Directions : stream[t][d] # "none" => connected[t]
  /\ finPc[t] = "none" <=> finStatus[t] = "none"
  /\ connected[t] /\ finPc[t] # "none" => finStatus[t] = "closed"
  /\ dialPc[t] = "logged" \/ (connected[t] /\ finPc[t] # "done")
       => logRow[t] = "connected"
  /\ connected[t] => logRow[t] \in {"connected", "closed"}
  /\ finPc[t] = "done" => logRow[t] = finStatus[t] \/ persistFailed[t]
  /\ finPc[t] # "none" => t \notin live

QueueOrder ==
  /\ QueueSound
  /\ NoLostWakeup
  /\ \A g \in Gateways : \A i \in DOMAIN pending[g] :
       LET t == pending[g][i] IN finPc[t] = "none" /\ ready[t] = "unset"

RelayIInv == RelayTypeOK /\ (\A t \in Tunnels : DialOrder(t)) /\ QueueOrder
=============================================================================

------------------------- MODULE ConnectionSession -------------------------
(***************************************************************************)
(* Connection sessions: their record in the store and its mirror in        *)
(* online_sessions or offline_sessions (store.go), the websocket handlers  *)
(* that serve them (handleSSHWebSocket, handleDesktopTunnel with           *)
(* ssh.Runner.Run and guac.Tunnel.RunDesktop), the registry of live        *)
(* sockets (active_connections.go) and the handlers that close a session   *)
(* (handleClose, handleAuditSessionDisconnect).                            *)
(*                                                                         *)
(* A session may be open in several tabs; it may be closed at any moment   *)
(* of the handshake; store writes may fail.  Store.UpdateSession is one    *)
(* step, it runs under the store's lock.                                   *)
(***************************************************************************)
EXTENDS Naturals

CONSTANTS Sessions,     \* session ids
          Conns,        \* executions of a websocket handler; a bound
          Closers,      \* executions of a close handler; a bound
          WritesFail    \* whether store writes can fail and the process can die

ASSUME WritesFailAssumption == WritesFail \in BOOLEAN

VARIABLES
  status,      \* status[s] in Store.state.Sessions; "none" when absent
  disk,        \* disk[s]: its status in core_records, read when the process starts
  mirror,      \* mirror[s]: the collection of platform_records that holds s
  made,        \* made[s]: the handler that creates s
  pc, of,      \* pc[c], of[c]: place and session of websocket handler c
  sock,        \* sock[c]: its websocket
  reg,         \* reg[s]: activeConnectionRegistry.entries
  kpc, kof,    \* kpc[k], kof[k]: place and session of close handler k
  taken,       \* taken[k]: the callbacks disconnect has collected
  revived,     \* the sessions that became active after they were closed or failed
  stale,       \* the sessions a failed closeAll or a restart left active
  torn         \* the sessions whose mirror a failure left behind

connVars == <<pc, of, sock>>
closeVars == <<kpc, kof, taken>>
recVars == <<status, disk, mirror, revived, stale, torn>>
vars == <<recVars, made, connVars, reg, closeVars>>

Statuses == {"pending", "active", "closed", "failed"}

(* sessionStatusOpen *)
Open(st) == st \in {"pending", "active"}

(* sessionPlatformCollection *)
Collection(st) == IF Open(st) THEN "online" ELSE "offline"

(* Handlers that have passed sessionStillOpen and have not left Run.       *)
Served == {"dialing", "running", "drained"}

Init ==
  /\ status = [s \in Sessions |-> "none"]
  /\ disk = status
  /\ mirror = [s \in Sessions |-> "none"]
  /\ made = [s \in Sessions |-> "no"]
  /\ pc = [c \in Conns |-> "idle"]
  /\ of \in [Conns -> Sessions]
  /\ sock = [c \in Conns |-> "none"]
  /\ reg = [s \in Sessions |-> {}]
  /\ kpc = [k \in Closers |-> "idle"]
  /\ kof \in [Closers -> Sessions]
  /\ taken = [k \in Closers |-> {}]
  /\ revived = {}
  /\ stale = {}
  /\ torn = {}

-----------------------------------------------------------------------------
(* Mutant: the mirror is not moved when a session ends. *)
WriteKeepsMirror(s, st) ==
  /\ status[s] # "none"
  /\ status' = [status EXCEPT ![s] = st]
  /\ disk' = status'
  /\ revived' = revived \cup {x \in {s} : st = "active" /\ ~Open(status[x])}
  /\ stale' = IF st = "active" THEN stale ELSE stale \ {s}
  /\ torn' = torn \ {s}
  /\ UNCHANGED mirror

(***************************************************************************)
(* UpdateSession: the record in memory, the saved state and the mirror     *)
(* change together.                                                        *)
(***************************************************************************)
Write(s, st) ==
  /\ status[s] # "none"
  /\ status' = [status EXCEPT ![s] = st]
  /\ disk' = status'
  /\ mirror' = [mirror EXCEPT ![s] = Collection(st)]
  /\ revived' = revived \cup {x \in {s} : st = "active" /\ ~Open(status[x])}
  /\ stale' = IF st = "active" THEN stale ELSE stale \ {s}
  /\ torn' = torn \ {s}

(***************************************************************************)
(* UpdateSession fails: the record is put back and the mirror is as it     *)
(* was.  What is saved depends on where it failed: saveLocked commits the  *)
(* records before it writes the state file, and the save that takes a      *)
(* failed sync back may fail too.  (A session that is gone is not found.)  *)
(***************************************************************************)
WriteFails(s, st) ==
  /\ \/ status[s] = "none" /\ UNCHANGED disk
     \/ /\ WritesFail /\ status[s] # "none"
        /\ disk' \in {disk, status, [status EXCEPT ![s] = st]}
  /\ UNCHANGED <<status, mirror, revived, torn>>

(* CreateSession, in handleCreateSSH, handleCreateRDP,                     *)
(* createPlatformDesktopSession and createPlatformSSHSession.              *)
Create(s) ==
  /\ made[s] = "no"
  /\ \/ /\ made' = [made EXCEPT ![s] = "log"]
        /\ status' = [status EXCEPT ![s] = "pending"]
        /\ disk' = status'
        /\ mirror' = [mirror EXCEPT ![s] = "online"]
     \/ /\ WritesFail
        /\ made' = [made EXCEPT ![s] = "yes"]
        /\ disk' \in {disk, status, [status EXCEPT ![s] = "pending"]}
        /\ UNCHANGED <<status, mirror>>
  /\ UNCHANGED <<connVars, reg, closeVars, revived, stale, torn>>

(***************************************************************************)
(* The operation log of the creation.  When it (or the recording           *)
(* directory) fails the session is deleted; DeleteSession forgets the      *)
(* record even when it cannot save, and then leaves the mirror.            *)
(***************************************************************************)
CreateLog(s) ==
  /\ made[s] = "log"
  /\ made' = [made EXCEPT ![s] = "yes"]
  /\ \/ UNCHANGED <<status, disk, mirror, torn>>
     \/ /\ WritesFail
        /\ status' = [status EXCEPT ![s] = "none"]
        /\ \/ /\ disk' = status'
              /\ mirror' = [mirror EXCEPT ![s] = "none"]
              /\ torn' = torn \ {s}
           \/ /\ disk' \in {disk, status'}
              /\ torn' = torn \cup {s}
              /\ UNCHANGED mirror
  /\ UNCHANGED <<connVars, reg, closeVars, revived, stale>>

-----------------------------------------------------------------------------
(* connectionParts, desktopTunnelConfig: the session must be open.         *)
Connect(c) ==
  /\ pc[c] = "idle" /\ Open(status[of[c]])
  /\ pc' = [pc EXCEPT ![c] = "opening"]
  /\ UNCHANGED <<recVars, made, of, sock, reg, closeVars>>

(* The log of the opening, the agent relay and the upgrade, or a failure   *)
(* of one of them.                                                         *)
Upgrade(c) ==
  /\ pc[c] = "opening"
  /\ \/ /\ sock' = [sock EXCEPT ![c] = "open"]
        /\ pc' = [pc EXCEPT ![c] = "upgraded"]
     \/ /\ pc' = [pc EXCEPT ![c] = "gone"]
        /\ UNCHANGED sock
  /\ UNCHANGED <<recVars, made, of, reg, closeVars>>

Register(c) ==
  /\ pc[c] = "upgraded"
  /\ reg' = [reg EXCEPT ![of[c]] = @ \cup {c}]
  /\ pc' = [pc EXCEPT ![c] = "registered"]
  /\ UNCHANGED <<recVars, made, of, sock, closeVars>>

(* Mutant: the handler trusts the check it made before the upgrade. *)
StillOpenUnchecked(c) ==
  /\ pc[c] = "registered"
  /\ pc' = [pc EXCEPT ![c] = "dialing"]
  /\ UNCHANGED <<recVars, made, of, sock, reg, closeVars>>

(* sessionStillOpen, once the socket is in the registry. *)
StillOpen(c) ==
  /\ pc[c] = "registered"
  /\ IF Open(status[of[c]])
     THEN pc' = [pc EXCEPT ![c] = "dialing"] /\ UNCHANGED sock
     ELSE /\ pc' = [pc EXCEPT ![c] = "leaving"]
          /\ sock' = [sock EXCEPT ![c] = "closed"]
  /\ UNCHANGED <<recVars, made, of, reg, closeVars>>

(* dial and the handshake succeed; the record is made active whatever its  *)
(* status is by now, and a failure to do so is ignored.                    *)
Activate(c) ==
  /\ pc[c] = "dialing"
  /\ Write(of[c], "active") \/ (WriteFails(of[c], "active") /\ UNCHANGED stale)
  /\ pc' = [pc EXCEPT ![c] = "running"]
  /\ UNCHANGED <<made, of, sock, reg, closeVars>>

(* Runner.fail, Tunnel.fail: the target cannot be reached. *)
DialFails(c) ==
  /\ pc[c] = "dialing"
  /\ Write(of[c], "failed") \/ (WriteFails(of[c], "failed") /\ UNCHANGED stale)
  /\ pc' = [pc EXCEPT ![c] = "leaving"]
  /\ sock' = [sock EXCEPT ![c] = "closed"]
  /\ UNCHANGED <<made, of, reg, closeVars>>

(* prepareDesktopAgentRelay's callback: the agent gateway cannot dial the  *)
(* desktop guacd was sent to.  It looks whether the relay is closed and    *)
(* then writes, so it may come after the handler.                          *)
RelayFails(c) ==
  /\ pc[c] \in Served \cup {"leaving", "ended"}
  /\ Write(of[c], "failed") \/ (WriteFails(of[c], "failed") /\ UNCHANGED stale)
  /\ UNCHANGED <<made, connVars, reg, closeVars>>

(* Each message that is passed on renews LastActivityAt, with the status   *)
(* as it is.                                                               *)
Touch(c) ==
  /\ pc[c] \in {"running", "drained"}
  /\ LET st == status[of[c]]
     IN Write(of[c], st) \/ (WriteFails(of[c], st) /\ UNCHANGED stale)
  /\ UNCHANGED <<made, connVars, reg, closeVars>>

(* Mutant: the record is left as it is when the handler ends. *)
CloseAllKeepsRecord(c) == UNCHANGED recVars

(* closeAll, closeSession.  A record that is closed keeps its EndedAt. *)
CloseAll(c) ==
  \/ Write(of[c], "closed")
  \/ /\ WriteFails(of[c], "closed")
     /\ stale' = stale \cup {of[c]}

(* The target's end of the stream: the copying goroutine runs closeAll;    *)
(* the handler still waits for the browser.                                *)
TargetEnds(c) ==
  /\ pc[c] = "running"
  /\ CloseAll(c)
  /\ pc' = [pc EXCEPT ![c] = "drained"]
  /\ UNCHANGED <<made, of, sock, reg, closeVars>>

(* The browser goes away. *)
BrowserLeaves(c) ==
  /\ sock[c] = "open"
  /\ sock' = [sock EXCEPT ![c] = "closed"]
  /\ UNCHANGED <<recVars, made, pc, of, reg, closeVars>>

(* The handler leaves Run: closeAll, unless it has been run. *)
RunEnds(c) ==
  /\ \/ pc[c] = "running" /\ CloseAll(c)
     \/ pc[c] = "drained" /\ UNCHANGED recVars
  /\ pc' = [pc EXCEPT ![c] = "leaving"]
  /\ sock' = [sock EXCEPT ![c] = "closed"]
  /\ UNCHANGED <<made, of, reg, closeVars>>

(* The read of a socket that is closed fails. *)
ReadFails(c) == sock[c] = "closed" /\ RunEnds(c)

(* A close message, a command that ends the session, a target that takes   *)
(* no more input.                                                          *)
Quit(c) == sock[c] = "open" /\ RunEnds(c)

(* Mutant: the handler returns without its deferred unregister. *)
LeaveKeepsEntry(c) ==
  /\ pc[c] = "leaving"
  /\ pc' = [pc EXCEPT ![c] = "ended"]
  /\ UNCHANGED <<recVars, made, of, sock, reg, closeVars>>

(* The deferred unregister. *)
Leave(c) ==
  /\ pc[c] = "leaving"
  /\ reg' = [reg EXCEPT ![of[c]] = @ \ {c}]
  /\ pc' = [pc EXCEPT ![c] = "ended"]
  /\ UNCHANGED <<recVars, made, of, sock, closeVars>>

-----------------------------------------------------------------------------
(* The close handlers find the session and log the request. *)
CloseBegin(k) ==
  /\ kpc[k] = "idle" /\ status[kof[k]] # "none"
  /\ \/ kpc' = [kpc EXCEPT ![k] = "close"]
     \/ WritesFail /\ kpc' = [kpc EXCEPT ![k] = "refused"]
  /\ UNCHANGED <<recVars, made, connVars, reg, kof, taken>>

(***************************************************************************)
(* closePlatformOnlineSession: only the mirror is left of the session.     *)
(* The online record is deleted, then the offline record saved; when that  *)
(* fails the online record is put back, if that does not fail too.         *)
(***************************************************************************)
ClosePlatform(k) ==
  LET s == kof[k]
  IN /\ kpc[k] = "idle" /\ status[s] = "none" /\ mirror[s] = "online"
     /\ \/ /\ mirror' = [mirror EXCEPT ![s] = "offline"]
           /\ kpc' = [kpc EXCEPT ![k] = "moved"]
        \/ /\ WritesFail
           /\ mirror' \in {mirror, [mirror EXCEPT ![s] = "none"]}
           /\ kpc' = [kpc EXCEPT ![k] = "refused"]
     /\ UNCHANGED <<status, disk, revived, stale, torn, made, connVars, reg, kof, taken>>

(* refreshSessionRecordingSize, for a session that is recorded. *)
CloseRefresh(k) ==
  /\ kpc[k] = "close"
  /\ LET s == kof[k]
     IN \/ Write(s, status[s]) /\ UNCHANGED kpc
        \/ /\ WriteFails(s, status[s]) /\ UNCHANGED stale
           /\ kpc' = [kpc EXCEPT ![k] = "refused"]
  /\ UNCHANGED <<made, connVars, reg, kof, taken>>

(* Mutant: the sockets are cut before the record is closed. *)
CloseRecordLate(k) ==
  /\ kpc[k] = "close"
  /\ kpc' = [kpc EXCEPT ![k] = "disconnect"]
  /\ UNCHANGED <<recVars, made, connVars, reg, kof, taken>>

(* Store.CloseSession *)
CloseRecord(k) ==
  /\ kpc[k] = "close"
  /\ \/ /\ Write(kof[k], "closed")
        /\ kpc' = [kpc EXCEPT ![k] = "disconnect"]
     \/ /\ WriteFails(kof[k], "closed") /\ UNCHANGED stale
        /\ kpc' = [kpc EXCEPT ![k] = "refused"]
  /\ UNCHANGED <<made, connVars, reg, kof, taken>>

(* Mutant: the entries are dropped and their callbacks forgotten. *)
DisconnectForgets(k) ==
  /\ kpc[k] = "disconnect"
  /\ reg' = [reg EXCEPT ![kof[k]] = {}]
  /\ kpc' = [kpc EXCEPT ![k] = "sockets"]
  /\ UNCHANGED <<recVars, made, connVars, kof, taken>>

(* disconnect, under the registry's lock: the entries are taken out. *)
Disconnect(k) ==
  /\ kpc[k] = "disconnect"
  /\ taken' = [taken EXCEPT ![k] = reg[kof[k]]]
  /\ reg' = [reg EXCEPT ![kof[k]] = {}]
  /\ kpc' = [kpc EXCEPT ![k] = "sockets"]
  /\ UNCHANGED <<recVars, made, connVars, kof>>

(* disconnect, after the unlock: the sockets are closed. *)
CloseSockets(k) ==
  /\ kpc[k] = "sockets"
  /\ sock' = [c \in Conns |-> IF c \in taken[k] THEN "closed" ELSE sock[c]]
  /\ taken' = [taken EXCEPT ![k] = {}]
  /\ kpc' = [kpc EXCEPT ![k] = "done"]
  /\ UNCHANGED <<recVars, made, pc, of, reg, kof>>

-----------------------------------------------------------------------------
(* The process dies and starts again with the records that were saved; it  *)
(* repairs neither records nor mirrors.                                    *)
Restart ==
  /\ WritesFail
  /\ pc' = [c \in Conns |-> IF pc[c] = "idle" THEN "idle" ELSE "gone"]
  /\ sock' = [c \in Conns |-> IF sock[c] = "none" THEN "none" ELSE "closed"]
  /\ reg' = [s \in Sessions |-> {}]
  /\ kpc' = [k \in Closers |-> IF kpc[k] \in {"close", "disconnect", "sockets"}
                               THEN "refused" ELSE kpc[k]]
  /\ taken' = [k \in Closers |-> {}]
  /\ made' = [s \in Sessions |-> IF made[s] = "log" THEN "yes" ELSE made[s]]
  /\ status' = disk
  /\ revived' = revived \cup {s \in Sessions : Open(disk[s]) /\ ~Open(status[s])}
  /\ stale' = stale \cup {s \in Sessions : disk[s] = "active"}
  /\ torn' = torn \cup {s \in Sessions : disk[s] # status[s]}
  /\ UNCHANGED <<disk, mirror, of, kof>>

ConnStep(c) == \/ Connect(c) \/ Upgrade(c) \/ Register(c) \/ StillOpen(c)
               \/ Activate(c) \/ DialFails(c) \/ ReadFails(c) \/ Leave(c)

CloserStep(k) == \/ CloseBegin(k) \/ ClosePlatform(k) \/ CloseRefresh(k)
                 \/ CloseRecord(k) \/ Disconnect(k) \/ CloseSockets(k)

Next ==
  \/ \E s \in Sessions : Create(s) \/ CreateLog(s)
  \/ \E c \in Conns : \/ ConnStep(c) \/ RelayFails(c) \/ Touch(c)
                      \/ TargetEnds(c) \/ BrowserLeaves(c) \/ Quit(c)
  \/ \E k \in Closers : CloserStep(k)
  \/ Restart

Spec == Init /\ [][Next]_vars

(* Handlers run on, except in a dial: neither the ssh handshake nor        *)
(* guacd's has a deadline.  Nobody has to connect, and no browser or       *)
(* target has to hang up.                                                  *)
Fairness ==
  /\ \A c \in Conns :
       WF_vars(Upgrade(c) \/ Register(c) \/ StillOpen(c) \/ ReadFails(c) \/ Leave(c))
  /\ \A k \in Closers : WF_vars(CloseRecord(k) \/ Disconnect(k) \/ CloseSockets(k))

FairSpec == Spec /\ Fairness

-----------------------------------------------------------------------------
(* Each variable holds a value the code can give it. *)
TypeOK ==
  /\ status \in [Sessions -> Statuses \cup {"none"}]
  /\ disk \in [Sessions -> Statuses \cup {"none"}]
  /\ mirror \in [Sessions -> {"none", "online", "offline"}]
  /\ made \in [Sessions -> {"no", "log", "yes"}]
  /\ pc \in [Conns -> Served \cup {"idle", "opening", "upgraded", "registered",
                                   "leaving", "ended", "gone"}]
  /\ of \in [Conns -> Sessions]
  /\ sock \in [Conns -> {"none", "open", "closed"}]
  /\ reg \in [Sessions -> SUBSET Conns]
  /\ kpc \in [Closers -> {"idle", "close", "disconnect", "sockets", "done",
                          "moved", "refused"}]
  /\ kof \in [Closers -> Sessions]
  /\ taken \in [Closers -> SUBSET Conns]
  /\ revived \subseteq Sessions
  /\ stale \subseteq Sessions
  /\ torn \subseteq Sessions

(***************************************************************************)
(* A record and its mirror agree (syncSessionPlatformItem): writes that    *)
(* fail are taken back.  Excepted is a mirror that DeleteSession could not *)
(* delete and a restart that finds a save half done; the next write of the *)
(* session repairs both.                                                   *)
(***************************************************************************)
MirrorMatches ==
  \A s \in Sessions \ torn :
    mirror[s] = IF status[s] = "none" THEN "none" ELSE Collection(status[s])

(***************************************************************************)
(* When a close handler has answered, no handler goes on serving the       *)
(* session on a socket that is open and that no other close handler is     *)
(* about to close, unless a handler that was already past its check made   *)
(* the closed session active again.  This is what registering before the   *)
(* check and closing before the disconnect are for.                        *)
(***************************************************************************)
NoSurvivor ==
  \A k \in Closers, c \in Conns :
    kpc[k] = "done" /\ of[c] = kof[k] /\ of[c] \notin revived
      => \/ pc[c] \notin Served \/ sock[c] # "open"
         \/ \E j \in Closers : c \in taken[j]

(***************************************************************************)
(* A session is listed as active only while a handler serves it: every     *)
(* activation is followed by a closeAll, whatever happened in between.     *)
(* Failed writes and restarts are excepted, the code has no repair for     *)
(* them.                                                                   *)
(***************************************************************************)
ActiveIsServed ==
  \A s \in Sessions :
    status[s] = "active" =>
      s \in stale \/ \E c \in Conns : of[c] = s /\ pc[c] = "running"

(* A registry entry belongs to a handler that will remove it.              *)
NoLeakedEntry ==
  \A s \in Sessions : \A c \in reg[s] :
    of[c] = s /\ pc[c] \in Served \cup {"registered", "leaving"}

(***************************************************************************)
(* A closed session does not appear among the online sessions: what the    *)
(* tests say of a session whose disconnect was answered.                   *)
(***************************************************************************)
ClosedNotOnline ==
  \A k \in Closers : kpc[k] = "done" => mirror[kof[k]] # "online"
=============================================================================

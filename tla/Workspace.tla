----------------------------- MODULE Workspace -----------------------------
(***************************************************************************)
(* The workspace of the web client: AppProvider's workspace state, the     *)
(* view that shows it (WorkspaceView), the terminal socket and the desktop *)
(* client its effects open and tear down (SSHWorkspace, RDPWorkspace), the *)
(* requests that open, reopen and close sessions (AccessSection.connect,   *)
(* ConnectDialog, reconnect, close) and the MFA prompt they may wait for.  *)
(*                                                                         *)
(* A handler runs to its await in one step and from the answer on in       *)
(* another one; answers, socket events and clicks come in any order.  A    *)
(* view is one mounted WorkspaceView: it lives while some workspace is     *)
(* shown, and setState calls of a view that is gone do nothing.            *)
(***************************************************************************)
EXTENDS Naturals, FiniteSets

CONSTANTS MaxSessions,   \* bound on the sessions the server creates
          MaxRequests    \* bound on the requests of one behaviour

ASSUME BoundsAssumption == MaxSessions \in Nat /\ MaxRequests \in Nat

VARIABLES
  ws,            \* the session in app.workspace, 0 when it is null
  view,          \* number of the mounted WorkspaceView, or of the last one
  status, closing, reconnecting,     \* the view's own state
  created,       \* sessions created so far
  kind, owner,   \* kind[s] "ssh" or "desktop"; owner[s] the view that opened it
  conn,          \* conn[s]: the browser's end of the connection of s
  events,        \* closed terminal sockets whose onclose has not run yet
  reqs,          \* requests that have not returned to their handler
  issued,        \* number of requests made
  replaced       \* the view was given another session over its head

viewState == <<status, closing, reconnecting>>
netVars == <<created, kind, owner, conn, events>>
vars == <<ws, view, viewState, netVars, reqs, issued, replaced>>

Sessions == 1 .. MaxSessions
Kinds == {"ssh", "desktop"}
Live == {"opening", "open", "dropped"}     \* nobody has closed the browser's end

(* of: the session a reconnect or close is about, in: the view that made   *)
(* it, phase: "sent", or "code" while the handler waits for the MFA code.  *)
Requests == [id : 1 .. MaxRequests, op : {"connect", "dial", "reconnect", "close"}, kind : Kinds,
             of : 0 .. MaxSessions, in : 0 .. MaxSessions, phase : {"sent", "code"}]

TypeOK ==
  /\ ws \in 0 .. MaxSessions /\ view \in 0 .. MaxSessions
  /\ status \in {"connecting", "connected", "disconnected"}
  /\ {closing, reconnecting, replaced} \subseteq BOOLEAN
  /\ created \in 0 .. MaxSessions
  /\ kind \in [Sessions -> Kinds] /\ owner \in [Sessions -> 0 .. MaxSessions]
  /\ conn \in [Sessions -> {"none", "closed"} \cup Live]
  /\ events \subseteq Sessions
  /\ reqs \subseteq Requests /\ issued \in 0 .. MaxRequests

Init ==
  /\ ws = 0 /\ view = 0
  /\ status = "connecting" /\ closing = FALSE /\ reconnecting = FALSE
  /\ created = 0
  /\ kind = [s \in Sessions |-> "ssh"] /\ owner = [s \in Sessions |-> 0]
  /\ conn = [s \in Sessions |-> "none"]
  /\ events = {} /\ reqs = {} /\ issued = 0
  /\ replaced = FALSE

(***************************************************************************)
(* The effects                                                             *)
(***************************************************************************)

(* Cleanup of the effect that serves s: socket.close() fires onclose       *)
(* later; client.disconnect() changes the client's state at once.          *)
Cleanup(s) == [conn EXCEPT ![s] = IF @ \in Live THEN "closed" ELSE @]

CleanupEvents(s) == IF kind[s] = "ssh" /\ conn[s] \in Live THEN events \cup {s} ELSE events

CleanupStatus(s, st) == IF kind[s] = "desktop" /\ conn[s] \in Live THEN "disconnected" ELSE st

(* Mutant: the effect is not cleaned up. *)
TornNothing == conn

Torn == IF ws = 0 THEN conn ELSE Cleanup(ws)

(* Prompts whose dialog disappears with the page or the view that holds it *)
(* are never answered; their handlers never continue.                      *)
WithoutPrompts(rs, op) == {r \in rs : ~(r.phase = "code" /\ r.op = op)}

(* app.setWorkspace(session): a new view when none was shown, else the     *)
(* same view with the new session; its effects run for the new session.    *)
Show(k, st, rs) ==
  LET s == created + 1 IN
  /\ created < MaxSessions
  /\ created' = s /\ ws' = s
  /\ kind' = [kind EXCEPT ![s] = k]
  /\ conn' = [Torn EXCEPT ![s] = "opening"]
  /\ reqs' = WithoutPrompts(rs, "connect")
  /\ IF ws = 0
       THEN /\ view' = s /\ status' = "connecting" /\ closing' = FALSE
            /\ replaced' = FALSE /\ UNCHANGED events
       ELSE /\ status' = CleanupStatus(ws, st)
            /\ events' = CleanupEvents(ws)
            /\ UNCHANGED <<view, closing>>
  /\ owner' = [owner EXCEPT ![s] = view']

(* app.setWorkspace(null): the view is unmounted. *)
Hide(rs) ==
  /\ ws' = 0
  /\ conn' = Torn
  /\ events' = IF ws = 0 THEN events ELSE CleanupEvents(ws)
  /\ reqs' = IF ws = 0 THEN rs ELSE WithoutPrompts(rs, "reconnect")
  /\ status' = "connecting" /\ closing' = FALSE /\ reconnecting' = FALSE
  /\ replaced' = FALSE
  /\ UNCHANGED <<view, created, kind, owner>>

(***************************************************************************)
(* What the user does                                                      *)
(***************************************************************************)

Send(op, k) ==
  /\ issued < MaxRequests
  /\ issued' = issued + 1
  /\ reqs' = reqs \cup {[id |-> issued + 1, op |-> op, kind |-> k, of |-> ws,
                         in |-> IF op \in {"connect", "dial"} THEN 0 ELSE view, phase |-> "sent"]}

(* AccessSection.connect; nothing stops a second click.                    *)
Connect(k) ==
  /\ ws = 0
  /\ Send("connect", k)
  /\ UNCHANGED <<ws, view, viewState, netVars, replaced>>

(* ConnectDialog; it can be cancelled and opened again while one request   *)
(* is under way, and it has no MFA prompt.                                 *)
Dial(k) ==
  /\ ws = 0
  /\ Send("dial", k)
  /\ UNCHANGED <<ws, view, viewState, netVars, replaced>>

CanReconnect == ws # 0 /\ status = "disconnected" /\ ~reconnecting
CanClose == ws # 0 /\ status # "disconnected" /\ ~closing

Reconnect ==
  /\ CanReconnect
  /\ Send("reconnect", kind[ws])
  /\ reconnecting' = TRUE
  /\ UNCHANGED <<ws, view, status, closing, netVars, replaced>>

Close ==
  /\ CanClose
  /\ Send("close", kind[ws])
  /\ closing' = TRUE
  /\ UNCHANGED <<ws, view, status, reconnecting, netVars, replaced>>

Leave ==
  /\ CanReconnect
  /\ Hide(reqs)
  /\ UNCHANGED issued

(***************************************************************************)
(* Answers                                                                 *)
(***************************************************************************)

InView(r) == ws # 0 /\ r.in = view

(* The connect handler's end: setWorkspace with the session it created.    *)
Connected(r) ==
  /\ r.op \in {"connect", "dial"} /\ r.phase = "sent"
  /\ Show(r.kind, status, reqs \ {r})
  /\ IF ws = 0 THEN reconnecting' = FALSE
     ELSE replaced' = TRUE /\ UNCHANGED reconnecting
  /\ UNCHANGED issued

(* Mutant: reconnect does not reset the status. *)
ReconnectedStale(r) ==
  /\ r.op = "reconnect" /\ r.phase = "sent"
  /\ Show(r.kind, status, reqs \ {r})
  /\ reconnecting' = (ws # 0 /\ ~InView(r) /\ reconnecting)
  /\ ws # 0 => replaced' = (replaced \/ ~InView(r))
  /\ UNCHANGED issued

(* The reconnect handler's end: setStatus, setWorkspace, and the finally.  *)
Reconnected(r) ==
  /\ r.op = "reconnect" /\ r.phase = "sent"
  /\ Show(r.kind, IF InView(r) THEN "connecting" ELSE status, reqs \ {r})
  /\ reconnecting' = (ws # 0 /\ ~InView(r) /\ reconnecting)
  /\ ws # 0 => replaced' = (replaced \/ ~InView(r))
  /\ UNCHANGED issued

(* close answered, or refused with 404 or 409: whatever is shown goes.     *)
Closed(r) ==
  /\ r.op = "close"
  /\ Hide(reqs \ {r})
  /\ UNCHANGED issued

(* Any other error, or the MFA prompt cancelled: only the finally runs.    *)
GiveUp(r) ==
  /\ reqs' = reqs \ {r}
  /\ closing' = (closing /\ ~(r.op = "close" /\ InView(r)))
  /\ reconnecting' = (reconnecting /\ ~(r.op = "reconnect" /\ InView(r)))
  /\ UNCHANGED <<ws, view, status, netVars, issued, replaced>>

Fail(r) == r.phase = "sent" /\ GiveUp(r)

(* An error that says setup_required: handleApiError drops the workspace.  *)
SetupRequired(r) ==
  /\ r.phase = "sent"
  /\ Hide(reqs \ {r})
  /\ UNCHANGED issued

(* 428: requestAccessMFACode.  A prompt that was open for another connect  *)
(* is answered with no code; one whose page is gone never opens.           *)
NeedCode(r) ==
  /\ r.op \in {"connect", "reconnect"} /\ r.phase = "sent"
  /\ LET mounted == IF r.op = "connect" THEN ws = 0 ELSE InView(r)
         rest == WithoutPrompts(reqs \ {r}, r.op)
     IN reqs' = IF mounted THEN rest \cup {[r EXCEPT !.phase = "code"]} ELSE reqs \ {r}
  /\ UNCHANGED <<ws, view, viewState, netVars, issued, replaced>>

(* The code is entered: the session is asked for again.                    *)
EnterCode(r) ==
  /\ r.phase = "code"
  /\ reqs' = (reqs \ {r}) \cup {[r EXCEPT !.phase = "sent"]}
  /\ UNCHANGED <<ws, view, viewState, netVars, issued, replaced>>

(* Mutant: a cancelled prompt returns outside the try. *)
CancelCodeBusy(r) ==
  /\ r.phase = "code"
  /\ reqs' = reqs \ {r}
  /\ UNCHANGED <<ws, view, viewState, netVars, issued, replaced>>

CancelCode(r) == r.phase = "code" /\ GiveUp(r)

(***************************************************************************)
(* Socket and client events                                                *)
(***************************************************************************)

(* Mutant: the protocol's word for a live session is stored. *)
SetStatusRaw(s, st) == status' = IF st = "connected" THEN "active" ELSE st

SetStatus(s, st) == status' = IF ws # 0 /\ owner[s] = view THEN st ELSE status

(* The terminal's ready message; the desktop client's state 3.             *)
Ready(s) ==
  /\ conn[s] = "opening"
  /\ conn' = [conn EXCEPT ![s] = "open"]
  /\ SetStatus(s, "connected")
  /\ UNCHANGED <<ws, view, closing, reconnecting, created, kind, owner, events, reqs, issued, replaced>>

(* The server or the network ends a terminal socket.                       *)
SocketEnds(s) ==
  /\ kind[s] = "ssh" /\ conn[s] \in {"opening", "open"}
  /\ conn' = [conn EXCEPT ![s] = "closed"]
  /\ events' = events \cup {s}
  /\ UNCHANGED <<ws, view, viewState, created, kind, owner, reqs, issued, replaced>>

(* Mutant: onclose only writes to the terminal. *)
OnCloseSilent(s) ==
  /\ s \in events
  /\ events' = events \ {s}
  /\ UNCHANGED <<ws, view, viewState, created, kind, owner, conn, reqs, issued, replaced>>

OnClose(s) ==
  /\ s \in events
  /\ events' = events \ {s}
  /\ SetStatus(s, "disconnected")
  /\ UNCHANGED <<ws, view, closing, reconnecting, created, kind, owner, conn, reqs, issued, replaced>>

(* The desktop client reports an error or a disconnect instruction.        *)
ClientEnds(s) ==
  /\ kind[s] = "desktop" /\ conn[s] \in {"opening", "open"}
  /\ conn' = [conn EXCEPT ![s] = "closed"]
  /\ SetStatus(s, "disconnected")
  /\ UNCHANGED <<ws, view, closing, reconnecting, created, kind, owner, events, reqs, issued, replaced>>

(* The tunnel of a desktop dies: the client has no handler for it.         *)
TunnelDrops(s) ==
  /\ kind[s] = "desktop" /\ conn[s] \in {"opening", "open"}
  /\ conn' = [conn EXCEPT ![s] = "dropped"]
  /\ UNCHANGED <<ws, view, viewState, created, kind, owner, events, reqs, issued, replaced>>

User == Reconnect \/ Close \/ Leave \/ \E k \in Kinds : Connect(k) \/ Dial(k)

Answer(r) == Connected(r) \/ Reconnected(r) \/ Closed(r) \/ Fail(r) \/ SetupRequired(r) \/ NeedCode(r)

Next ==
  \/ User
  \/ \E r \in reqs : Answer(r) \/ EnterCode(r) \/ CancelCode(r)
  \/ \E s \in Sessions : Ready(s) \/ SocketEnds(s) \/ OnClose(s) \/ ClientEnds(s) \/ TunnelDrops(s)

Spec == Init /\ [][Next]_vars

(* Events the browser has queued are run.  Users, servers and the network  *)
(* owe nothing.                                                            *)
FairSpec == Spec /\ \A s \in Sessions : WF_vars(OnClose(s))

(***************************************************************************)
(* Properties                                                              *)
(***************************************************************************)

(* A view whose session was never exchanged over its head tells the truth: *)
(* "connected" only when the connection is up or has ended unnoticed (an   *)
(* onclose not run yet, a dropped tunnel), and "disconnected", which is    *)
(* what offers Reconnect, only when the session's connection is closed.    *)
StatusIsTrue ==
  ws # 0 /\ ~replaced =>
    /\ status = "connected" => conn[ws] \in {"open", "dropped"} \/ ws \in events
    /\ status = "disconnected" => conn[ws] = "closed"

(* The buttons' busy flags say exactly whether a request of this view is   *)
(* under way: none stays disabled after its handler has ended, through an  *)
(* error, a cancelled MFA prompt or an answer of another view, and no      *)
(* second reconnect or close starts beside one.                            *)
BusyIsTrue ==
  ws # 0 =>
    /\ reconnecting <=> \E r \in reqs : r.op = "reconnect" /\ InView(r)
    /\ closing <=> \E r \in reqs : r.op = "close" /\ InView(r)
    /\ \A r1, r2 \in reqs : InView(r1) /\ InView(r2) /\ r1.op = r2.op => r1 = r2

(* The workspace implements LiveView: one attached connection, the one on  *)
(* the screen, whatever answers arrive late.                               *)
Abstract == INSTANCE LiveView
  WITH shown <- ws,
       link <- [s \in Sessions |-> IF conn[s] = "none" THEN "new"
                                   ELSE IF conn[s] \in Live THEN "attached" ELSE "gone"]
OneLiveSession == Abstract!ViewSpec
=============================================================================

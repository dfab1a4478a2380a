---------------------------- MODULE ServerProofs ----------------------------
(***************************************************************************)
(* Safety of three parts of the server: connection sessions, the task      *)
(* scheduler and the agent relay.  They share nothing.                     *)
(***************************************************************************)
EXTENDS ConnectionSession, Scheduler, AgentRelay, SequenceTheorems, TLAPS

-----------------------------------------------------------------------------
(***************************************************************************)
(* Safety of connection sessions for any sets of sessions, websocket       *)
(* handlers and close handlers, whether writes fail or not.                *)
(*                                                                         *)
(* NoSurvivor is not inductive.  It rests on Registered (register before   *)
(* the check) and ClosedRecord (close before the disconnect): a handler is *)
(* either in the registry when Disconnect empties it, or checks the record *)
(* after it was closed.                                                    *)
(***************************************************************************)

(* Nothing is known of a session before it is created.                     *)
MadeFirst ==
  /\ \A s \in Sessions :
       made[s] = "no" => status[s] = "none" /\ disk[s] = "none" /\ mirror[s] = "none"
  /\ \A k \in Closers : kpc[k] # "idle" => made[kof[k]] # "no"

(* A close handler holds callbacks only between its two halves of          *)
(* disconnect.                                                             *)
TakenShape == \A k \in Closers : kpc[k] # "sockets" => taken[k] = {}

(* An open socket of a handler at or past its check is in the registry, or *)
(* a close handler is about to close it.                                   *)
Registered ==
  \A c \in Conns :
    pc[c] \in Served \cup {"registered"} /\ sock[c] = "open"
      => c \in reg[of[c]] \/ \E j \in Closers : c \in taken[j]

(* Once its record is closed a session is open again only if it was        *)
(* revived.                                                                *)
ClosedRecord ==
  \A k \in Closers :
    kpc[k] \in {"disconnect", "sockets", "done"} /\ kof[k] \notin revived
      => ~Open(status[kof[k]])

(* NoSurvivor, from the moment the registry is emptied.                    *)
Cut ==
  \A k \in Closers, c \in Conns :
    kpc[k] \in {"sockets", "done"} /\ of[c] = kof[k] /\ of[c] \notin revived
      => \/ pc[c] \notin Served \/ sock[c] # "open"
         \/ \E j \in Closers : c \in taken[j]

(* The inductive invariant. *)
IInv == /\ TypeOK /\ MirrorMatches /\ ActiveIsServed /\ NoLeakedEntry
        /\ MadeFirst /\ TakenShape /\ Registered /\ ClosedRecord /\ Cut

-----------------------------------------------------------------------------

(* Every step keeps the types.                                             *)
LEMMA TypeStep ==
  ASSUME TypeOK, [Next]_vars
  PROVE  TypeOK'
<1> USE DEF TypeOK, Collection, Served, Statuses
<1>1. ASSUME NEW s \in Sessions, Create(s)
      PROVE  TypeOK'
  BY <1>1 DEF Create, recVars, connVars, closeVars
<1>2. ASSUME NEW s \in Sessions, CreateLog(s)
      PROVE  TypeOK'
  BY <1>2 DEF CreateLog, recVars, connVars, closeVars
<1>3. ASSUME NEW c \in Conns, Connect(c)
      PROVE  TypeOK'
  BY <1>3 DEF Connect, recVars, connVars, closeVars
<1>4. ASSUME NEW c \in Conns, Upgrade(c)
      PROVE  TypeOK'
  BY <1>4 DEF Upgrade, recVars, connVars, closeVars
<1>5. ASSUME NEW c \in Conns, Register(c)
      PROVE  TypeOK'
  BY <1>5 DEF Register, recVars, connVars, closeVars
<1>6. ASSUME NEW c \in Conns, StillOpen(c)
      PROVE  TypeOK'
  BY <1>6 DEF StillOpen, recVars, connVars, closeVars
<1>7. ASSUME NEW c \in Conns, Activate(c)
      PROVE  TypeOK'
  BY <1>7 DEF Activate, Write, WriteFails, recVars, connVars, closeVars
<1>8. ASSUME NEW c \in Conns, DialFails(c)
      PROVE  TypeOK'
  BY <1>8 DEF DialFails, Write, WriteFails, recVars, connVars, closeVars
<1>9. ASSUME NEW c \in Conns, RelayFails(c)
      PROVE  TypeOK'
  BY <1>9 DEF RelayFails, Write, WriteFails, recVars, connVars, closeVars
<1>10. ASSUME NEW c \in Conns, TargetEnds(c)
      PROVE  TypeOK'
  BY <1>10 DEF TargetEnds, CloseAll, Write, WriteFails, recVars, connVars,
      closeVars
<1>11. ASSUME NEW c \in Conns, BrowserLeaves(c)
      PROVE  TypeOK'
  BY <1>11 DEF BrowserLeaves, recVars, connVars, closeVars
<1>12. ASSUME NEW c \in Conns, ReadFails(c)
      PROVE  TypeOK'
  BY <1>12 DEF ReadFails, RunEnds, CloseAll, Write, WriteFails, recVars,
      connVars, closeVars
<1>13. ASSUME NEW c \in Conns, Quit(c)
      PROVE  TypeOK'
  BY <1>13 DEF Quit, RunEnds, CloseAll, Write, WriteFails, recVars, connVars,
      closeVars
<1>14. ASSUME NEW c \in Conns, Touch(c)
      PROVE  TypeOK'
  BY <1>14 DEF Touch, Write, WriteFails, recVars, connVars, closeVars
<1>15. ASSUME NEW c \in Conns, Leave(c)
      PROVE  TypeOK'
  BY <1>15 DEF Leave, recVars, connVars, closeVars
<1>16. ASSUME NEW k \in Closers, CloseBegin(k)
      PROVE  TypeOK'
  BY <1>16 DEF CloseBegin, recVars, connVars
<1>17. ASSUME NEW k \in Closers, ClosePlatform(k)
      PROVE  TypeOK'
  BY <1>17 DEF ClosePlatform, recVars, connVars
<1>18. ASSUME NEW k \in Closers, CloseRefresh(k)
      PROVE  TypeOK'
  BY <1>18 DEF CloseRefresh, Write, WriteFails, recVars, connVars
<1>19. ASSUME NEW k \in Closers, CloseRecord(k)
      PROVE  TypeOK'
  BY <1>19 DEF CloseRecord, Write, WriteFails, recVars, connVars
<1>20. ASSUME NEW k \in Closers, Disconnect(k)
      PROVE  TypeOK'
  BY <1>20 DEF Disconnect, recVars, connVars
<1>21. ASSUME NEW k \in Closers, CloseSockets(k)
      PROVE  TypeOK'
  BY <1>21 DEF CloseSockets, recVars, connVars
<1>22. CASE Restart
  BY <1>22 DEF Restart
<1>23. CASE UNCHANGED vars
  BY <1>23 DEF vars, recVars, connVars, closeVars
<1> QED
  BY <1>1, <1>2, <1>3, <1>4, <1>5, <1>6, <1>7, <1>8, <1>9, <1>10, <1>11,
     <1>12, <1>13, <1>14, <1>15, <1>16, <1>17, <1>18, <1>19, <1>20, <1>21,
     <1>22, <1>23 DEF Next, ConnStep, CloserStep

(* A record and its mirror move together; nothing is written of a session  *)
(* that is not made.                                                       *)
LEMMA MirrorStep ==
  ASSUME TypeOK, TypeOK', MirrorMatches, MadeFirst, [Next]_vars
  PROVE  MirrorMatches' /\ MadeFirst'
<1> USE DEF TypeOK, MirrorMatches, MadeFirst, Open, Collection, Statuses
<1>1. ASSUME NEW s \in Sessions, Create(s)
      PROVE  MirrorMatches' /\ MadeFirst'
  BY <1>1 DEF Create, recVars, connVars, closeVars
<1>2. ASSUME NEW s \in Sessions, CreateLog(s)
      PROVE  MirrorMatches' /\ MadeFirst'
  BY <1>2 DEF CreateLog, recVars, connVars, closeVars
<1>3. ASSUME NEW c \in Conns, Activate(c)
      PROVE  MirrorMatches' /\ MadeFirst'
  BY <1>3 DEF Activate, Write, WriteFails, recVars, connVars, closeVars
<1>4. ASSUME NEW c \in Conns, DialFails(c)
      PROVE  MirrorMatches' /\ MadeFirst'
  BY <1>4 DEF DialFails, Write, WriteFails, recVars, connVars, closeVars
<1>5. ASSUME NEW c \in Conns, RelayFails(c)
      PROVE  MirrorMatches' /\ MadeFirst'
  BY <1>5 DEF RelayFails, Write, WriteFails, recVars, connVars, closeVars
<1>6. ASSUME NEW c \in Conns, TargetEnds(c)
      PROVE  MirrorMatches' /\ MadeFirst'
  BY <1>6 DEF TargetEnds, CloseAll, Write, WriteFails, recVars, connVars,
      closeVars
<1>7. ASSUME NEW c \in Conns, ReadFails(c)
      PROVE  MirrorMatches' /\ MadeFirst'
  BY <1>7 DEF ReadFails, RunEnds, CloseAll, Write, WriteFails, recVars,
      connVars, closeVars
<1>8. ASSUME NEW c \in Conns, Quit(c)
      PROVE  MirrorMatches' /\ MadeFirst'
  BY <1>8 DEF Quit, RunEnds, CloseAll, Write, WriteFails, recVars, connVars,
      closeVars
<1>9. ASSUME NEW c \in Conns, Touch(c)
      PROVE  MirrorMatches' /\ MadeFirst'
  BY <1>9 DEF Touch, Write, WriteFails, recVars, connVars, closeVars
<1>10. ASSUME NEW c \in Conns, Connect(c) \/ Upgrade(c) \/ Register(c)
                               \/ StillOpen(c) \/ BrowserLeaves(c) \/ Leave(c)
      PROVE  MirrorMatches' /\ MadeFirst'
  BY <1>10 DEF Connect, Upgrade, Register, StillOpen, BrowserLeaves, Leave,
      recVars, connVars, closeVars
<1>11. ASSUME NEW k \in Closers, CloseBegin(k)
      PROVE  MirrorMatches' /\ MadeFirst'
  BY <1>11 DEF CloseBegin, recVars, connVars
<1>12. ASSUME NEW k \in Closers, ClosePlatform(k)
      PROVE  MirrorMatches' /\ MadeFirst'
  BY <1>12 DEF ClosePlatform, recVars, connVars
<1>13. ASSUME NEW k \in Closers, CloseRefresh(k)
      PROVE  MirrorMatches' /\ MadeFirst'
  BY <1>13 DEF CloseRefresh, Write, WriteFails, recVars, connVars
<1>14. ASSUME NEW k \in Closers, CloseRecord(k)
      PROVE  MirrorMatches' /\ MadeFirst'
  BY <1>14 DEF CloseRecord, Write, WriteFails, recVars, connVars
<1>15. ASSUME NEW k \in Closers, Disconnect(k)
      PROVE  MirrorMatches' /\ MadeFirst'
  BY <1>15 DEF Disconnect, recVars, connVars
<1>16. ASSUME NEW k \in Closers, CloseSockets(k)
      PROVE  MirrorMatches' /\ MadeFirst'
  BY <1>16 DEF CloseSockets, recVars, connVars
<1>17. CASE Restart
  BY <1>17 DEF Restart
<1>18. CASE UNCHANGED vars
  BY <1>18 DEF vars, recVars, connVars, closeVars
<1> QED
  BY <1>1, <1>2, <1>3, <1>4, <1>5, <1>6, <1>7, <1>8, <1>9, <1>10, <1>11,
     <1>12, <1>13, <1>14, <1>15, <1>16, <1>17,
     <1>18 DEF Next, ConnStep, CloserStep

(* The handler that makes a record active runs closeAll before it leaves   *)
(* "running".                                                              *)
LEMMA ActiveStep ==
  ASSUME TypeOK, TypeOK', ActiveIsServed, [Next]_vars
  PROVE  ActiveIsServed'
<1> USE DEF TypeOK, ActiveIsServed, Statuses
<1>1. ASSUME NEW s \in Sessions, Create(s)
      PROVE  ActiveIsServed'
  BY <1>1 DEF Create, recVars, connVars, closeVars
<1>2. ASSUME NEW s \in Sessions, CreateLog(s)
      PROVE  ActiveIsServed'
  BY <1>2 DEF CreateLog, recVars, connVars, closeVars
<1>3. ASSUME NEW c \in Conns, Connect(c)
      PROVE  ActiveIsServed'
  BY <1>3 DEF Connect, recVars, connVars, closeVars
<1>4. ASSUME NEW c \in Conns, Upgrade(c)
      PROVE  ActiveIsServed'
  BY <1>4 DEF Upgrade, recVars, connVars, closeVars
<1>5. ASSUME NEW c \in Conns, Register(c)
      PROVE  ActiveIsServed'
  BY <1>5 DEF Register, recVars, connVars, closeVars
<1>6. ASSUME NEW c \in Conns, StillOpen(c)
      PROVE  ActiveIsServed'
  BY <1>6 DEF StillOpen, recVars, connVars, closeVars
<1>7. ASSUME NEW c \in Conns, Activate(c)
      PROVE  ActiveIsServed'
  BY <1>7 DEF Activate, Write, WriteFails, recVars, connVars, closeVars
<1>8. ASSUME NEW c \in Conns, DialFails(c)
      PROVE  ActiveIsServed'
  BY <1>8 DEF DialFails, Write, WriteFails, recVars, connVars, closeVars
<1>9. ASSUME NEW c \in Conns, RelayFails(c)
      PROVE  ActiveIsServed'
  BY <1>9 DEF RelayFails, Write, WriteFails, recVars, connVars, closeVars
<1>10. ASSUME NEW c \in Conns, TargetEnds(c)
      PROVE  ActiveIsServed'
  BY <1>10 DEF TargetEnds, CloseAll, Write, WriteFails, recVars, connVars,
      closeVars
<1>11. ASSUME NEW c \in Conns, ReadFails(c)
      PROVE  ActiveIsServed'
  BY <1>11 DEF ReadFails, RunEnds, CloseAll, Write, WriteFails, recVars,
      connVars, closeVars
<1>12. ASSUME NEW c \in Conns, Quit(c)
      PROVE  ActiveIsServed'
  BY <1>12 DEF Quit, RunEnds, CloseAll, Write, WriteFails, recVars, connVars,
      closeVars
<1>13. ASSUME NEW c \in Conns, Touch(c)
      PROVE  ActiveIsServed'
  BY <1>13 DEF Touch, Write, WriteFails, recVars, connVars, closeVars
<1>14. ASSUME NEW c \in Conns, Leave(c)
      PROVE  ActiveIsServed'
  BY <1>14 DEF Leave, recVars, connVars, closeVars
<1>15. ASSUME NEW c \in Conns, BrowserLeaves(c)
      PROVE  ActiveIsServed'
  BY <1>15 DEF BrowserLeaves, recVars, connVars, closeVars
<1>16. ASSUME NEW k \in Closers, CloseRefresh(k)
      PROVE  ActiveIsServed'
  BY <1>16 DEF CloseRefresh, Write, WriteFails, recVars, connVars
<1>17. ASSUME NEW k \in Closers, CloseRecord(k)
      PROVE  ActiveIsServed'
  BY <1>17 DEF CloseRecord, Write, WriteFails, recVars, connVars
<1>18. ASSUME NEW k \in Closers, CloseBegin(k) \/ ClosePlatform(k)
                                 \/ Disconnect(k) \/ CloseSockets(k)
      PROVE  ActiveIsServed'
  BY <1>18 DEF CloseBegin, ClosePlatform, Disconnect, CloseSockets, recVars,
      connVars
<1>19. CASE Restart
  BY <1>19 DEF Restart
<1>20. CASE UNCHANGED vars
  BY <1>20 DEF vars, recVars, connVars, closeVars
<1> QED
  BY <1>1, <1>2, <1>3, <1>4, <1>5, <1>6, <1>7, <1>8, <1>9, <1>10, <1>11,
     <1>12, <1>13, <1>14, <1>15, <1>16, <1>17, <1>18, <1>19,
     <1>20 DEF Next, ConnStep, CloserStep

(* Entries leave the registry with their handler or with a disconnect.     *)
LEMMA EntryStep ==
  ASSUME TypeOK, TypeOK', NoLeakedEntry, TakenShape, [Next]_vars
  PROVE  NoLeakedEntry' /\ TakenShape'
<1> USE DEF TypeOK, NoLeakedEntry, TakenShape, Served
<1>1. ASSUME NEW s \in Sessions, Create(s) \/ CreateLog(s)
      PROVE  NoLeakedEntry' /\ TakenShape'
  BY <1>1 DEF Create, CreateLog, connVars, closeVars
<1>2. ASSUME NEW c \in Conns, Connect(c)
      PROVE  NoLeakedEntry' /\ TakenShape'
  BY <1>2 DEF Connect, connVars, closeVars
<1>3. ASSUME NEW c \in Conns, Upgrade(c)
      PROVE  NoLeakedEntry' /\ TakenShape'
  BY <1>3 DEF Upgrade, connVars, closeVars
<1>4. ASSUME NEW c \in Conns, Register(c)
      PROVE  NoLeakedEntry' /\ TakenShape'
  BY <1>4 DEF Register, connVars, closeVars
<1>5. ASSUME NEW c \in Conns, StillOpen(c)
      PROVE  NoLeakedEntry' /\ TakenShape'
  BY <1>5 DEF StillOpen, connVars, closeVars
<1>6. ASSUME NEW c \in Conns, Activate(c)
      PROVE  NoLeakedEntry' /\ TakenShape'
  BY <1>6 DEF Activate, connVars, closeVars
<1>7. ASSUME NEW c \in Conns, DialFails(c)
      PROVE  NoLeakedEntry' /\ TakenShape'
  BY <1>7 DEF DialFails, connVars, closeVars
<1>8. ASSUME NEW c \in Conns, TargetEnds(c)
      PROVE  NoLeakedEntry' /\ TakenShape'
  BY <1>8 DEF TargetEnds, connVars, closeVars
<1>9. ASSUME NEW c \in Conns, ReadFails(c)
      PROVE  NoLeakedEntry' /\ TakenShape'
  BY <1>9 DEF ReadFails, RunEnds, connVars, closeVars
<1>10. ASSUME NEW c \in Conns, Quit(c)
      PROVE  NoLeakedEntry' /\ TakenShape'
  BY <1>10 DEF Quit, RunEnds, connVars, closeVars
<1>11. ASSUME NEW c \in Conns, Leave(c)
      PROVE  NoLeakedEntry' /\ TakenShape'
  BY <1>11 DEF Leave, connVars, closeVars
<1>12. ASSUME NEW c \in Conns, RelayFails(c) \/ BrowserLeaves(c) \/ Touch(c)
      PROVE  NoLeakedEntry' /\ TakenShape'
  BY <1>12 DEF RelayFails, BrowserLeaves, Touch, connVars, closeVars
<1>13. ASSUME NEW k \in Closers, CloseBegin(k)
      PROVE  NoLeakedEntry' /\ TakenShape'
  BY <1>13 DEF CloseBegin, connVars
<1>14. ASSUME NEW k \in Closers, ClosePlatform(k)
      PROVE  NoLeakedEntry' /\ TakenShape'
  BY <1>14 DEF ClosePlatform, connVars
<1>15. ASSUME NEW k \in Closers, CloseRefresh(k)
      PROVE  NoLeakedEntry' /\ TakenShape'
  BY <1>15 DEF CloseRefresh, connVars
<1>16. ASSUME NEW k \in Closers, CloseRecord(k)
      PROVE  NoLeakedEntry' /\ TakenShape'
  BY <1>16 DEF CloseRecord, connVars
<1>17. ASSUME NEW k \in Closers, Disconnect(k)
      PROVE  NoLeakedEntry' /\ TakenShape'
  BY <1>17 DEF Disconnect, connVars
<1>18. ASSUME NEW k \in Closers, CloseSockets(k)
      PROVE  NoLeakedEntry' /\ TakenShape'
  BY <1>18 DEF CloseSockets, connVars
<1>19. CASE Restart
  BY <1>19 DEF Restart
<1>20. CASE UNCHANGED vars
  BY <1>20 DEF vars, recVars, connVars, closeVars
<1> QED
  BY <1>1, <1>2, <1>3, <1>4, <1>5, <1>6, <1>7, <1>8, <1>9, <1>10, <1>11,
     <1>12, <1>13, <1>14, <1>15, <1>16, <1>17, <1>18, <1>19,
     <1>20 DEF Next, ConnStep, CloserStep

(* A handler is in the registry before it checks the record.               *)
LEMMA RegisteredStep ==
  ASSUME TypeOK, TypeOK', Registered, TakenShape, [Next]_vars
  PROVE  Registered'
<1> USE DEF TypeOK, Registered, Served
<1>1. ASSUME NEW s \in Sessions, Create(s) \/ CreateLog(s)
      PROVE  Registered'
  BY <1>1 DEF Create, CreateLog, connVars, closeVars
<1>2. ASSUME NEW c \in Conns, Connect(c)
      PROVE  Registered'
  BY <1>2 DEF Connect, connVars, closeVars, TakenShape
<1>3. ASSUME NEW c \in Conns, Upgrade(c)
      PROVE  Registered'
  BY <1>3 DEF Upgrade, connVars, closeVars, TakenShape
<1>4. ASSUME NEW c \in Conns, Register(c)
      PROVE  Registered'
  BY <1>4 DEF Register, connVars, closeVars, TakenShape
<1>5. ASSUME NEW c \in Conns, StillOpen(c)
      PROVE  Registered'
  BY <1>5 DEF StillOpen, connVars, closeVars, TakenShape
<1>6. ASSUME NEW c \in Conns, Activate(c)
      PROVE  Registered'
  BY <1>6 DEF Activate, connVars, closeVars, TakenShape
<1>7. ASSUME NEW c \in Conns, DialFails(c)
      PROVE  Registered'
  BY <1>7 DEF DialFails, connVars, closeVars, TakenShape
<1>8. ASSUME NEW c \in Conns, TargetEnds(c)
      PROVE  Registered'
  BY <1>8 DEF TargetEnds, connVars, closeVars, TakenShape
<1>9. ASSUME NEW c \in Conns, BrowserLeaves(c)
      PROVE  Registered'
  BY <1>9 DEF BrowserLeaves, connVars, closeVars, TakenShape
<1>10. ASSUME NEW c \in Conns, ReadFails(c)
      PROVE  Registered'
  BY <1>10 DEF ReadFails, RunEnds, connVars, closeVars, TakenShape
<1>11. ASSUME NEW c \in Conns, Quit(c)
      PROVE  Registered'
  BY <1>11 DEF Quit, RunEnds, connVars, closeVars, TakenShape
<1>12. ASSUME NEW c \in Conns, Leave(c)
      PROVE  Registered'
  BY <1>12 DEF Leave, connVars, closeVars, TakenShape
<1>13. ASSUME NEW c \in Conns, RelayFails(c) \/ Touch(c)
      PROVE  Registered'
  BY <1>13 DEF RelayFails, Touch, connVars, closeVars
<1>14. ASSUME NEW k \in Closers, Disconnect(k)
      PROVE  Registered'
  BY <1>14 DEF Disconnect, connVars, TakenShape
<1>15. ASSUME NEW k \in Closers, CloseSockets(k)
      PROVE  Registered'
  BY <1>15 DEF CloseSockets, connVars, TakenShape
<1>16. ASSUME NEW k \in Closers, CloseBegin(k) \/ ClosePlatform(k)
                                 \/ CloseRefresh(k) \/ CloseRecord(k)
      PROVE  Registered'
  BY <1>16 DEF CloseBegin, ClosePlatform, CloseRefresh, CloseRecord, connVars
<1>17. CASE Restart
  BY <1>17 DEF Restart, TakenShape
<1>18. CASE UNCHANGED vars
  BY <1>18 DEF vars, recVars, connVars, closeVars
<1> QED
  BY <1>1, <1>2, <1>3, <1>4, <1>5, <1>6, <1>7, <1>8, <1>9, <1>10, <1>11,
     <1>12, <1>13, <1>14, <1>15, <1>16, <1>17,
     <1>18 DEF Next, ConnStep, CloserStep

(* Only Activate opens a closed record, and then the session is revived.   *)
LEMMA ClosedRecordStep ==
  ASSUME TypeOK, TypeOK', ClosedRecord, MadeFirst, [Next]_vars
  PROVE  ClosedRecord'
<1> USE DEF TypeOK, ClosedRecord, Open
<1>1. ASSUME NEW s \in Sessions, Create(s)
      PROVE  ClosedRecord'
  BY <1>1 DEF Create, recVars, connVars, closeVars, MadeFirst
<1>2. ASSUME NEW s \in Sessions, CreateLog(s)
      PROVE  ClosedRecord'
  BY <1>2 DEF CreateLog, recVars, connVars, closeVars, MadeFirst
<1>3. ASSUME NEW c \in Conns, Activate(c)
      PROVE  ClosedRecord'
  BY <1>3 DEF Activate, Write, WriteFails, recVars, connVars, closeVars,
      MadeFirst
<1>4. ASSUME NEW c \in Conns, DialFails(c)
      PROVE  ClosedRecord'
  BY <1>4 DEF DialFails, Write, WriteFails, recVars, connVars, closeVars,
      MadeFirst
<1>5. ASSUME NEW c \in Conns, RelayFails(c)
      PROVE  ClosedRecord'
  BY <1>5 DEF RelayFails, Write, WriteFails, recVars, connVars, closeVars,
      MadeFirst
<1>6. ASSUME NEW c \in Conns, TargetEnds(c)
      PROVE  ClosedRecord'
  BY <1>6 DEF TargetEnds, CloseAll, Write, WriteFails, recVars, connVars,
      closeVars, MadeFirst
<1>7. ASSUME NEW c \in Conns, ReadFails(c)
      PROVE  ClosedRecord'
  BY <1>7 DEF ReadFails, RunEnds, CloseAll, Write, WriteFails, recVars,
      connVars, closeVars, MadeFirst
<1>8. ASSUME NEW c \in Conns, Quit(c)
      PROVE  ClosedRecord'
  BY <1>8 DEF Quit, RunEnds, CloseAll, Write, WriteFails, recVars, connVars,
      closeVars, MadeFirst
<1>9. ASSUME NEW c \in Conns, Touch(c)
      PROVE  ClosedRecord'
  BY <1>9 DEF Touch, Write, WriteFails, recVars, connVars, closeVars,
      MadeFirst
<1>10. ASSUME NEW c \in Conns, Connect(c) \/ Upgrade(c) \/ Register(c)
                               \/ StillOpen(c) \/ BrowserLeaves(c) \/ Leave(c)
      PROVE  ClosedRecord'
  BY <1>10 DEF Connect, Upgrade, Register, StillOpen, BrowserLeaves, Leave,
      recVars, connVars, closeVars
<1>11. ASSUME NEW k \in Closers, CloseBegin(k)
      PROVE  ClosedRecord'
  BY <1>11 DEF CloseBegin, recVars, connVars, MadeFirst
<1>12. ASSUME NEW k \in Closers, ClosePlatform(k)
      PROVE  ClosedRecord'
  BY <1>12 DEF ClosePlatform, recVars, connVars, MadeFirst
<1>13. ASSUME NEW k \in Closers, CloseRefresh(k)
      PROVE  ClosedRecord'
  BY <1>13 DEF CloseRefresh, Write, WriteFails, recVars, connVars, MadeFirst
<1>14. ASSUME NEW k \in Closers, CloseRecord(k)
      PROVE  ClosedRecord'
  BY <1>14 DEF CloseRecord, Write, WriteFails, recVars, connVars, MadeFirst
<1>15. ASSUME NEW k \in Closers, Disconnect(k)
      PROVE  ClosedRecord'
  BY <1>15 DEF Disconnect, recVars, connVars, MadeFirst
<1>16. ASSUME NEW k \in Closers, CloseSockets(k)
      PROVE  ClosedRecord'
  BY <1>16 DEF CloseSockets, recVars, connVars, MadeFirst
<1>17. CASE Restart
  BY <1>17 DEF Restart, MadeFirst
<1>18. CASE UNCHANGED vars
  BY <1>18 DEF vars, recVars, connVars, closeVars
<1> QED
  BY <1>1, <1>2, <1>3, <1>4, <1>5, <1>6, <1>7, <1>8, <1>9, <1>10, <1>11,
     <1>12, <1>13, <1>14, <1>15, <1>16, <1>17,
     <1>18 DEF Next, ConnStep, CloserStep

(* A handler that passes its check after the record was closed would need  *)
(* an open record; one that passed it before is in what Disconnect takes.  *)
LEMMA CutStep ==
  ASSUME TypeOK, TypeOK', Cut, Registered, ClosedRecord, TakenShape, [Next]_vars
  PROVE  Cut'
<1> USE DEF TypeOK, Cut, Served, Open
<1>1. ASSUME NEW s \in Sessions, Create(s) \/ CreateLog(s)
      PROVE  Cut'
  BY <1>1 DEF Create, CreateLog, recVars, connVars, closeVars
<1>2. ASSUME NEW c \in Conns, Connect(c)
      PROVE  Cut'
  BY <1>2 DEF Connect, recVars, connVars, closeVars, Registered, ClosedRecord,
      TakenShape
<1>3. ASSUME NEW c \in Conns, Upgrade(c)
      PROVE  Cut'
  BY <1>3 DEF Upgrade, recVars, connVars, closeVars, Registered, ClosedRecord,
      TakenShape
<1>4. ASSUME NEW c \in Conns, Register(c)
      PROVE  Cut'
  BY <1>4 DEF Register, recVars, connVars, closeVars, Registered,
      ClosedRecord, TakenShape
<1>5. ASSUME NEW c \in Conns, StillOpen(c)
      PROVE  Cut'
  BY <1>5 DEF StillOpen, recVars, connVars, closeVars, Registered,
      ClosedRecord, TakenShape
<1>6. ASSUME NEW c \in Conns, Activate(c)
      PROVE  Cut'
  BY <1>6 DEF Activate, Write, WriteFails, recVars, connVars, closeVars,
      Registered, ClosedRecord, TakenShape
<1>7. ASSUME NEW c \in Conns, DialFails(c)
      PROVE  Cut'
  BY <1>7 DEF DialFails, Write, WriteFails, recVars, connVars, closeVars,
      Registered, ClosedRecord, TakenShape
<1>8. ASSUME NEW c \in Conns, RelayFails(c)
      PROVE  Cut'
  BY <1>8 DEF RelayFails, Write, WriteFails, recVars, connVars, closeVars,
      Registered, ClosedRecord, TakenShape
<1>9. ASSUME NEW c \in Conns, TargetEnds(c)
      PROVE  Cut'
  BY <1>9 DEF TargetEnds, CloseAll, Write, WriteFails, recVars, connVars,
      closeVars, Registered, ClosedRecord, TakenShape
<1>10. ASSUME NEW c \in Conns, BrowserLeaves(c)
      PROVE  Cut'
  BY <1>10 DEF BrowserLeaves, recVars, connVars, closeVars, Registered,
      ClosedRecord, TakenShape
<1>11. ASSUME NEW c \in Conns, ReadFails(c)
      PROVE  Cut'
  BY <1>11 DEF ReadFails, RunEnds, CloseAll, Write, WriteFails, recVars,
      connVars, closeVars, Registered, ClosedRecord, TakenShape
<1>12. ASSUME NEW c \in Conns, Quit(c)
      PROVE  Cut'
  BY <1>12 DEF Quit, RunEnds, CloseAll, Write, WriteFails, recVars, connVars,
      closeVars, Registered, ClosedRecord, TakenShape
<1>13. ASSUME NEW c \in Conns, Touch(c)
      PROVE  Cut'
  BY <1>13 DEF Touch, Write, WriteFails, recVars, connVars, closeVars,
      Registered, ClosedRecord, TakenShape
<1>14. ASSUME NEW c \in Conns, Leave(c)
      PROVE  Cut'
  BY <1>14 DEF Leave, recVars, connVars, closeVars, Registered, ClosedRecord,
      TakenShape
<1>15. ASSUME NEW k \in Closers, CloseBegin(k)
      PROVE  Cut'
  BY <1>15 DEF CloseBegin, recVars, connVars, Registered, ClosedRecord,
      TakenShape
<1>16. ASSUME NEW k \in Closers, ClosePlatform(k)
      PROVE  Cut'
  BY <1>16 DEF ClosePlatform, recVars, connVars, Registered, ClosedRecord,
      TakenShape
<1>17. ASSUME NEW k \in Closers, CloseRefresh(k)
      PROVE  Cut'
  BY <1>17 DEF CloseRefresh, Write, WriteFails, recVars, connVars, Registered,
      ClosedRecord, TakenShape
<1>18. ASSUME NEW k \in Closers, CloseRecord(k)
      PROVE  Cut'
  BY <1>18 DEF CloseRecord, Write, WriteFails, recVars, connVars, Registered,
      ClosedRecord, TakenShape
<1>19. ASSUME NEW k \in Closers, Disconnect(k)
      PROVE  Cut'
  BY <1>19 DEF Disconnect, recVars, connVars, Registered, ClosedRecord,
      TakenShape
<1>20. ASSUME NEW k \in Closers, CloseSockets(k)
      PROVE  Cut'
  BY <1>20 DEF CloseSockets, recVars, connVars, Registered, ClosedRecord,
      TakenShape
<1>21. CASE Restart
  BY <1>21 DEF Restart, Registered, ClosedRecord, TakenShape
<1>22. CASE UNCHANGED vars
  BY <1>22 DEF vars, recVars, connVars, closeVars
<1> QED
  BY <1>1, <1>2, <1>3, <1>4, <1>5, <1>6, <1>7, <1>8, <1>9, <1>10, <1>11,
     <1>12, <1>13, <1>14, <1>15, <1>16, <1>17, <1>18, <1>19, <1>20, <1>21,
     <1>22 DEF Next, ConnStep, CloserStep

-----------------------------------------------------------------------------
(* The state the server starts in satisfies the invariant.                 *)
LEMMA InitIInv == Init => IInv
BY DEF Init, IInv, TypeOK, Statuses, MirrorMatches, ActiveIsServed, Served,
       NoLeakedEntry, MadeFirst, TakenShape, Registered, ClosedRecord, Cut

(* Every handler step, of any number of tabs and close requests, preserves *)
(* it.                                                                     *)
LEMMA StepIInv == IInv /\ [Next]_vars => IInv'
<1> SUFFICES ASSUME IInv, [Next]_vars PROVE IInv'
  OBVIOUS
<1> USE DEF IInv
<1>1. TypeOK'
  BY TypeStep
<1>2. MirrorMatches' /\ MadeFirst'
  BY <1>1, MirrorStep
<1>3. ActiveIsServed'
  BY <1>1, ActiveStep
<1>4. NoLeakedEntry' /\ TakenShape'
  BY <1>1, EntryStep
<1>5. Registered'
  BY <1>1, RegisteredStep
<1>6. ClosedRecord'
  BY <1>1, ClosedRecordStep
<1>7. Cut'
  BY <1>1, CutStep
<1> QED
  BY <1>1, <1>2, <1>3, <1>4, <1>5, <1>6, <1>7

(* IInv holds in every reachable state.                                    *)
THEOREM SessionInvariant == Spec => []IInv
BY InitIInv, StepIInv, PTL DEF Spec

(* Every variable keeps its type. *)
THEOREM SessionTypes == Spec => []TypeOK
<1>1. IInv => TypeOK
  BY DEF IInv
<1> QED
  BY <1>1, SessionInvariant, PTL

(* The record of a session and its entry among the online or offline       *)
(* sessions agree after every write, whatever fails.                       *)
THEOREM RecordAndMirrorAgree == Spec => []MirrorMatches
<1>1. IInv => MirrorMatches
  BY DEF IInv
<1> QED
  BY <1>1, SessionInvariant, PTL

(* When a disconnect has been answered, no tab goes on being served on an  *)
(* open socket, however the handshake and the disconnect interleave.       *)
THEOREM DisconnectIsComplete == Spec => []NoSurvivor
<1>1. IInv => NoSurvivor
  BY DEF IInv, Cut, NoSurvivor
<1> QED
  BY <1>1, SessionInvariant, PTL

(* A session listed as active is served by a running handler.              *)
THEOREM ActiveSessionsAreServed == Spec => []ActiveIsServed
<1>1. IInv => ActiveIsServed
  BY DEF IInv
<1> QED
  BY <1>1, SessionInvariant, PTL

(* Every entry of the registry belongs to a handler that will remove it.   *)
THEOREM NoEntryLeaks == Spec => []NoLeakedEntry
<1>1. IInv => NoLeakedEntry
  BY DEF IInv
<1> QED
  BY <1>1, SessionInvariant, PTL

-----------------------------------------------------------------------------
(***************************************************************************)
(* Safety of the task scheduler for any sets of tasks and runs, of every   *)
(* kind, edited or not, whichever writes fail and wherever the process     *)
(* dies.                                                                   *)
(*                                                                         *)
(* RunningRowOwned and EffectLogged are not inductive: they rest on what   *)
(* the row of a run can say at each of its steps (RowFollowsRun) and on    *)
(* what the snapshot of a log-cleanup can hold (SnapshotIsOlder), for that *)
(* snapshot is written over the rows of other runs when the log-cleanup's  *)
(* own row cannot be written.                                              *)
(***************************************************************************)

(* How far a run has come is what its log row can say: nothing before it   *)
(* begins, no outcome before it finishes, and something from the moment a  *)
(* kind that logs first works.                                             *)
RowFollowsRun ==
  \A r \in Runs :
    /\ runPc[r] \in {"free", "begin"} => row[r] = "none"
    /\ runPc[r] \in {"work", "finish"} => row[r] \in {"none", "running"}
    /\ runPc[r] \in {"work", "finish", "state"} /\ Kind[runTask[r]] # "backup"
         => row[r] # "none"

(* A run that was not started has lost no row, one that has not worked has *)
(* no effect, and one that has worked has an outcome.                      *)
ResultFollowsRun ==
  \A r \in Runs :
    /\ runPc[r] = "free" => ~lost[r]
    /\ runPc[r] \in {"free", "begin", "work"} => effect[r] = "none"
    /\ runPc[r] = "finish" => outcome[r] # "none"

(* Only a log-cleanup that has yet to log its outcome holds a snapshot; a  *)
(* row in it exists, and is "running" if its run has not finished: to      *)
(* restore it takes no row away and invents no outcome.                    *)
SnapshotIsOlder ==
  \A c, q \in Runs : snap[c][q] # "none" =>
    /\ runPc[c] = "finish" /\ Kind[runTask[c]] = "cleanup"
    /\ row[q] # "none"
    /\ runPc[q] \in {"free", "begin", "work", "finish"} => snap[c][q] = "running"

(* A run that has logged says "running" only after a failed write.         *)
NoLongerRunning ==
  \A r \in Runs : runPc[r] \in {"state", "over"} =>
    row[r] # "running" \/ lost[r] \/ LogRestored

(* EffectLogged, from the moment the outcome is logged.                    *)
LoggedBeforeState ==
  \A r \in Runs : effect[r] = "done" /\ runPc[r] = "state" =>
    row[r] \in {"success", "failed"} \/ (LogRestored /\ row[r] # "none")

(* The inductive invariant of the log. *)
LogInv == /\ RowFollowsRun /\ ResultFollowsRun /\ SnapshotIsOlder
          /\ NoLongerRunning /\ LoggedBeforeState
          /\ RunningRowOwned /\ EffectLogged

(* Stop returns when the scheduler is done, and both die with the process. *)
StopOrder == /\ stop = "returned" => sched = "done"
             /\ proc = "down" => stop = "no" /\ sched = "done"

(* No run survives the process.                                            *)
DownIsQuiet == proc = "down" => \A r \in Runs : runPc[r] \notin InFlight

-----------------------------------------------------------------------------
(* Stop and the scheduler end in order, whatever the runs do.              *)
LEMMA StopStep ==
  ASSUME StopOrder, [SchedulerNext]_schedulerVars
  PROVE  StopOrder'
<1> USE DEF StopOrder, scanVars
<1>1. ASSUME UNCHANGED <<proc, sched, stop>> PROVE StopOrder'
  BY <1>1
<1>2. ASSUME NEW t \in Tasks,
             \/ TimePasses(t) \/ AdminToggle(t) \/ AdminDelete(t)
             \/ \E r \in Runs : ManualRun(t, r) \/ ScanTask(t, r)
      PROVE  StopOrder'
  BY <1>1, <1>2 DEF TimePasses, AdminToggle, AdminDelete, ManualRun, ScanTask
<1>3. CASE ScanBegin \/ ScanEnd \/ StopAsk \/ SchedulerDone \/ StopReturn
  BY <1>3 DEF ScanBegin, ScanEnd, StopAsk, SchedulerDone, StopReturn
<1>4. ASSUME NEW r \in Runs, RunStep(r) PROVE StopOrder'
  BY <1>1, <1>4 DEF RunStep, RunBegin, RunWork, RunFinish, RunState, RunEnd
<1>5. CASE Crash \/ SchedulerRestart
  BY <1>5 DEF Crash, SchedulerRestart
<1>6. CASE UNCHANGED schedulerVars
  BY <1>1, <1>6 DEF schedulerVars
<1> QED
  BY <1>2, <1>3, <1>4, <1>5, <1>6 DEF SchedulerNext

LEMMA StopInvariant == SchedulerSpec => []StopOrder
<1>1. SchedulerInit => StopOrder
  BY DEF SchedulerInit, StopOrder
<1>2. StopOrder /\ [SchedulerNext]_schedulerVars => StopOrder'
  BY StopStep
<1> QED
  BY <1>1, <1>2, PTL DEF SchedulerSpec

(* What Start, and a step of a run on its way, do to the types.            *)
LEMMA StartTypes ==
  ASSUME SchedulerTypeOK, NEW t \in Tasks, NEW by \in {"scheduled", "manual"},
         NEW r \in Runs, Start(t, by, r)
  PROVE  /\ runPc' \in [Runs -> InFlight \cup {"free", "done", "gone"}]
         /\ runTask' \in [Runs -> Tasks]
         /\ trigger' \in [Runs -> {"scheduled", "manual"}]
  BY SchedulerAssumption DEF SchedulerTypeOK, Start, InFlight

(* runScheduledTask: there is an outcome; only a log-cleanup has taken a    *)
(* snapshot, of the rows as they are.                                      *)
LEMMA WorkDoes ==
  ASSUME NEW r \in Runs, RunWork(r)
  PROVE  /\ \E o \in {"success", "failed"} : outcome' = [outcome EXCEPT ![r] = o]
         /\ effect' = effect \/ effect' = [effect EXCEPT ![r] = "done"]
         /\ \/ snap' = snap
            \/ /\ Kind[runTask[r]] = "cleanup"
               /\ snap' = [snap EXCEPT ![r] = row]
<1>1. CASE Kind[runTask[r]] = "backup" /\ BackupWork(r)
  BY <1>1 DEF BackupWork
<1>2. CASE Kind[runTask[r]] = "prelogged" /\ PreLoggedWork(r)
  BY <1>2 DEF PreLoggedWork
<1>3. CASE Kind[runTask[r]] = "cleanup" /\ CleanupWork(r)
  BY <1>3 DEF CleanupWork
<1> QED
  BY <1>1, <1>2, <1>3 DEF RunWork

(* A log row that cannot be written: each row is as it was or as it is in  *)
(* the snapshot, if it is there, and the run's effect is not in place.     *)
LEMMA LogFailsDoes ==
  ASSUME SchedulerTypeOK, NEW r \in Runs, LogFails(r)
  PROVE  /\ lost' = [lost EXCEPT ![r] = TRUE]
         /\ runPc' = [runPc EXCEPT ![r] = "over"]
         /\ row' \in [Runs -> {"none", "running", "success", "failed"}]
         /\ \A q \in Runs :
              row'[q] = row[q] \/ (snap[r][q] # "none" /\ row'[q] = snap[r][q])
         /\ effect' \in [Runs -> {"none", "done", "undone", "kept"}]
         /\ effect'[r] # "done"
         /\ \A q \in Runs \ {r} : effect'[q] = effect[q]
<1>1. PICK saved \in SUBSET {q \in Runs : snap[r][q] # "none"}, e \in {"undone", "kept"} :
        /\ effect' = [effect EXCEPT ![r] = IF @ = "done" THEN e ELSE @]
        /\ row' = [q \in Runs |-> IF q \in saved THEN snap[r][q] ELSE row[q]]
  BY DEF LogFails
<1>2. effect \in [Runs -> {"none", "done", "undone", "kept"}]
  BY DEF SchedulerTypeOK
<1>3. /\ row \in [Runs -> {"none", "running", "success", "failed"}]
      /\ snap[r] \in [Runs -> {"none", "running", "success", "failed"}]
  BY DEF SchedulerTypeOK
<1>4. /\ effect' \in [Runs -> {"none", "done", "undone", "kept"}]
      /\ effect'[r] # "done"
      /\ \A q \in Runs \ {r} : effect'[q] = effect[q]
  BY <1>1, <1>2
<1>5. row' \in [Runs -> {"none", "running", "success", "failed"}]
  BY <1>1, <1>3
<1>6. \A q \in Runs :
              row'[q] = row[q] \/ (snap[r][q] # "none" /\ row'[q] = snap[r][q])
  BY <1>1
<1>7. /\ lost' = [lost EXCEPT ![r] = TRUE]
      /\ runPc' = [runPc EXCEPT ![r] = "over"]
  BY DEF LogFails
<1> QED
  BY <1>4, <1>5, <1>6, <1>7

(* Every step keeps the types.                                             *)
LEMMA SchedulerTypeStep ==
  ASSUME SchedulerTypeOK, StopOrder, [SchedulerNext]_schedulerVars
  PROVE  SchedulerTypeOK'
<1> USE SchedulerAssumption DEF SchedulerTypeOK, itemVars, scanVars, runVars
<1>1. ASSUME NEW t \in Tasks, TimePasses(t) \/ AdminToggle(t) \/ AdminDelete(t)
      PROVE  SchedulerTypeOK'
  <2>1. item[t] \in Items
    BY <1>1
  <2>2. \E x \in Items : item' = [item EXCEPT ![t] = x]
    <3>1. CASE TimePasses(t)
      BY <2>1, <3>1 DEF TimePasses, Items
    <3>2. CASE AdminToggle(t)
      BY <2>1, <3>2 DEF AdminToggle, Items
    <3>3. CASE AdminDelete(t)
      BY <3>3 DEF AdminDelete, Items, NewItem
    <3> QED
      BY <1>1, <3>1, <3>2, <3>3
  <2>3. item' \in [Tasks -> Items]
    BY <2>2
  <2> QED
    BY <1>1, <2>3 DEF TimePasses, AdminToggle, AdminDelete
<1>2. ASSUME NEW t \in Tasks, NEW r \in Runs, ManualRun(t, r)
      PROVE  SchedulerTypeOK'
  <2>1. Start(t, "manual", r)
    BY <1>2 DEF ManualRun
  <2> QED
    <3>1. UNCHANGED <<itemVars, proc, scanVars, running, reconciled, outcome,
                      effect, row, snap, lost>>
      BY <1>2, <2>1 DEF ManualRun, Start
    <3> QED
      BY <2>1, <3>1, StartTypes
<1>3. ASSUME NEW t \in Tasks, NEW r \in Runs, ScanTask(t, r)
      PROVE  SchedulerTypeOK'
  <2>1. seen' \in [DOMAIN seen' -> Items] /\ DOMAIN seen' \subseteq Tasks
    BY <1>3 DEF ScanTask
  <2>2. item' \in [Tasks -> Items]
    <3>1. seen[t] \in Items /\ item[t] \in Items
      BY <1>3 DEF ScanTask
    <3>2. \/ UNCHANGED item
          \/ item' = [item EXCEPT ![t] = [@ EXCEPT !.next = "later", !.ran = seen[t].ran]]
      BY <1>3, <3>1 DEF ScanTask, Items
    <3>3. [item[t] EXCEPT !.next = "later", !.ran = seen[t].ran] \in Items
      BY <3>1 DEF Items
    <3> QED
      BY <3>2, <3>3
  <2>3. sched' = "scanning" /\ UNCHANGED <<present, proc, sched, stop, reconciled>>
    BY <1>3 DEF ScanTask
  <2>4. CASE UNCHANGED <<running, runVars>>
    BY <2>1, <2>2, <2>3, <2>4
  <2>5. CASE RunTask(t, r)
    <3>1. CASE t \in running
      BY <2>4, <2>5, <3>1 DEF RunTask
    <3>2. CASE t \notin running
      <4>1. running' = running \cup {t} /\ Start(t, "scheduled", r)
        BY <2>5, <3>2 DEF RunTask
      <4>2. UNCHANGED <<outcome, effect, row, snap, lost>>
        BY <4>1 DEF Start
      <4> QED
        BY <2>1, <2>2, <2>3, <4>1, <4>2, StartTypes
    <3> QED
      BY <3>1, <3>2
  <2> QED
    BY <1>3, <2>4, <2>5 DEF ScanTask
<1>4. CASE ScanBegin
  BY <1>4 DEF ScanBegin
<1>5. CASE ScanEnd \/ StopAsk \/ SchedulerDone \/ StopReturn
  BY <1>5 DEF ScanEnd, StopAsk, SchedulerDone, StopReturn
<1>6. ASSUME NEW r \in Runs, RunBegin(r)
      PROVE  SchedulerTypeOK'
  BY <1>6 DEF RunBegin, InFlight
<1>7. ASSUME NEW r \in Runs, RunWork(r)
      PROVE  SchedulerTypeOK'
  <2>1. /\ outcome' \in [Runs -> {"none", "success", "failed"}]
        /\ effect' \in [Runs -> {"none", "done", "undone", "kept"}]
        /\ snap' \in [Runs -> [Runs -> {"none", "running", "success", "failed"}]]
    <3>1. \E o \in {"success", "failed"} : outcome' = [outcome EXCEPT ![r] = o]
      BY <1>7, WorkDoes
    <3>2. effect' = effect \/ effect' = [effect EXCEPT ![r] = "done"]
      BY <1>7, WorkDoes
    <3>3. snap' = snap \/ snap' = [snap EXCEPT ![r] = row]
      BY <1>7, WorkDoes
    <3>4. outcome' \in [Runs -> {"none", "success", "failed"}]
      BY <3>1
    <3>5. effect' \in [Runs -> {"none", "done", "undone", "kept"}]
      BY <3>2
    <3>6. snap' \in [Runs -> [Runs -> {"none", "running", "success", "failed"}]]
      BY <3>3
    <3> QED
      BY <3>4, <3>5, <3>6
  <2> QED
    BY <1>7, <2>1 DEF RunWork, InFlight
<1>8. ASSUME NEW r \in Runs, RunFinish(r)
      PROVE  SchedulerTypeOK'
  <2>1. /\ row' \in [Runs -> {"none", "running", "success", "failed"}]
        /\ effect' \in [Runs -> {"none", "done", "undone", "kept"}]
        /\ lost' \in [Runs -> BOOLEAN]
    <3>1. CASE LogOutcome(r)
      BY <3>1 DEF LogOutcome
    <3>2. CASE LogFails(r)
      <4>1. lost' = [lost EXCEPT ![r] = TRUE]
        BY <3>2, LogFailsDoes
      <4> QED
        BY <3>2, <4>1, LogFailsDoes
    <3> QED
      BY <1>8, <3>1, <3>2 DEF RunFinish
  <2>2. runPc' \in [Runs -> InFlight \cup {"free", "done", "gone"}]
    BY <1>8 DEF RunFinish, LogOutcome, LogFails, InFlight
  <2> QED
    BY <1>8, <2>1, <2>2 DEF RunFinish, NoRows
<1>9. ASSUME NEW r \in Runs, RunState(r)
      PROVE  SchedulerTypeOK'
  <2>1. item' \in [Tasks -> Items]
    <3>1. item[runTask[r]] \in Items
      OBVIOUS
    <3>2. \/ UNCHANGED item
          \/ item' = [item EXCEPT ![runTask[r]] =
                        [@ EXCEPT !.next = NextRun(runTask[r]), !.ran = TRUE]]
      BY <1>9, <3>1 DEF RunState, Items
    <3>3. [item[runTask[r]] EXCEPT !.next = NextRun(runTask[r]), !.ran = TRUE] \in Items
      BY <3>1 DEF Items, NextRun
    <3> QED
      BY <3>2, <3>3
  <2> QED
    BY <1>9, <2>1 DEF RunState, InFlight
<1>10. ASSUME NEW r \in Runs, RunEnd(r)
       PROVE  SchedulerTypeOK'
  BY <1>10 DEF RunEnd
<1>11. CASE Crash
  <2>1. DOMAIN seen' = {} /\ seen' \in [DOMAIN seen' -> Items]
    BY <1>11 DEF Crash
  <2> QED
    BY <1>11, <2>1 DEF Crash, NoRows
<1>12. CASE SchedulerRestart
  BY <1>12 DEF SchedulerRestart, StopOrder
<1>13. CASE UNCHANGED schedulerVars
  BY <1>13 DEF schedulerVars
<1> QED
  BY <1>1, <1>2, <1>3, <1>4, <1>5, <1>6, <1>7, <1>8, <1>9, <1>10, <1>11, <1>12,
     <1>13 DEF SchedulerNext, RunStep

(* Type correctness, for any tasks and runs.                               *)
THEOREM SchedulerTypes == SchedulerSpec => []SchedulerTypeOK
<1>1. SchedulerInit => SchedulerTypeOK
  <2> SUFFICES ASSUME SchedulerInit PROVE SchedulerTypeOK
    OBVIOUS
  <2>1. DOMAIN seen = {} /\ seen \in [DOMAIN seen -> Items]
    BY DEF SchedulerInit
  <2>2. runTask \in [Runs -> Tasks]
    BY SchedulerAssumption DEF SchedulerInit
  <2> QED
    BY <2>1, <2>2 DEF SchedulerInit, SchedulerTypeOK, Items, NewItem, NoRows
<1>2. SchedulerTypeOK /\ StopOrder /\ [SchedulerNext]_schedulerVars => SchedulerTypeOK'
  BY SchedulerTypeStep
<1> QED
  BY <1>1, <1>2, StopInvariant, PTL DEF SchedulerSpec

-----------------------------------------------------------------------------
(***************************************************************************)
(* What a step does to the runs: nothing, for those of the administrator,  *)
(* the scan and Stop; it starts one, by hand or for a task that is not in  *)
(* the running map; or it is a step of one run, a crash or a restart.      *)
(***************************************************************************)
StartByHand ==
  /\ proc = "up" /\ UNCHANGED <<proc, running, reconciled>>
  /\ \E t \in Tasks, r \in Runs : Start(t, "manual", r)

StartByScan ==
  /\ proc = "up" /\ sched = "scanning" /\ UNCHANGED <<proc, reconciled>>
  /\ \E t \in Tasks \ running, r \in Runs :
       running' = running \cup {t} /\ Start(t, "scheduled", r)

LEMMA StepOfRuns ==
  ASSUME [SchedulerNext]_schedulerVars
  PROVE  \/ UNCHANGED <<proc, running, runVars, reconciled>>
         \/ StartByHand \/ StartByScan
         \/ \E r \in Runs : RunStep(r)
         \/ Crash \/ SchedulerRestart
<1>1. ASSUME NEW t \in Tasks, TimePasses(t) \/ AdminToggle(t) \/ AdminDelete(t)
      PROVE  UNCHANGED <<proc, running, runVars, reconciled>>
  BY <1>1 DEF TimePasses, AdminToggle, AdminDelete
<1>2. ASSUME NEW t \in Tasks, NEW r \in Runs, ManualRun(t, r)
      PROVE  StartByHand
  BY <1>2 DEF ManualRun, StartByHand
<1>3. ASSUME NEW t \in Tasks, NEW r \in Runs, ScanTask(t, r)
      PROVE  UNCHANGED <<proc, running, runVars, reconciled>> \/ StartByScan
  <2>1. proc = "up" /\ sched = "scanning" /\ UNCHANGED <<proc, reconciled>>
    BY <1>3 DEF ScanTask
  <2>2. UNCHANGED <<running, runVars>> \/ RunTask(t, r)
    BY <1>3 DEF ScanTask
  <2> QED
    BY <2>1, <2>2 DEF RunTask, StartByScan
<1>4. CASE ScanBegin \/ ScanEnd \/ StopAsk \/ SchedulerDone \/ StopReturn
  BY <1>4 DEF ScanBegin, ScanEnd, StopAsk, SchedulerDone, StopReturn
<1>5. CASE UNCHANGED schedulerVars
  BY <1>5 DEF schedulerVars
<1> QED
  BY <1>1, <1>2, <1>3, <1>4, <1>5 DEF SchedulerNext

(* A run on its way stays in flight, and the other runs where they are.    *)
LEMMA RunMovesOn ==
  ASSUME SchedulerTypeOK, NEW r \in Runs,
         RunBegin(r) \/ RunWork(r) \/ RunFinish(r) \/ RunState(r)
  PROVE  /\ \E p \in InFlight : runPc' = [runPc EXCEPT ![r] = p]
         /\ runPc[r] \in InFlight
         /\ UNCHANGED <<running, runTask, trigger>>
<1> USE DEF InFlight
<1>1. CASE RunBegin(r)
  BY <1>1 DEF RunBegin
<1>2. CASE RunWork(r)
  BY <1>2 DEF RunWork
<1>3. CASE RunFinish(r)
  BY <1>3 DEF RunFinish, LogOutcome, LogFails
<1>4. CASE RunState(r)
  BY <1>4 DEF RunState
<1> QED
  BY <1>1, <1>2, <1>3, <1>4

(* The running map is kept, by starting, running, ending and dying.        *)
LEMMA ExclusiveStep ==
  ASSUME SchedulerTypeOK, ScheduledExclusive, [SchedulerNext]_schedulerVars
  PROVE  ScheduledExclusive'
<1> USE DEF ScheduledExclusive, Scheduled
<1>1. CASE UNCHANGED <<proc, running, runVars, reconciled>>
  BY <1>1 DEF runVars
<1>2. CASE StartByHand
  <2>1. PICK t \in Tasks, r \in Runs : Start(t, "manual", r)
    BY <1>2 DEF StartByHand
  <2>2. \A q \in Runs : Scheduled(q)' <=> Scheduled(q)
    BY <2>1 DEF Start, SchedulerTypeOK, InFlight
  <2>3. \A q \in Runs : Scheduled(q) => runTask'[q] = runTask[q]
    BY <2>1 DEF Start, SchedulerTypeOK, InFlight
  <2> QED
    BY <1>2, <2>2, <2>3 DEF StartByHand
<1>3. CASE StartByScan
  <2>1. PICK t \in Tasks \ running, r \in Runs :
          running' = running \cup {t} /\ Start(t, "scheduled", r)
    BY <1>3 DEF StartByScan
  <2>2. \A q \in Runs : Scheduled(q)' <=> q = r \/ Scheduled(q)
    BY <2>1 DEF Start, SchedulerTypeOK, InFlight
  <2>3. runTask'[r] = t /\ \A q \in Runs : Scheduled(q) => runTask'[q] = runTask[q]
    BY <2>1 DEF Start, SchedulerTypeOK, InFlight
  <2>4. \A q \in Runs : Scheduled(q) => runTask[q] # t
    BY <2>1
  <2>5. running' = {runTask'[q] : q \in {s \in Runs : Scheduled(s)'}}
    BY <2>1, <2>2, <2>3
  <2> QED
    BY <2>2, <2>3, <2>4, <2>5
<1>4. ASSUME NEW r \in Runs, RunBegin(r) \/ RunWork(r) \/ RunFinish(r) \/ RunState(r)
      PROVE  ScheduledExclusive'
  <2>1. UNCHANGED <<running, runTask, trigger>>
    BY <1>4, RunMovesOn
  <2>2. \A q \in Runs : Scheduled(q)' <=> Scheduled(q)
    BY <1>4, <2>1, RunMovesOn DEF SchedulerTypeOK
  <2> QED
    BY <2>1, <2>2
<1>5. ASSUME NEW r \in Runs, RunEnd(r) PROVE ScheduledExclusive'
  <2>1. UNCHANGED <<runTask, trigger>> /\ runPc[r] \in InFlight
    BY <1>5 DEF RunEnd, InFlight
  <2>2. \A q \in Runs : Scheduled(q)' <=> q # r /\ Scheduled(q)
    BY <1>5 DEF RunEnd, SchedulerTypeOK, InFlight
  <2>3. running' = {runTask[q] : q \in {s \in Runs : s # r /\ Scheduled(s)}}
    <3>1. CASE trigger[r] = "scheduled"
      <4>1. Scheduled(r) /\ running' = running \ {runTask[r]}
        BY <1>5, <2>1, <3>1 DEF RunEnd
      <4>2. \A q \in Runs : Scheduled(q) /\ runTask[q] = runTask[r] => q = r
        BY <4>1
      <4> QED
        BY <4>1, <4>2
    <3>2. CASE trigger[r] # "scheduled"
      BY <1>5, <3>2 DEF RunEnd
    <3> QED
      BY <3>1, <3>2
  <2> QED
    BY <2>1, <2>2, <2>3
<1>6. CASE Crash
  <2>1. \A q \in Runs : ~Scheduled(q)'
    BY <1>6 DEF Crash, InFlight
  <2> QED
    BY <1>6, <2>1 DEF Crash
<1>7. CASE SchedulerRestart
  BY <1>7 DEF SchedulerRestart
<1> QED
  BY <1>1, <1>2, <1>3, <1>4, <1>5, <1>6, <1>7, StepOfRuns DEF RunStep

(* The scheduler never runs a task beside itself and its running map holds *)
(* exactly the tasks it runs: ScheduledExclusive, for any number of both.  *)
THEOREM RunsExclude == SchedulerSpec => []ScheduledExclusive
<1>1. SchedulerInit => ScheduledExclusive
  BY DEF SchedulerInit, ScheduledExclusive, Scheduled, InFlight
<1>2. SchedulerTypeOK /\ ScheduledExclusive /\ [SchedulerNext]_schedulerVars => ScheduledExclusive'
  BY ExclusiveStep
<1> QED
  BY <1>1, <1>2, SchedulerTypes, PTL DEF SchedulerSpec

(* Once Stop has returned the scheduler starts nothing more: StopIsFinal,  *)
(* because Stop waits for a scheduler that scans no more.                  *)
THEOREM StopEndsStarts == SchedulerSpec => StopIsFinal
<1> DEFINE Manual == \A r \in Runs : runPc[r] = "free" /\ runPc'[r] # "free"
                                       => trigger'[r] = "manual"
<1>1. ASSUME SchedulerTypeOK, StopOrder, SchedulerNext, stop = "returned"
      PROVE  Manual
  <2> USE <1>1
  <2>1. CASE UNCHANGED <<proc, running, runVars, reconciled>>
    BY <2>1 DEF runVars
  <2>2. CASE StartByHand
    BY <2>2 DEF StartByHand, Start, SchedulerTypeOK
  <2>3. CASE StartByScan
    BY <2>3 DEF StartByScan, StopOrder
  <2>4. ASSUME NEW r \in Runs, RunStep(r) PROVE Manual
    <3>1. runPc[r] # "free" /\ \E p : runPc' = [runPc EXCEPT ![r] = p]
      <4>1. CASE RunEnd(r)
        BY <4>1 DEF RunEnd
      <4>2. CASE ~RunEnd(r)
        BY <2>4, <4>2, RunMovesOn DEF RunStep, InFlight
      <4> QED
        BY <4>1, <4>2
    <3> QED
      BY <3>1 DEF SchedulerTypeOK
  <2>5. CASE Crash \/ SchedulerRestart
    BY <2>5 DEF Crash, SchedulerRestart, InFlight
  <2> QED
    BY <2>1, <2>2, <2>3, <2>4, <2>5, StepOfRuns
<1>2. SchedulerTypeOK /\ StopOrder /\ [SchedulerNext]_schedulerVars => [stop = "returned" => Manual]_schedulerVars
  BY <1>1
<1> QED
  BY <1>2, SchedulerTypes, StopInvariant, PTL DEF SchedulerSpec, StopIsFinal

(* A crash takes every run with it.                                        *)
LEMMA QuietInvariant == SchedulerSpec => []DownIsQuiet
<1>1. SchedulerInit => DownIsQuiet
  BY DEF SchedulerInit, DownIsQuiet
<1>2. ASSUME DownIsQuiet, [SchedulerNext]_schedulerVars PROVE DownIsQuiet'
  <2> USE <1>2 DEF DownIsQuiet
  <2>1. CASE UNCHANGED <<proc, running, runVars, reconciled>>
    BY <2>1 DEF runVars
  <2>2. CASE StartByHand \/ StartByScan \/ SchedulerRestart
    BY <2>2 DEF StartByHand, StartByScan, SchedulerRestart
  <2>3. ASSUME NEW r \in Runs, RunStep(r) PROVE DownIsQuiet'
    BY <2>3 DEF RunStep, RunBegin, RunWork, RunFinish, RunState, RunEnd
  <2>4. CASE Crash
    BY <2>4 DEF Crash, InFlight
  <2> QED
    BY <2>1, <2>2, <2>3, <2>4, StepOfRuns
<1> QED
  BY <1>1, <1>2, PTL DEF SchedulerSpec

-----------------------------------------------------------------------------
(* The audit of a lost row stays, and with it what it excuses.             *)
LEMMA RestoredStays ==
  ASSUME SchedulerTypeOK, ResultFollowsRun, [SchedulerNext]_schedulerVars, LogRestored
  PROVE  LogRestored'
<1>1. PICK c \in Runs : lost[c] /\ Kind[runTask[c]] = "cleanup"
  BY DEF LogRestored
<1>2. runPc[c] # "free"
  BY <1>1 DEF ResultFollowsRun
<1> SUFFICES lost'[c] /\ runTask'[c] = runTask[c]
  BY <1>1 DEF LogRestored
<1>3. CASE UNCHANGED <<proc, running, runVars, reconciled>>
  BY <1>1, <1>3 DEF runVars
<1>4. CASE StartByHand \/ StartByScan
  BY <1>1, <1>2, <1>4 DEF StartByHand, StartByScan, Start, SchedulerTypeOK
<1>5. ASSUME NEW r \in Runs, RunStep(r)
      PROVE  lost'[c] /\ runTask'[c] = runTask[c]
  <2>1. UNCHANGED runTask /\ (UNCHANGED lost \/ lost' = [lost EXCEPT ![r] = TRUE])
    BY <1>5 DEF RunStep, RunBegin, RunWork, RunFinish, RunState, RunEnd, LogOutcome,
                LogFails
  <2> QED
    BY <1>1, <2>1 DEF SchedulerTypeOK
<1>6. CASE Crash \/ SchedulerRestart
  BY <1>1, <1>6 DEF Crash, SchedulerRestart
<1> QED
  BY <1>3, <1>4, <1>5, <1>6, StepOfRuns

(* A run that is started has no row, no result and no snapshot yet.        *)
LEMMA LogStart ==
  ASSUME SchedulerTypeOK, LogInv, NEW t \in Tasks, NEW by \in {"scheduled", "manual"},
         NEW r \in Runs, Start(t, by, r), UNCHANGED <<proc, reconciled>>,
         LogRestored => LogRestored'
  PROVE  LogInv'
<1>1. /\ runPc[r] = "free" /\ runPc'[r] \in {"begin", "work"}
      /\ runPc'[r] = "work" <=> Kind[t] = "backup"
      /\ runTask'[r] = t
      /\ \A q \in Runs \ {r} : runPc'[q] = runPc[q] /\ runTask'[q] = runTask[q]
      /\ UNCHANGED <<outcome, effect, row, snap, lost>>
  BY DEF Start, SchedulerTypeOK
<1>2. row[r] = "none" /\ effect[r] = "none" /\ \A q \in Runs : snap[r][q] = "none"
  BY <1>1 DEF LogInv, RowFollowsRun, ResultFollowsRun, SnapshotIsOlder
<1>3. RowFollowsRun'
  BY <1>1, <1>2 DEF LogInv, RowFollowsRun
<1>4. ResultFollowsRun'
  BY <1>1, <1>2 DEF LogInv, ResultFollowsRun
<1>5. SnapshotIsOlder'
  BY <1>1, <1>2 DEF LogInv, SnapshotIsOlder
<1>6. NoLongerRunning' /\ LoggedBeforeState'
  BY <1>1, <1>2 DEF LogInv, NoLongerRunning, LoggedBeforeState
<1>7. RunningRowOwned'
  BY <1>1, <1>2 DEF LogInv, RunningRowOwned, InFlight
<1>8. EffectLogged'
  BY <1>1, <1>2 DEF LogInv, EffectLogged
<1> QED
  BY <1>3, <1>4, <1>5, <1>6, <1>7, <1>8 DEF LogInv

(* The "running" row is written, or the run is over without one.           *)
LEMMA LogBegin ==
  ASSUME SchedulerTypeOK, LogInv, NEW r \in Runs, RunBegin(r), LogRestored => LogRestored'
  PROVE  LogInv'
<1>1. /\ runPc[r] = "begin" /\ row[r] = "none" /\ effect[r] = "none"
      /\ \A q \in Runs : snap[q][r] = "none" /\ snap[r][q] = "none"
  BY DEF RunBegin, LogInv, RowFollowsRun, ResultFollowsRun, SnapshotIsOlder
<1>2. /\ UNCHANGED <<proc, runTask, outcome, effect, snap, reconciled>>
      /\ \/ row'[r] = "running" /\ runPc'[r] = "work"
         \/ row'[r] = "none" /\ runPc'[r] = "over"
      /\ \A q \in Runs \ {r} : row'[q] = row[q] /\ runPc'[q] = runPc[q]
                                 /\ lost'[q] = lost[q]
  BY <1>1 DEF RunBegin, SchedulerTypeOK
<1>3. RowFollowsRun'
  BY <1>1, <1>2 DEF LogInv, RowFollowsRun
<1>4. ResultFollowsRun'
  BY <1>1, <1>2 DEF LogInv, ResultFollowsRun
<1>5. SnapshotIsOlder'
  BY <1>1, <1>2 DEF LogInv, SnapshotIsOlder
<1>6. NoLongerRunning' /\ LoggedBeforeState'
  BY <1>1, <1>2 DEF LogInv, NoLongerRunning, LoggedBeforeState
<1>7. RunningRowOwned'
  BY <1>1, <1>2 DEF LogInv, RunningRowOwned, InFlight
<1>8. EffectLogged'
  BY <1>1, <1>2 DEF LogInv, EffectLogged
<1> QED
  BY <1>3, <1>4, <1>5, <1>6, <1>7, <1>8 DEF LogInv

(* The work is done: the run has an outcome, and a log-cleanup a snapshot  *)
(* in which the rows of unfinished runs say "running".                     *)
LEMMA LogWork ==
  ASSUME SchedulerTypeOK, LogInv, NEW r \in Runs, RunWork(r), LogRestored => LogRestored'
  PROVE  LogInv'
<1>1. /\ runPc[r] = "work" /\ runPc'[r] = "finish"
      /\ UNCHANGED <<proc, runTask, row, lost, reconciled>>
      /\ \A q \in Runs \ {r} : runPc'[q] = runPc[q]
  BY DEF RunWork, SchedulerTypeOK
<1>2. outcome'[r] # "none" /\ \A q \in Runs \ {r} : outcome'[q] = outcome[q]
  <2>1. PICK o \in {"success", "failed"} : outcome' = [outcome EXCEPT ![r] = o]
    BY WorkDoes
  <2> QED
    BY <2>1 DEF SchedulerTypeOK
<1>3. \A q \in Runs \ {r} : effect'[q] = effect[q]
  BY WorkDoes DEF SchedulerTypeOK
<1>4. /\ \A c \in Runs \ {r} : snap'[c] = snap[c]
      /\ \/ snap'[r] = snap[r]
         \/ snap'[r] = row /\ Kind[runTask[r]] = "cleanup"
  BY WorkDoes DEF SchedulerTypeOK
<1>5. RowFollowsRun'
  BY <1>1 DEF LogInv, RowFollowsRun
<1>6. ResultFollowsRun'
  BY <1>1, <1>2, <1>3 DEF LogInv, ResultFollowsRun
<1>7. SnapshotIsOlder'
  <2> SUFFICES ASSUME NEW c \in Runs, NEW q \in Runs, snap'[c][q] # "none"
               PROVE  /\ runPc'[c] = "finish" /\ Kind[runTask'[c]] = "cleanup"
                      /\ row'[q] # "none"
                      /\ runPc'[q] \in {"free", "begin", "work", "finish"}
                           => snap'[c][q] = "running"
    BY DEF SnapshotIsOlder
  <2>1. CASE snap'[c] = snap[c]
    BY <1>1, <2>1 DEF LogInv, SnapshotIsOlder
  <2>2. CASE c = r /\ snap'[r] = row /\ Kind[runTask[r]] = "cleanup"
    BY <1>1, <2>2 DEF LogInv, RowFollowsRun
  <2> QED
    BY <1>4, <2>1, <2>2
<1>8. NoLongerRunning' /\ LoggedBeforeState'
  BY <1>1, <1>3 DEF LogInv, NoLongerRunning, LoggedBeforeState
<1>9. RunningRowOwned'
  BY <1>1 DEF LogInv, RunningRowOwned, InFlight
<1>10. EffectLogged'
  BY <1>1, <1>3 DEF LogInv, EffectLogged
<1> QED
  BY <1>5, <1>6, <1>7, <1>8, <1>9, <1>10 DEF LogInv

(* The outcome is logged.                                                  *)
LEMMA LogFinishes ==
  ASSUME SchedulerTypeOK, LogInv, NEW r \in Runs, RunFinish(r), LogOutcome(r),
         LogRestored => LogRestored'
  PROVE  LogInv'
<1>1. /\ runPc[r] = "finish" /\ runPc'[r] = "state"
      /\ UNCHANGED <<proc, runTask, effect, lost, reconciled>>
      /\ \A q \in Runs \ {r} : /\ runPc'[q] = runPc[q] /\ row'[q] = row[q]
                               /\ outcome'[q] = outcome[q] /\ snap'[q] = snap[q]
      /\ \A q \in Runs : snap'[r][q] = "none"
  BY DEF RunFinish, LogOutcome, SchedulerTypeOK, NoRows
<1>2. row'[r] \in {"success", "failed"}
  BY <1>1 DEF LogOutcome, SchedulerTypeOK, LogInv, ResultFollowsRun
<1>3. RowFollowsRun'
  BY <1>1, <1>2 DEF LogInv, RowFollowsRun
<1>4. ResultFollowsRun'
  BY <1>1 DEF LogInv, ResultFollowsRun
<1>5. SnapshotIsOlder'
  BY <1>1, <1>2 DEF LogInv, SnapshotIsOlder
<1>6. NoLongerRunning' /\ LoggedBeforeState'
  BY <1>1, <1>2 DEF LogInv, NoLongerRunning, LoggedBeforeState
<1>7. RunningRowOwned'
  BY <1>1, <1>2 DEF LogInv, RunningRowOwned
<1>8. EffectLogged'
  BY <1>1, <1>2 DEF LogInv, EffectLogged
<1> QED
  BY <1>3, <1>4, <1>5, <1>6, <1>7, <1>8 DEF LogInv

(* The outcome cannot be logged: the run's effect is taken back or known   *)
(* to be kept, and the rows a log-cleanup puts back are audited.           *)
LEMMA LogLost ==
  ASSUME SchedulerTypeOK, LogInv, NEW r \in Runs, RunFinish(r), LogFails(r),
         LogRestored => LogRestored'
  PROVE  LogInv'
<1>1. /\ runPc[r] = "finish" /\ runPc'[r] = "over" /\ lost'[r]
      /\ UNCHANGED <<proc, runTask, reconciled>>
      /\ \A q \in Runs \ {r} : /\ runPc'[q] = runPc[q] /\ lost'[q] = lost[q]
                               /\ outcome'[q] = outcome[q] /\ snap'[q] = snap[q]
      /\ \A q \in Runs : snap'[r][q] = "none"
  BY LogFailsDoes DEF RunFinish, SchedulerTypeOK, NoRows
<1>2. effect'[r] # "done" /\ \A q \in Runs \ {r} : effect'[q] = effect[q]
  BY LogFailsDoes
<1>3. \A q \in Runs : \/ row'[q] = row[q]
                      \/ snap[r][q] # "none" /\ row'[q] = snap[r][q] /\ LogRestored'
  BY <1>1, LogFailsDoes DEF LogInv, SnapshotIsOlder, LogRestored
<1>4. /\ \A q \in Runs : row[q] # "none" => row'[q] # "none"
      /\ \A q \in Runs : row[q] = "none" => row'[q] = "none"
      /\ \A q \in Runs : runPc[q] \in {"free", "begin", "work", "finish"}
                           => row'[q] = row[q] \/ row'[q] = "running"
  BY <1>3 DEF LogInv, SnapshotIsOlder
<1>5. RowFollowsRun'
  BY <1>1, <1>4 DEF LogInv, RowFollowsRun
<1>6. ResultFollowsRun'
  BY <1>1, <1>2 DEF LogInv, ResultFollowsRun
<1>7. SnapshotIsOlder'
  BY <1>1, <1>4 DEF LogInv, SnapshotIsOlder
<1>8. NoLongerRunning'
  BY <1>1, <1>3 DEF LogInv, NoLongerRunning
<1>9. LoggedBeforeState'
  BY <1>1, <1>2, <1>3 DEF LogInv, LoggedBeforeState
<1>10. RunningRowOwned'
  BY <1>1, <1>3 DEF LogInv, RunningRowOwned
<1>11. EffectLogged'
  BY <1>1, <1>2, <1>3, <1>4 DEF LogInv, EffectLogged
<1> QED
  BY <1>5, <1>6, <1>7, <1>8, <1>9, <1>10, <1>11 DEF LogInv

(* The last steps of a run leave the log as it is.                         *)
LEMMA LogOver ==
  ASSUME SchedulerTypeOK, LogInv, NEW r \in Runs, RunState(r) \/ RunEnd(r),
         LogRestored => LogRestored'
  PROVE  LogInv'
<1>1. /\ UNCHANGED <<proc, runTask, outcome, effect, row, snap, lost, reconciled>>
      /\ \A q \in Runs \ {r} : runPc'[q] = runPc[q]
      /\ \/ runPc[r] = "state" /\ runPc'[r] = "over"
         \/ runPc[r] = "over" /\ runPc'[r] = "done"
  BY DEF RunState, RunEnd, SchedulerTypeOK
<1>2. RowFollowsRun' /\ ResultFollowsRun' /\ SnapshotIsOlder'
  BY <1>1 DEF LogInv, RowFollowsRun, ResultFollowsRun, SnapshotIsOlder
<1>3. NoLongerRunning' /\ LoggedBeforeState'
  BY <1>1 DEF LogInv, NoLongerRunning, LoggedBeforeState
<1>4. RunningRowOwned'
  BY <1>1 DEF LogInv, RunningRowOwned, NoLongerRunning, InFlight
<1>5. EffectLogged'
  BY <1>1 DEF LogInv, EffectLogged, LoggedBeforeState
<1> QED
  BY <1>2, <1>3, <1>4, <1>5 DEF LogInv

(* A crash leaves the rows of the runs it cuts, and a restart fails those  *)
(* that say "running".                                                     *)
LEMMA LogCrash ==
  ASSUME SchedulerTypeOK, LogInv, Crash, LogRestored => LogRestored'
  PROVE  LogInv'
<1>1. /\ proc' = "down" /\ UNCHANGED <<runTask, effect, row, lost>>
      /\ \A q \in Runs : /\ runPc[q] \in InFlight => runPc'[q] = "gone"
                         /\ runPc[q] \notin InFlight => runPc'[q] = runPc[q]
                         /\ runPc'[q] \in {"free", "done", "gone"}
      /\ \A c, q \in Runs : snap'[c][q] = "none"
  <2>1. \A q \in Runs : runPc[q] \in InFlight \cup {"free", "done", "gone"}
    BY DEF SchedulerTypeOK
  <2> QED
    BY <2>1 DEF Crash, NoRows
<1>2. RowFollowsRun' /\ ResultFollowsRun' /\ SnapshotIsOlder'
  BY <1>1 DEF LogInv, RowFollowsRun, ResultFollowsRun, SnapshotIsOlder, InFlight
<1>3. NoLongerRunning' /\ LoggedBeforeState' /\ RunningRowOwned'
  BY <1>1 DEF NoLongerRunning, LoggedBeforeState, RunningRowOwned
<1>4. EffectLogged'
  <2> SUFFICES ASSUME NEW q \in Runs, effect'[q] = "done"
               PROVE  /\ runPc'[q] \in {"over", "done"} =>
                           \/ row'[q] \in {"success", "failed"}
                           \/ LogRestored' /\ row'[q] # "none"
                      /\ runPc'[q] = "gone" /\ Kind[runTask'[q]] # "backup"
                           => row'[q] # "none"
    BY DEF EffectLogged
  <2>1. CASE runPc[q] \notin InFlight
    BY <1>1, <2>1 DEF LogInv, EffectLogged
  <2>2. CASE runPc[q] \in InFlight
    BY <1>1, <2>2 DEF LogInv, EffectLogged, RowFollowsRun, ResultFollowsRun, InFlight
  <2> QED
    BY <2>1, <2>2
<1> QED
  BY <1>2, <1>3, <1>4 DEF LogInv

LEMMA LogRestart ==
  ASSUME SchedulerTypeOK, DownIsQuiet, LogInv, SchedulerRestart, LogRestored => LogRestored'
  PROVE  LogInv'
<1>1. UNCHANGED <<runPc, runTask, outcome, effect, snap, lost>> /\ proc' = "up"
  BY DEF SchedulerRestart
<1>2. \A q \in Runs : \/ row'[q] = row[q]
                      \/ row[q] = "running" /\ row'[q] = "failed"
  BY DEF SchedulerRestart, SchedulerTypeOK
<1>3. reconciled' => \A q \in Runs : row'[q] # "running"
  BY DEF SchedulerRestart
<1>4. \A q \in Runs : runPc[q] \notin InFlight
  BY DEF SchedulerRestart, DownIsQuiet
<1>5. RowFollowsRun' /\ ResultFollowsRun' /\ SnapshotIsOlder'
  BY <1>1, <1>2, <1>4 DEF LogInv, RowFollowsRun, ResultFollowsRun, SnapshotIsOlder,
                          InFlight
<1>6. NoLongerRunning' /\ LoggedBeforeState' /\ RunningRowOwned'
  BY <1>1, <1>3, <1>4 DEF NoLongerRunning, LoggedBeforeState, RunningRowOwned, InFlight
<1>7. EffectLogged'
  BY <1>1, <1>2 DEF LogInv, EffectLogged
<1> QED
  BY <1>5, <1>6, <1>7 DEF LogInv

(* Every step keeps the log in order.                                      *)
LEMMA LogStep ==
  ASSUME SchedulerTypeOK, DownIsQuiet, LogInv, [SchedulerNext]_schedulerVars
  PROVE  LogInv'
<1>0. LogRestored => LogRestored'
  BY RestoredStays DEF LogInv
<1>1. CASE UNCHANGED <<proc, running, runVars, reconciled>>
  BY <1>1 DEF runVars, LogInv, RowFollowsRun, ResultFollowsRun, SnapshotIsOlder,
              NoLongerRunning, LoggedBeforeState, RunningRowOwned, EffectLogged,
              LogRestored
<1>2. CASE StartByHand \/ StartByScan
  BY <1>0, <1>2, LogStart DEF StartByHand, StartByScan
<1>3. ASSUME NEW r \in Runs, RunStep(r) PROVE LogInv'
  <2>1. CASE RunBegin(r)
    BY <1>0, <2>1, LogBegin
  <2>2. CASE RunWork(r)
    BY <1>0, <2>2, LogWork
  <2>3. CASE RunFinish(r)
    BY <1>0, <2>3, LogFinishes, LogLost DEF RunFinish
  <2>4. CASE RunState(r) \/ RunEnd(r)
    BY <1>0, <2>4, LogOver
  <2> QED
    BY <1>3, <2>1, <2>2, <2>3, <2>4 DEF RunStep
<1>4. CASE Crash
  BY <1>0, <1>4, LogCrash
<1>5. CASE SchedulerRestart
  BY <1>0, <1>5, LogRestart
<1> QED
  BY <1>1, <1>2, <1>3, <1>4, <1>5, StepOfRuns

LEMMA LogInvariant == SchedulerSpec => []LogInv
<1>1. SchedulerInit => LogInv
  BY DEF SchedulerInit, LogInv, RowFollowsRun, ResultFollowsRun, SnapshotIsOlder,
         NoLongerRunning, LoggedBeforeState, RunningRowOwned, EffectLogged, NoRows
<1>2. SchedulerTypeOK /\ DownIsQuiet /\ LogInv /\ [SchedulerNext]_schedulerVars => LogInv'
  BY LogStep
<1> QED
  BY <1>1, <1>2, SchedulerTypes, QuietInvariant, PTL DEF SchedulerSpec

(* While the server is up a row that says "running" has a run in flight,   *)
(* or the failure that left it was audited: RunningRowOwned, wherever the  *)
(* process died and whatever a log-cleanup put back.                       *)
THEOREM RunningRowsAreOwned == SchedulerSpec => []RunningRowOwned
<1>1. LogInv => RunningRowOwned
  BY DEF LogInv
<1> QED
  BY <1>1, LogInvariant, PTL

(* No run leaves a change the log does not tell of: EffectLogged.          *)
THEOREM EffectsAreLogged == SchedulerSpec => []EffectLogged
<1>1. LogInv => EffectLogged
  BY DEF LogInv
<1> QED
  BY <1>1, LogInvariant, PTL

(***************************************************************************)
(* A logged outcome is never rewritten but by the snapshot of a            *)
(* log-cleanup whose own row was lost: OutcomeStands.  A run logs once,    *)
(* and a restart touches only rows that say "running".                     *)
(***************************************************************************)
THEOREM OutcomesStand == SchedulerSpec => OutcomeStands
<1> DEFINE Stands == \A r \in Runs :
                       row[r] \in {"success", "failed"} /\ row'[r] # row[r] =>
                         \E c \in Runs : /\ runPc[c] = "finish" /\ lost'[c]
                                         /\ snap[c][r] # "none" /\ row'[r] = snap[c][r]
<1>1. ASSUME SchedulerTypeOK, LogInv, SchedulerNext PROVE Stands
  <2> USE <1>1
  <2>1. CASE UNCHANGED <<proc, running, runVars, reconciled>>
    BY <2>1 DEF runVars
  <2>2. CASE StartByHand \/ StartByScan
    BY <2>2 DEF StartByHand, StartByScan, Start
  <2>3. ASSUME NEW c \in Runs, RunStep(c) PROVE Stands
    <3>1. CASE RunBegin(c)
      BY <3>1 DEF RunBegin, SchedulerTypeOK, LogInv, RowFollowsRun
    <3>2. CASE RunWork(c) \/ RunState(c) \/ RunEnd(c)
      BY <3>2 DEF RunWork, RunState, RunEnd
    <3>3. CASE RunFinish(c) /\ LogOutcome(c)
      BY <3>3 DEF RunFinish, LogOutcome, SchedulerTypeOK, LogInv, RowFollowsRun
    <3>4. CASE RunFinish(c) /\ LogFails(c)
      <4>1. runPc[c] = "finish" /\ lost'[c]
        BY <3>4, LogFailsDoes DEF RunFinish, SchedulerTypeOK
      <4>2. \A q \in Runs :
              row'[q] = row[q] \/ (snap[c][q] # "none" /\ row'[q] = snap[c][q])
        BY <3>4, LogFailsDoes
      <4> QED
        BY <4>1, <4>2
    <3> QED
      BY <2>3, <3>1, <3>2, <3>3, <3>4 DEF RunStep, RunFinish
  <2>4. CASE Crash \/ SchedulerRestart
    BY <2>4 DEF Crash, SchedulerRestart, SchedulerTypeOK
  <2> QED
    BY <2>1, <2>2, <2>3, <2>4, StepOfRuns
<1>2. SchedulerTypeOK /\ LogInv /\ [SchedulerNext]_schedulerVars => [Stands]_schedulerVars
  BY <1>1
<1> QED
  BY <1>2, SchedulerTypes, LogInvariant, PTL DEF SchedulerSpec, OutcomeStands

-----------------------------------------------------------------------------
(***************************************************************************)
(* Safety of the agent relay for any sets of tunnels, gateways and workers.*)
(***************************************************************************)

(* The sequence that is left when position k is cut out.                   *)
LEMMA RemoveAtFacts ==
  ASSUME NEW S, NEW q \in Seq(S), NEW k \in 1 .. Len(q)
  PROVE  /\ RemoveAt(q, k) \in Seq(S)
         /\ Len(RemoveAt(q, k)) = Len(q) - 1
         /\ \A i \in 1 .. Len(q) - 1 :
              RemoveAt(q, k)[i] = IF i < k THEN q[i] ELSE q[i + 1]
<1> DEFINE a == SubSeq(q, 1, k - 1)
           b == SubSeq(q, k + 1, Len(q))
<1>1. /\ a \in Seq(S) /\ Len(a) = k - 1
      /\ \A i \in 1 .. k - 1 : a[i] = q[i]
  BY SubSeqProperties
<1>2. /\ b \in Seq(S) /\ Len(b) = Len(q) - k
      /\ \A i \in 1 .. Len(q) - k : b[i] = q[k + i]
  <2>1. Len(q) \in Nat /\ \A i \in k + 1 .. Len(q) : q[i] \in S
    OBVIOUS
  <2>2. /\ b \in Seq(S)
        /\ Len(b) = IF k + 1 <= Len(q) THEN Len(q) - (k + 1) + 1 ELSE 0
        /\ \A i \in 1 .. Len(q) - (k + 1) + 1 : b[i] = q[(k + 1) + i - 1]
    BY <2>1, SubSeqProperties
  <2> QED
    BY <2>1, <2>2
<1> HIDE DEF a, b
<1>3. /\ a \o b \in Seq(S) /\ Len(a \o b) = Len(q) - 1
      /\ \A i \in 1 .. Len(q) - 1 :
           (a \o b)[i] = IF i <= Len(a) THEN a[i] ELSE b[i - Len(a)]
  BY <1>1, <1>2, ConcatProperties
<1>4. RemoveAt(q, k) = a \o b
  BY DEF RemoveAt, a, b
<1>5. Len(q) \in Nat /\ k \in Nat /\ 1 <= k /\ k <= Len(q)
  OBVIOUS
<1>6. ASSUME NEW i \in 1 .. Len(q) - 1
      PROVE  (a \o b)[i] = IF i < k THEN q[i] ELSE q[i + 1]
  <2>1. CASE i < k
    <3>1. i \in 1 .. k - 1 /\ i <= Len(a)
      BY <1>1, <1>5, <2>1
    <3> QED
      BY <1>1, <1>3, <2>1, <3>1
  <2>2. CASE ~ (i < k)
    <3>1. ~ (i <= Len(a)) /\ i - Len(a) = i - k + 1
      BY <1>1, <1>5, <2>2
    <3>2. i - k + 1 \in 1 .. Len(q) - k /\ k + (i - k + 1) = i + 1
      BY <1>5, <2>2
    <3>3. b[i - k + 1] = q[i + 1]
      BY <1>2, <3>2
    <3> QED
      BY <1>3, <2>2, <3>1, <3>3
  <2> QED
    BY <2>1, <2>2
<1> HIDE DEF RemoveAt
<1> QED
  BY <1>3, <1>4, <1>6

(***************************************************************************)
(* finish's search-and-splice gives a queue of tunnels back, with nothing  *)
(* in it that was not in it before.                                        *)
(***************************************************************************)
LEMMA WithoutType ==
  ASSUME NEW q \in Seq(Tunnels), NEW t \in Tunnels
  PROVE  /\ Without(q, t) \in Seq(Tunnels)
         /\ \A i \in DOMAIN Without(q, t) :
              \E j \in DOMAIN q : Without(q, t)[i] = q[j]
<1>1. CASE \E i \in DOMAIN q : q[i] = t
  <2> DEFINE k == CHOOSE i \in DOMAIN q : q[i] = t
  <2>1. k \in 1 .. Len(q)
    BY <1>1
  <2>2. Without(q, t) = RemoveAt(q, k)
    BY <1>1 DEF Without
  <2> HIDE DEF k
  <2>3. /\ RemoveAt(q, k) \in Seq(Tunnels)
        /\ Len(RemoveAt(q, k)) = Len(q) - 1
        /\ \A i \in 1 .. Len(q) - 1 :
             RemoveAt(q, k)[i] = IF i < k THEN q[i] ELSE q[i + 1]
    BY <2>1, RemoveAtFacts
  <2>4. ASSUME NEW i \in DOMAIN Without(q, t)
        PROVE  \E j \in DOMAIN q : Without(q, t)[i] = q[j]
    <3>1. i \in 1 .. Len(q) - 1
      BY <2>2, <2>3
    <3>2. i \in DOMAIN q /\ i + 1 \in DOMAIN q
      BY <3>1
    <3> QED
      BY <2>2, <2>3, <3>1, <3>2
  <2> QED
    BY <2>2, <2>3, <2>4
<1>2. CASE ~ \E i \in DOMAIN q : q[i] = t
  BY <1>2 DEF Without
<1> QED
  BY <1>1, <1>2

(* A queue that holds each tunnel once still does, and no longer holds t.  *)
LEMMA WithoutRemoves ==
  ASSUME NEW q \in Seq(Tunnels), NEW t \in Tunnels, IsInjective(q)
  PROVE  /\ IsInjective(Without(q, t))
         /\ \A i \in DOMAIN Without(q, t) : Without(q, t)[i] # t
         /\ q = << >> => Without(q, t) = << >>
<1>1. CASE \E i \in DOMAIN q : q[i] = t
  <2> DEFINE k == CHOOSE i \in DOMAIN q : q[i] = t
  <2>1. k \in 1 .. Len(q) /\ q[k] = t
    BY <1>1
  <2>2. Without(q, t) = RemoveAt(q, k)
    BY <1>1 DEF Without
  <2> HIDE DEF k
  <2>3. \A i, j \in 1 .. Len(q) : q[i] = q[j] => i = j
    BY DEF IsInjective
  <2>4. /\ DOMAIN Without(q, t) = 1 .. Len(q) - 1
        /\ \A i \in DOMAIN Without(q, t) :
             Without(q, t)[i] = IF i < k THEN q[i] ELSE q[i + 1]
    <3>1. /\ RemoveAt(q, k) \in Seq(Tunnels)
          /\ Len(RemoveAt(q, k)) = Len(q) - 1
          /\ \A i \in 1 .. Len(q) - 1 :
               RemoveAt(q, k)[i] = IF i < k THEN q[i] ELSE q[i + 1]
      BY <2>1, RemoveAtFacts
    <3>2. DOMAIN RemoveAt(q, k) = 1 .. Len(q) - 1
      BY <3>1
    <3> QED
      BY <2>2, <3>1, <3>2
  <2>5. \A i \in DOMAIN Without(q, t) : Without(q, t)[i] # t
    BY <2>1, <2>3, <2>4
  <2>6. ASSUME NEW i \in DOMAIN Without(q, t), NEW j \in DOMAIN Without(q, t),
               Without(q, t)[i] = Without(q, t)[j]
        PROVE  i = j
    <3> DEFINE u(x) == IF x < k THEN x ELSE x + 1
    <3>1. /\ i \in 1 .. Len(q) - 1 /\ j \in 1 .. Len(q) - 1
          /\ u(i) \in 1 .. Len(q) /\ u(j) \in 1 .. Len(q)
      BY <2>1, <2>4
    <3>2. q[u(i)] = q[u(j)]
      BY <2>4, <2>6
    <3>3. u(i) = u(j)
      BY <2>3, <3>1, <3>2
    <3> QED
      BY <2>1, <3>1, <3>3
  <2>7. IsInjective(Without(q, t))
    BY <2>6 DEF IsInjective
  <2>8. q # << >>
    BY <2>1
  <2> QED
    BY <2>5, <2>7, <2>8
<1>2. CASE ~ \E i \in DOMAIN q : q[i] = t
  BY <1>2 DEF Without
<1> QED
  BY <1>1, <1>2

-----------------------------------------------------------------------------
(* Entering finish keeps the variables it touches well typed.              *)
LEMMA BeginFinishType ==
  ASSUME RelayTypeOK, NEW t \in Tunnels, NEW s \in {"failed", "closed"},
         BeginFinish(t, s)
  PROVE  /\ finPc' \in [Tunnels -> {"none", "removed", "logging", "done"}]
         /\ finStatus' \in [Tunnels -> {"none", "failed", "closed"}]
         /\ live' \in SUBSET Tunnels
         /\ pending' \in [Gateways -> Seq(Tunnels)]
<1>1. gateway[t] \in Gateways /\ pending[gateway[t]] \in Seq(Tunnels)
  BY DEF RelayTypeOK
<1>2. Without(pending[gateway[t]], t) \in Seq(Tunnels)
  BY <1>1, WithoutType
<1>3. CASE finPc[t] = "none"
  <2>1. /\ finPc' = [finPc EXCEPT ![t] = "removed"]
        /\ finStatus' = [finStatus EXCEPT ![t] = s]
        /\ live' = live \ {t}
        /\ pending' = [pending EXCEPT ![gateway[t]] =
                         Without(pending[gateway[t]], t)]
    BY <1>3 DEF BeginFinish
  <2>2. live' \in SUBSET Tunnels
    BY <2>1 DEF RelayTypeOK
  <2>3. pending' \in [Gateways -> Seq(Tunnels)]
    BY <1>1, <1>2, <2>1 DEF RelayTypeOK
  <2> QED
    BY <2>1, <2>2, <2>3 DEF RelayTypeOK
<1>4. CASE finPc[t] # "none"
  BY <1>4 DEF RelayTypeOK, BeginFinish
<1> QED
  BY <1>3, <1>4

(* Every action keeps the types.                                           *)
LEMMA RelayTypeStep ==
  RelayTypeOK /\ [RelayNext]_relayVars => RelayTypeOK'
<1> SUFFICES ASSUME RelayTypeOK, [RelayNext]_relayVars
             PROVE  RelayTypeOK'
  OBVIOUS
<1> USE DEF RelayTypeOK
<1>1. ASSUME NEW t \in Tunnels, DialBegin(t) PROVE RelayTypeOK'
  <2>1. CASE Enqueue(t)
    <3>1. live' \in SUBSET Tunnels
      BY <2>1 DEF Enqueue
    <3>2. pending' \in [Gateways -> Seq(Tunnels)]
      BY <2>1 DEF Enqueue
    <3>3. worker' \in [Workers -> {"idle", "scanning", "waiting", "woken"}]
      BY <2>1 DEF Enqueue
    <3>4. /\ dialPc' \in [Tunnels -> {"idle", "waiting", "refused", "logging",
                                      "logged", "open", "aborting", "failed",
                                      "closing", "released"}]
          /\ logRow' \in [Tunnels -> {"none", "requested", "connected",
                                      "failed", "closed"}]
      BY <1>1 DEF DialBegin
    <3> QED
      BY <1>1, <3>1, <3>2, <3>3, <3>4 DEF DialBegin
  <2>2. CASE ~ Enqueue(t)
    BY <1>1, <2>2 DEF DialBegin
  <2> QED
    BY <2>1, <2>2
<1>2. ASSUME NEW t \in Tunnels, DialReady(t) PROVE RelayTypeOK'
  BY <1>2, BeginFinishType DEF DialReady
<1>3. ASSUME NEW t \in Tunnels, DialTimeout(t) PROVE RelayTypeOK'
  BY <1>3, BeginFinishType DEF DialTimeout
<1>4. ASSUME NEW t \in Tunnels, DialLog(t) PROVE RelayTypeOK'
  BY <1>4, BeginFinishType DEF DialLog
<1>5. ASSUME NEW t \in Tunnels, DialOpen(t) PROVE RelayTypeOK'
  BY <1>5 DEF DialOpen
<1>6. ASSUME NEW t \in Tunnels, ConnClose(t) PROVE RelayTypeOK'
  BY <1>6, BeginFinishType DEF ConnClose
<1>7. ASSUME NEW t \in Tunnels, DialReturn(t) PROVE RelayTypeOK'
  BY <1>7 DEF DialReturn
<1>8. ASSUME NEW t \in Tunnels, FinishClose(t) PROVE RelayTypeOK'
  BY <1>8 DEF FinishClose
<1>9. ASSUME NEW t \in Tunnels, FinishLog(t) PROVE RelayTypeOK'
  <2>1. finPc' \in [Tunnels -> {"none", "removed", "logging", "done"}]
    BY <1>9 DEF FinishLog
  <2>2. logRow' \in [Tunnels -> {"none", "requested", "connected", "failed",
                                 "closed"}]
    <3>1. finStatus[t] \in {"none", "requested", "connected", "failed",
                            "closed"}
      OBVIOUS
    <3>2. \/ logRow' = [logRow EXCEPT ![t] = finStatus[t]]
          \/ logRow' = logRow
      BY <1>9 DEF FinishLog
    <3> QED
      BY <3>1, <3>2
  <2>3. persistFailed' \in [Tunnels -> BOOLEAN]
    BY <1>9 DEF FinishLog
  <2> QED
    BY <1>9, <2>1, <2>2, <2>3 DEF FinishLog
<1>10. ASSUME NEW w \in Workers, ClaimPost(w) PROVE RelayTypeOK'
  BY <1>10 DEF ClaimPost, managerVars
<1>11. ASSUME NEW w \in Workers, ClaimScan(w) PROVE RelayTypeOK'
  <2> DEFINE g == WorkerGateway[w]
             q == pending[g]
  <2>1. g \in Gateways /\ q \in Seq(Tunnels)
    BY RelayAssumption
  <2>2. CASE OpenAt(q) = {}
    <3>1. /\ pending' = [pending EXCEPT ![g] = << >>]
          /\ worker' = [worker EXCEPT ![w] = "waiting"]
          /\ handler' = handler
      BY <1>11, <2>2 DEF ClaimScan
    <3>2. pending' \in [Gateways -> Seq(Tunnels)]
      BY <2>1, <3>1
    <3>3. worker' \in [Workers -> {"idle", "scanning", "waiting", "woken"}]
      BY <3>1
    <3> QED
      BY <1>11, <3>1, <3>2, <3>3 DEF ClaimScan
  <2>3. ASSUME NEW i \in OpenAt(q),
               pending' = [pending EXCEPT ![g] = SubSeq(q, i + 1, Len(q))],
               worker' = [worker EXCEPT ![w] = "idle"],
               NEW h \in {"dialing", "done"},
               handler' = [handler EXCEPT ![q[i]] = h]
        PROVE  RelayTypeOK'
    <3>1. i \in 1 .. Len(q) /\ q[i] \in Tunnels
      BY <2>1 DEF OpenAt
    <3>2. SubSeq(q, i + 1, Len(q)) \in Seq(Tunnels)
      BY <2>1, <3>1
    <3> HIDE DEF g, q
    <3>3. pending' \in [Gateways -> Seq(Tunnels)]
      BY <2>1, <2>3, <3>2
    <3>4. handler' \in [Tunnels -> {"none", "dialing", "readying", "failing",
                                    "streaming", "done"}]
      BY <2>3
    <3>5. worker' \in [Workers -> {"idle", "scanning", "waiting", "woken"}]
      BY <2>3
    <3> QED
      BY <1>11, <3>3, <3>4, <3>5 DEF ClaimScan
  <2> QED
    BY <1>11, <2>2, <2>3 DEF ClaimScan
<1>12. ASSUME NEW w \in Workers, ClaimTimeout(w) PROVE RelayTypeOK'
  BY <1>12 DEF ClaimTimeout, managerVars
<1>13. ASSUME NEW t \in Tunnels, AgentDial(t) PROVE RelayTypeOK'
  BY <1>13 DEF AgentDial, managerVars
<1>14. ASSUME NEW t \in Tunnels, Fail(t) PROVE RelayTypeOK'
  BY <1>14, BeginFinishType DEF Fail
<1>15. ASSUME NEW t \in Tunnels, Ready(t) PROVE RelayTypeOK'
  <2>1. CASE Authorized(t)
    <3>1. /\ ready' = [ready EXCEPT ![t] = IF ready[t] = "unset" THEN "ok"
                                                                ELSE ready[t]]
          /\ readyCall' = [readyCall EXCEPT ![t] = "waiting"]
          /\ handler' = handler
      BY <1>15, <2>1 DEF Ready
    <3> QED
      BY <1>15, <3>1 DEF Ready
  <2>2. CASE ~ Authorized(t)
    <3>1. /\ ready' = ready
          /\ readyCall' = [readyCall EXCEPT ![t] = "refused"]
          /\ handler' = [handler EXCEPT ![t] = "done"]
      BY <1>15, <2>2 DEF Ready
    <3> QED
      BY <1>15, <3>1 DEF Ready
  <2> QED
    BY <2>1, <2>2
<1>16. ASSUME NEW t \in Tunnels, ReadyReturn(t) PROVE RelayTypeOK'
  <2>1. \E r \in {"accepted", "refused"} :
          readyCall' = [readyCall EXCEPT ![t] = r]
    BY <1>16 DEF ReadyReturn
  <2>2. \E h \in {"streaming", "done", handler[t]} :
          handler' = [handler EXCEPT ![t] = h]
    BY <1>16 DEF ReadyReturn
  <2>3. readyCall' \in [Tunnels -> {"none", "waiting", "accepted", "refused"}]
    BY <2>1
  <2>4. handler' \in [Tunnels -> {"none", "dialing", "readying", "failing",
                                  "streaming", "done"}]
    BY <2>2
  <2> QED
    BY <1>16, <2>3, <2>4 DEF ReadyReturn, managerVars
<1>17. ASSUME NEW t \in Tunnels, NEW d \in Directions, StreamOpen(t, d)
       PROVE  RelayTypeOK'
  BY <1>17 DEF StreamOpen, managerVars
<1>18. ASSUME NEW t \in Tunnels, NEW d \in Directions, StreamEnd(t, d)
       PROVE  RelayTypeOK'
  BY <1>18, BeginFinishType DEF StreamEnd
<1>19. ASSUME NEW t \in Tunnels, StreamCanceled(t) PROVE RelayTypeOK'
  BY <1>19, BeginFinishType DEF StreamCanceled
<1>20. ASSUME NEW t \in Tunnels, NEW d \in Directions, StreamReturn(t, d)
       PROVE  RelayTypeOK'
  BY <1>20 DEF StreamReturn, managerVars
<1>21. ASSUME NEW t \in Tunnels, AgentStreamsOver(t) PROVE RelayTypeOK'
  BY <1>21 DEF AgentStreamsOver, managerVars
<1>22. ASSUME NEW t \in Tunnels, HandlerGone(t) PROVE RelayTypeOK'
  BY <1>22 DEF HandlerGone, managerVars
<1>23. CASE UNCHANGED relayVars
  BY <1>23 DEF relayVars, managerVars
<1> QED
  BY <1>1, <1>2, <1>3, <1>4, <1>5, <1>6, <1>7, <1>8, <1>9, <1>10, <1>11,
     <1>12, <1>13, <1>14, <1>15, <1>16, <1>17, <1>18, <1>19, <1>20, <1>21,
     <1>22, <1>23 DEF RelayNext

-----------------------------------------------------------------------------
(***************************************************************************)
(* Every action keeps the phases of each tunnel u in order.                *)
(***************************************************************************)
LEMMA DialOrderStep ==
  ASSUME RelayIInv, [RelayNext]_relayVars, NEW u \in Tunnels
  PROVE  DialOrder(u)'
<1> DEFINE SameAt(t) ==
      /\ dialPc'[t] = dialPc[t] /\ ready'[t] = ready[t]
      /\ connected'[t] = connected[t] /\ finPc'[t] = finPc[t]
      /\ finStatus'[t] = finStatus[t] /\ (t \in live' <=> t \in live)
      /\ logRow'[t] = logRow[t] /\ persistFailed'[t] = persistFailed[t]
      /\ handler'[t] = handler[t] /\ readyCall'[t] = readyCall[t]
      /\ stream'[t] = stream[t]
<1>0. RelayTypeOK /\ DialOrder(u)
  BY DEF RelayIInv
<1>same. ASSUME SameAt(u) PROVE DialOrder(u)'
  BY <1>0, <1>same DEF DialOrder, NotStarted
<1>1. ASSUME NEW t \in Tunnels, DialBegin(t) PROVE DialOrder(u)'
  <2>1. CASE t # u
    <3>1. SameAt(u)
      BY <1>0, <1>1, <2>1 DEF RelayTypeOK, DialBegin, Enqueue
    <3> QED
      BY <1>same, <3>1
  <2>2. CASE t = u
    BY <1>0, <1>1, <2>2 DEF DialOrder, NotStarted, RelayTypeOK, DialBegin, Enqueue
  <2> QED
    BY <2>1, <2>2
<1>2. ASSUME NEW t \in Tunnels, DialReady(t) PROVE DialOrder(u)'
  <2>1. CASE t # u
    <3>1. SameAt(u)
      BY <1>0, <1>2, <2>1 DEF RelayTypeOK, DialReady, BeginFinish
    <3> QED
      BY <1>same, <3>1
  <2>2. CASE t = u
    BY <1>0, <1>2, <2>2 DEF DialOrder, NotStarted, RelayTypeOK, DialReady, BeginFinish
  <2> QED
    BY <2>1, <2>2
<1>3. ASSUME NEW t \in Tunnels, DialTimeout(t) PROVE DialOrder(u)'
  <2>1. CASE t # u
    <3>1. SameAt(u)
      BY <1>0, <1>3, <2>1 DEF RelayTypeOK, DialTimeout, BeginFinish
    <3> QED
      BY <1>same, <3>1
  <2>2. CASE t = u
    BY <1>0, <1>3, <2>2 DEF DialOrder, NotStarted, RelayTypeOK, DialTimeout, BeginFinish
  <2> QED
    BY <2>1, <2>2
<1>4. ASSUME NEW t \in Tunnels, DialLog(t) PROVE DialOrder(u)'
  <2>1. CASE t # u
    <3>1. SameAt(u)
      BY <1>0, <1>4, <2>1 DEF RelayTypeOK, DialLog, BeginFinish
    <3> QED
      BY <1>same, <3>1
  <2>2. CASE t = u
    BY <1>0, <1>4, <2>2 DEF DialOrder, NotStarted, RelayTypeOK, DialLog, BeginFinish
  <2> QED
    BY <2>1, <2>2
<1>5. ASSUME NEW t \in Tunnels, DialOpen(t) PROVE DialOrder(u)'
  <2>1. CASE t # u
    <3>1. SameAt(u)
      BY <1>0, <1>5, <2>1 DEF RelayTypeOK, DialOpen
    <3> QED
      BY <1>same, <3>1
  <2>2. CASE t = u
    BY <1>0, <1>5, <2>2 DEF DialOrder, NotStarted, RelayTypeOK, DialOpen
  <2> QED
    BY <2>1, <2>2
<1>6. ASSUME NEW t \in Tunnels, ConnClose(t) PROVE DialOrder(u)'
  <2>1. CASE t # u
    <3>1. SameAt(u)
      BY <1>0, <1>6, <2>1 DEF RelayTypeOK, ConnClose, BeginFinish
    <3> QED
      BY <1>same, <3>1
  <2>2. CASE t = u
    BY <1>0, <1>6, <2>2 DEF DialOrder, NotStarted, RelayTypeOK, ConnClose, BeginFinish
  <2> QED
    BY <2>1, <2>2
<1>7. ASSUME NEW t \in Tunnels, DialReturn(t) PROVE DialOrder(u)'
  <2>1. CASE t # u
    <3>1. SameAt(u)
      BY <1>0, <1>7, <2>1 DEF RelayTypeOK, DialReturn
    <3> QED
      BY <1>same, <3>1
  <2>2. CASE t = u
    BY <1>0, <1>7, <2>2 DEF DialOrder, NotStarted, RelayTypeOK, DialReturn
  <2> QED
    BY <2>1, <2>2
<1>8. ASSUME NEW t \in Tunnels, FinishClose(t) PROVE DialOrder(u)'
  <2>1. CASE t # u
    <3>1. SameAt(u)
      BY <1>0, <1>8, <2>1 DEF RelayTypeOK, FinishClose
    <3> QED
      BY <1>same, <3>1
  <2>2. CASE t = u
    BY <1>0, <1>8, <2>2 DEF DialOrder, NotStarted, RelayTypeOK, FinishClose
  <2> QED
    BY <2>1, <2>2
<1>9. ASSUME NEW t \in Tunnels, FinishLog(t) PROVE DialOrder(u)'
  <2>1. CASE t # u
    <3>1. SameAt(u)
      BY <1>0, <1>9, <2>1 DEF RelayTypeOK, FinishLog
    <3> QED
      BY <1>same, <3>1
  <2>2. CASE t = u
    BY <1>0, <1>9, <2>2 DEF DialOrder, NotStarted, RelayTypeOK, FinishLog
  <2> QED
    BY <2>1, <2>2
<1>10. ASSUME NEW t \in Tunnels, AgentDial(t) PROVE DialOrder(u)'
  <2>1. CASE t # u
    <3>1. SameAt(u)
      BY <1>0, <1>10, <2>1 DEF RelayTypeOK, AgentDial, managerVars
    <3> QED
      BY <1>same, <3>1
  <2>2. CASE t = u
    BY <1>0, <1>10, <2>2 DEF DialOrder, NotStarted, RelayTypeOK, AgentDial, managerVars
  <2> QED
    BY <2>1, <2>2
<1>11. ASSUME NEW t \in Tunnels, Fail(t) PROVE DialOrder(u)'
  <2>1. CASE t # u
    <3>1. SameAt(u)
      BY <1>0, <1>11, <2>1 DEF RelayTypeOK, Fail, BeginFinish, Authorized, Closed
    <3> QED
      BY <1>same, <3>1
  <2>2. CASE t = u
    BY <1>0, <1>11, <2>2 DEF DialOrder, NotStarted, RelayTypeOK, Fail, BeginFinish, Authorized, Closed
  <2> QED
    BY <2>1, <2>2
<1>12. ASSUME NEW t \in Tunnels, Ready(t) PROVE DialOrder(u)'
  <2>1. CASE t # u
    <3>1. SameAt(u)
      BY <1>0, <1>12, <2>1 DEF RelayTypeOK, Ready, Authorized, Closed
    <3> QED
      BY <1>same, <3>1
  <2>2. CASE t = u
    BY <1>0, <1>12, <2>2 DEF DialOrder, NotStarted, RelayTypeOK, Ready, Authorized, Closed
  <2> QED
    BY <2>1, <2>2
<1>13. ASSUME NEW t \in Tunnels, ReadyReturn(t) PROVE DialOrder(u)'
  <2>1. CASE t # u
    <3>1. SameAt(u)
      BY <1>0, <1>13, <2>1 DEF RelayTypeOK, ReadyReturn, Closed, AgentGone, managerVars
    <3> QED
      BY <1>same, <3>1
  <2>2. CASE t = u
    BY <1>0, <1>13, <2>2 DEF DialOrder, NotStarted, RelayTypeOK, ReadyReturn, Closed, AgentGone, managerVars
  <2> QED
    BY <2>1, <2>2
<1>14. ASSUME NEW t \in Tunnels, StreamCanceled(t) PROVE DialOrder(u)'
  <2>1. CASE t # u
    <3>1. SameAt(u)
      BY <1>0, <1>14, <2>1 DEF RelayTypeOK, StreamCanceled, BeginFinish
    <3> QED
      BY <1>same, <3>1
  <2>2. CASE t = u
    BY <1>0, <1>14, <2>2 DEF DialOrder, NotStarted, RelayTypeOK, StreamCanceled, BeginFinish
  <2> QED
    BY <2>1, <2>2
<1>15. ASSUME NEW t \in Tunnels, AgentStreamsOver(t) PROVE DialOrder(u)'
  <2>1. CASE t # u
    <3>1. SameAt(u)
      BY <1>0, <1>15, <2>1 DEF RelayTypeOK, AgentStreamsOver, managerVars
    <3> QED
      BY <1>same, <3>1
  <2>2. CASE t = u
    BY <1>0, <1>15, <2>2 DEF DialOrder, NotStarted, RelayTypeOK, AgentStreamsOver, managerVars
  <2> QED
    BY <2>1, <2>2
<1>16. ASSUME NEW t \in Tunnels, HandlerGone(t) PROVE DialOrder(u)'
  <2>1. CASE t # u
    <3>1. SameAt(u)
      BY <1>0, <1>16, <2>1 DEF RelayTypeOK, HandlerGone, managerVars
    <3> QED
      BY <1>same, <3>1
  <2>2. CASE t = u
    BY <1>0, <1>16, <2>2 DEF DialOrder, NotStarted, RelayTypeOK, HandlerGone, managerVars
  <2> QED
    BY <2>1, <2>2
<1>17. ASSUME NEW t \in Tunnels, NEW d \in Directions, StreamOpen(t, d) PROVE DialOrder(u)'
  <2>1. CASE t # u
    <3>1. SameAt(u)
      BY <1>0, <1>17, <2>1 DEF RelayTypeOK, StreamOpen, managerVars
    <3> QED
      BY <1>same, <3>1
  <2>2. CASE t = u
    BY <1>0, <1>17, <2>2 DEF DialOrder, NotStarted, RelayTypeOK, StreamOpen, managerVars
  <2> QED
    BY <2>1, <2>2
<1>18. ASSUME NEW t \in Tunnels, NEW d \in Directions, StreamEnd(t, d) PROVE DialOrder(u)'
  <2>1. CASE t # u
    <3>1. SameAt(u)
      BY <1>0, <1>18, <2>1 DEF RelayTypeOK, StreamEnd, BeginFinish
    <3> QED
      BY <1>same, <3>1
  <2>2. CASE t = u
    BY <1>0, <1>18, <2>2 DEF DialOrder, NotStarted, RelayTypeOK, StreamEnd, BeginFinish
  <2> QED
    BY <2>1, <2>2
<1>19. ASSUME NEW t \in Tunnels, NEW d \in Directions, StreamReturn(t, d) PROVE DialOrder(u)'
  <2>1. CASE t # u
    <3>1. SameAt(u)
      BY <1>0, <1>19, <2>1 DEF RelayTypeOK, StreamReturn, managerVars
    <3> QED
      BY <1>same, <3>1
  <2>2. CASE t = u
    BY <1>0, <1>19, <2>2 DEF DialOrder, NotStarted, RelayTypeOK, StreamReturn, managerVars
  <2> QED
    BY <2>1, <2>2
<1>20. ASSUME NEW w \in Workers, ClaimPost(w) PROVE DialOrder(u)'
  <2>1. SameAt(u)
    BY <1>20 DEF ClaimPost, managerVars
  <2> QED
    BY <1>same, <2>1
<1>21. ASSUME NEW w \in Workers, ClaimTimeout(w) PROVE DialOrder(u)'
  <2>1. SameAt(u)
    BY <1>21 DEF ClaimTimeout, managerVars
  <2> QED
    BY <1>same, <2>1
<1>22. CASE UNCHANGED relayVars
  <2>1. SameAt(u)
    BY <1>22 DEF relayVars, managerVars
  <2> QED
    BY <1>same, <2>1
<1>23. ASSUME NEW w \in Workers, ClaimScan(w) PROVE DialOrder(u)'
  <2> DEFINE g == WorkerGateway[w]
             q == pending[g]
  <2>1. g \in Gateways /\ q \in Seq(Tunnels)
    BY <1>0, RelayAssumption DEF RelayTypeOK
  <2>2. CASE OpenAt(q) = {}
    <3>1. SameAt(u)
      BY <1>23, <2>2 DEF ClaimScan
    <3> QED
      BY <1>same, <3>1
  <2>3. ASSUME NEW i \in OpenAt(q), NEW h \in {"dialing", "done"},
               handler' = [handler EXCEPT ![q[i]] = h]
        PROVE  DialOrder(u)'
    <3>1. i \in DOMAIN q
      BY DEF OpenAt
    <3>2. CASE q[i] # u
      <4>1. SameAt(u)
        BY <1>0, <1>23, <2>3, <3>2 DEF ClaimScan, RelayTypeOK
      <4> QED
        BY <1>same, <4>1
    <3>3. CASE q[i] = u
      <4>1. handler[u] = "none" /\ dialPc[u] = "waiting" /\ ready[u] = "unset"
        BY <2>1, <3>1, <3>3 DEF RelayIInv, QueueOrder, QueueSound
      <4>2. handler'[u] = h
        BY <1>0, <2>3, <3>3 DEF RelayTypeOK
      <4> HIDE DEF g, q
      <4> QED
        BY <1>0, <1>23, <4>1, <4>2 DEF ClaimScan, DialOrder, NotStarted
    <3> QED
      BY <3>2, <3>3
  <2> QED
    BY <1>23, <2>2, <2>3 DEF ClaimScan
<1> QED
  BY <1>1, <1>2, <1>3, <1>4, <1>5, <1>6, <1>7, <1>8, <1>9, <1>10, <1>11, <1>12, <1>13, <1>14, <1>15, <1>16, <1>17, <1>18, <1>19, <1>20, <1>21, <1>22, <1>23 DEF RelayNext

-----------------------------------------------------------------------------
(* What QueueOrder says of x while it waits in the queue of g.             *)
Waits(g, x) ==
  /\ gateway[x] = g /\ x \in live /\ finPc[x] = "none"
  /\ handler[x] = "none" /\ dialPc[x] = "waiting" /\ ready[x] = "unset"

(* QueueOrder restated with Waits.                                         *)
LEMMA QueueOrderForm ==
  QueueOrder <=> /\ \A g \in Gateways : IsInjective(pending[g])
                 /\ \A g \in Gateways : \A i \in DOMAIN pending[g] :
                      Waits(g, pending[g][i])
                 /\ NoLostWakeup
<1>1. ASSUME QueueOrder, NEW g \in Gateways, NEW i \in DOMAIN pending[g]
      PROVE  Waits(g, pending[g][i])
  BY <1>1 DEF QueueOrder, QueueSound, Waits
<1>2. ASSUME NEW g \in Gateways, NEW i \in DOMAIN pending[g],
             Waits(g, pending[g][i])
      PROVE  /\ gateway[pending[g][i]] = g
             /\ pending[g][i] \in live /\ ~Closed(pending[g][i])
             /\ handler[pending[g][i]] = "none"
             /\ dialPc[pending[g][i]] = "waiting"
             /\ finPc[pending[g][i]] = "none" /\ ready[pending[g][i]] = "unset"
  BY <1>2 DEF Waits, Closed
<1> QED
  BY <1>1, <1>2 DEF QueueOrder, QueueSound

(* Each queue holds what it held before, in places, and t is in none.      *)
ShrunkBy(t) ==
  \A g \in Gateways :
    /\ IsInjective(pending'[g])
    /\ \A i \in DOMAIN pending'[g] :
         \E j \in DOMAIN pending[g] :
           pending'[g][i] = pending[g][j] /\ pending[g][j] # t
    /\ pending[g] = << >> => pending'[g] = << >>

(* A step that may change anything about t, but takes t out of the queues  *)
(* and leaves the other tunnels and the sleeping workers alone.            *)
LEMMA ShrinkKeepsOrder ==
  ASSUME QueueOrder, NEW t, ShrunkBy(t), RelayAssumption,
         gateway' = gateway,
         \A x \in Tunnels \ {t} :
           /\ finPc'[x] = finPc[x] /\ handler'[x] = handler[x]
           /\ dialPc'[x] = dialPc[x] /\ ready'[x] = ready[x]
           /\ x \in live' <=> x \in live,
         \A w \in Workers : worker'[w] = "waiting" =>
           worker[w] = "waiting" \/ pending'[WorkerGateway[w]] = << >>,
         RelayTypeOK
  PROVE  QueueOrder'
<1>1. ASSUME NEW g \in Gateways, NEW i \in DOMAIN pending'[g]
      PROVE  Waits(g, pending[g][i])'
  <2>1. PICK j \in DOMAIN pending[g] :
          pending'[g][i] = pending[g][j] /\ pending[g][j] # t
    BY DEF ShrunkBy
  <2>2. pending[g][j] \in Tunnels \ {t}
    BY <2>1 DEF RelayTypeOK
  <2>3. Waits(g, pending[g][j])
    BY QueueOrderForm
  <2> DEFINE x == pending[g][j]
  <2> HIDE DEF x
  <2>4. x \in Tunnels \ {t} /\ Waits(g, x) /\ pending'[g][i] = x
    BY <2>1, <2>2, <2>3 DEF x
  <2> QED
    BY <2>4 DEF Waits
<1>2. NoLostWakeup'
  BY RelayAssumption, QueueOrderForm DEF NoLostWakeup, ShrunkBy
<1>3. \A g \in Gateways : IsInjective(pending[g])'
  BY DEF ShrunkBy
<1>4. (/\ \A g \in Gateways : IsInjective(pending[g])
       /\ \A g \in Gateways : \A i \in DOMAIN pending[g] :
            Waits(g, pending[g][i])
       /\ NoLostWakeup)'
  BY <1>1, <1>2, <1>3
<1> QED
  BY <1>4, QueueOrderForm, PTL

(* finish takes its tunnel out of the queue.                               *)
LEMMA BeginFinishShrinks ==
  ASSUME RelayTypeOK, QueueOrder, NEW t \in Tunnels, NEW s, BeginFinish(t, s)
  PROVE  ShrunkBy(t)
<1> SUFFICES ASSUME NEW g \in Gateways
             PROVE  /\ IsInjective(pending'[g])
                    /\ \A i \in DOMAIN pending'[g] :
                         \E j \in DOMAIN pending[g] :
                           pending'[g][i] = pending[g][j] /\ pending[g][j] # t
                    /\ pending[g] = << >> => pending'[g] = << >>
  BY DEF ShrunkBy
<1>1. /\ pending[g] \in Seq(Tunnels) /\ IsInjective(pending[g])
      /\ \A i \in DOMAIN pending[g] : Waits(g, pending[g][i])
  BY QueueOrderForm DEF RelayTypeOK
<1>2. CASE finPc[t] = "none" /\ g = gateway[t]
  <2>1. pending'[g] = Without(pending[g], t)
    BY <1>2 DEF BeginFinish, RelayTypeOK
  <2> QED
    BY <1>1, <2>1, WithoutType, WithoutRemoves
<1>3. CASE ~ (finPc[t] = "none" /\ g = gateway[t])
  <2>1. pending'[g] = pending[g]
    BY <1>3 DEF BeginFinish, RelayTypeOK
  <2>2. \A i \in DOMAIN pending[g] : pending[g][i] # t
    BY <1>1, <1>3 DEF Waits
  <2> QED
    BY <1>1, <2>1, <2>2
<1> QED
  BY <1>2, <1>3

(* A tunnel that no longer waits is in no queue.                           *)
LEMMA UntouchedShrinks ==
  ASSUME QueueOrder, NEW t, \A g \in Gateways : ~ Waits(g, t),
         pending' = pending
  PROVE  ShrunkBy(t)
BY QueueOrderForm DEF ShrunkBy

(***************************************************************************)
(* Every action keeps the queues in order.  Steps that enter finish, and   *)
(* steps of a tunnel that is in no queue, are ShrinkKeepsOrder; enqueue and*)
(* Claim are the two that need an argument of their own.                   *)
(***************************************************************************)
LEMMA QueueOrderStep ==
  ASSUME RelayIInv, [RelayNext]_relayVars
  PROVE  QueueOrder'
<1> USE RelayAssumption
<1>0. RelayTypeOK /\ QueueOrder /\ \A t \in Tunnels : DialOrder(t)
  BY DEF RelayIInv
<1> DEFINE Elsewhere(t) ==
      /\ gateway' = gateway
      /\ \A x \in Tunnels \ {t} :
           /\ finPc'[x] = finPc[x] /\ handler'[x] = handler[x]
           /\ dialPc'[x] = dialPc[x] /\ ready'[x] = ready[x]
           /\ x \in live' <=> x \in live
      /\ \A w \in Workers : worker'[w] = "waiting" =>
           worker[w] = "waiting" \/ pending'[WorkerGateway[w]] = << >>
<1>shrink. ASSUME NEW t, ShrunkBy(t), Elsewhere(t) PROVE QueueOrder'
  BY <1>0, <1>shrink, ShrinkKeepsOrder
<1> HIDE DEF Elsewhere
<1>finish. ASSUME NEW t \in Tunnels, NEW st, BeginFinish(t, st), Elsewhere(t)
           PROVE  QueueOrder'
  BY <1>0, <1>finish, <1>shrink, BeginFinishShrinks
<1>still. ASSUME NEW t \in Tunnels, \A g \in Gateways : ~ Waits(g, t),
                 pending' = pending, Elsewhere(t)
          PROVE  QueueOrder'
  BY <1>0, <1>still, <1>shrink, UntouchedShrinks
<1>1. ASSUME NEW t \in Tunnels, DialTimeout(t) PROVE QueueOrder'
  <2>1. BeginFinish(t, "failed")
    BY <1>1 DEF DialTimeout
  <2>2. Elsewhere(t)
    BY <1>0, <1>1 DEF DialTimeout, BeginFinish, RelayTypeOK, Elsewhere
  <2> QED
    BY <1>finish, <2>1, <2>2
<1>2. ASSUME NEW t \in Tunnels, ConnClose(t) PROVE QueueOrder'
  <2>1. BeginFinish(t, "closed")
    BY <1>2 DEF ConnClose
  <2>2. Elsewhere(t)
    BY <1>0, <1>2 DEF ConnClose, BeginFinish, RelayTypeOK, Elsewhere
  <2> QED
    BY <1>finish, <2>1, <2>2
<1>3. ASSUME NEW t \in Tunnels, NEW d \in Directions, StreamEnd(t, d) PROVE QueueOrder'
  <2>1. BeginFinish(t, "closed")
    BY <1>3 DEF StreamEnd
  <2>2. Elsewhere(t)
    BY <1>0, <1>3 DEF StreamEnd, BeginFinish, RelayTypeOK, Elsewhere
  <2> QED
    BY <1>finish, <2>1, <2>2
<1>4. ASSUME NEW t \in Tunnels, StreamCanceled(t) PROVE QueueOrder'
  <2>1. BeginFinish(t, "closed")
    BY <1>4 DEF StreamCanceled
  <2>2. Elsewhere(t)
    BY <1>0, <1>4 DEF StreamCanceled, BeginFinish, RelayTypeOK, Elsewhere
  <2> QED
    BY <1>finish, <2>1, <2>2
<1>5. ASSUME NEW t \in Tunnels, DialReady(t) PROVE QueueOrder'
  <2>1. Elsewhere(t)
    BY <1>0, <1>5 DEF DialReady, BeginFinish, RelayTypeOK, Elsewhere
  <2>2. \A g \in Gateways : ~ Waits(g, t)
    BY <1>5 DEF DialReady, Waits
  <2>3. BeginFinish(t, "failed") \/ pending' = pending
    BY <1>5 DEF DialReady
  <2> QED
    BY <1>finish, <1>still, <2>1, <2>2, <2>3
<1>6. ASSUME NEW t \in Tunnels, DialLog(t) PROVE QueueOrder'
  <2>1. Elsewhere(t)
    BY <1>0, <1>6 DEF DialLog, BeginFinish, RelayTypeOK, Elsewhere
  <2>2. \A g \in Gateways : ~ Waits(g, t)
    BY <1>6 DEF DialLog, Waits
  <2>3. BeginFinish(t, "failed") \/ pending' = pending
    BY <1>6 DEF DialLog
  <2> QED
    BY <1>finish, <1>still, <2>1, <2>2, <2>3
<1>7. ASSUME NEW t \in Tunnels, Fail(t) PROVE QueueOrder'
  <2>1. Elsewhere(t)
    BY <1>0, <1>7 DEF Fail, BeginFinish, RelayTypeOK, Elsewhere
  <2>2. \A g \in Gateways : ~ Waits(g, t)
    BY <1>7 DEF Fail, Waits
  <2>3. BeginFinish(t, "failed") \/ pending' = pending
    BY <1>7 DEF Fail
  <2> QED
    BY <1>finish, <1>still, <2>1, <2>2, <2>3
<1>8. ASSUME NEW t \in Tunnels, DialOpen(t) PROVE QueueOrder'
  <2>1. Elsewhere(t)
    BY <1>0, <1>8 DEF DialOpen, RelayTypeOK, Elsewhere
  <2>2. (\A g \in Gateways : ~ Waits(g, t)) /\ pending' = pending
    BY <1>8 DEF DialOpen, Waits
  <2> QED
    BY <1>still, <2>1, <2>2
<1>9. ASSUME NEW t \in Tunnels, DialReturn(t) PROVE QueueOrder'
  <2>1. Elsewhere(t)
    BY <1>0, <1>9 DEF DialReturn, RelayTypeOK, Elsewhere
  <2>2. (\A g \in Gateways : ~ Waits(g, t)) /\ pending' = pending
    BY <1>9 DEF DialReturn, Waits
  <2> QED
    BY <1>still, <2>1, <2>2
<1>10. ASSUME NEW t \in Tunnels, FinishClose(t) PROVE QueueOrder'
  <2>1. Elsewhere(t)
    BY <1>0, <1>10 DEF FinishClose, RelayTypeOK, Elsewhere
  <2>2. (\A g \in Gateways : ~ Waits(g, t)) /\ pending' = pending
    BY <1>10 DEF FinishClose, Waits
  <2> QED
    BY <1>still, <2>1, <2>2
<1>11. ASSUME NEW t \in Tunnels, FinishLog(t) PROVE QueueOrder'
  <2>1. Elsewhere(t)
    BY <1>0, <1>11 DEF FinishLog, RelayTypeOK, Elsewhere
  <2>2. (\A g \in Gateways : ~ Waits(g, t)) /\ pending' = pending
    BY <1>11 DEF FinishLog, Waits
  <2> QED
    BY <1>still, <2>1, <2>2
<1>12. ASSUME NEW t \in Tunnels, AgentDial(t) PROVE QueueOrder'
  <2>1. Elsewhere(t)
    BY <1>0, <1>12 DEF AgentDial, managerVars, RelayTypeOK, Elsewhere
  <2>2. (\A g \in Gateways : ~ Waits(g, t)) /\ pending' = pending
    BY <1>12 DEF AgentDial, managerVars, Waits
  <2> QED
    BY <1>still, <2>1, <2>2
<1>13. ASSUME NEW t \in Tunnels, Ready(t) PROVE QueueOrder'
  <2>1. Elsewhere(t)
    BY <1>0, <1>13 DEF Ready, RelayTypeOK, Elsewhere
  <2>2. (\A g \in Gateways : ~ Waits(g, t)) /\ pending' = pending
    BY <1>13 DEF Ready, Waits
  <2> QED
    BY <1>still, <2>1, <2>2
<1>14. ASSUME NEW t \in Tunnels, ReadyReturn(t) PROVE QueueOrder'
  <2>1. Elsewhere(t)
    BY <1>0, <1>14 DEF ReadyReturn, managerVars, RelayTypeOK, Elsewhere
  <2>2. \A g \in Gateways : ~ Waits(g, t)
    BY <1>0, <1>14 DEF ReadyReturn, Waits, DialOrder
  <2>3. pending' = pending
    BY <1>14 DEF ReadyReturn, managerVars
  <2> QED
    BY <1>still, <2>1, <2>2, <2>3
<1>15. ASSUME NEW t \in Tunnels, AgentStreamsOver(t) PROVE QueueOrder'
  <2>1. Elsewhere(t)
    BY <1>0, <1>15 DEF AgentStreamsOver, managerVars, RelayTypeOK, Elsewhere
  <2>2. (\A g \in Gateways : ~ Waits(g, t)) /\ pending' = pending
    BY <1>15 DEF AgentStreamsOver, managerVars, Waits
  <2> QED
    BY <1>still, <2>1, <2>2
<1>16. ASSUME NEW t \in Tunnels, HandlerGone(t) PROVE QueueOrder'
  <2>1. Elsewhere(t)
    BY <1>0, <1>16 DEF HandlerGone, managerVars, RelayTypeOK, Elsewhere
  <2>2. (\A g \in Gateways : ~ Waits(g, t)) /\ pending' = pending
    BY <1>16 DEF HandlerGone, managerVars, Waits
  <2> QED
    BY <1>still, <2>1, <2>2
<1>17. ASSUME NEW t \in Tunnels, NEW d \in Directions, StreamOpen(t, d)
      PROVE  QueueOrder'
  BY <1>0, <1>17 DEF StreamOpen, managerVars, QueueOrder, QueueSound, NoLostWakeup, Closed, RelayTypeOK
<1>18. ASSUME NEW t \in Tunnels, NEW d \in Directions, StreamReturn(t, d)
      PROVE  QueueOrder'
  BY <1>0, <1>18 DEF StreamReturn, managerVars, QueueOrder, QueueSound, NoLostWakeup, Closed, RelayTypeOK
<1>19. ASSUME NEW w \in Workers, ClaimPost(w) PROVE QueueOrder'
  BY <1>0, <1>19 DEF ClaimPost, managerVars, QueueOrder, QueueSound, NoLostWakeup, Closed, RelayTypeOK
<1>20. ASSUME NEW w \in Workers, ClaimTimeout(w) PROVE QueueOrder'
  BY <1>0, <1>20 DEF ClaimTimeout, managerVars, QueueOrder, QueueSound, NoLostWakeup, Closed, RelayTypeOK
<1>21. CASE UNCHANGED relayVars
  BY <1>0, <1>21 DEF relayVars, managerVars, QueueOrder, QueueSound, NoLostWakeup, Closed, RelayTypeOK
<1>22. ASSUME NEW t \in Tunnels, DialBegin(t) PROVE QueueOrder'
  <2>1. NotStarted(t) /\ dialPc[t] = "idle" /\ gateway[t] \in Gateways
    BY <1>0, <1>22 DEF DialBegin, DialOrder, RelayTypeOK
  <2>2. CASE UNCHANGED <<live, pending, worker>>
    <3>1. \A g \in Gateways : ~ Waits(g, t)
      BY <2>1 DEF Waits
    <3>2. Elsewhere(t) /\ pending' = pending
      BY <1>0, <1>22, <2>2 DEF DialBegin, RelayTypeOK, Elsewhere
    <3> QED
      BY <1>still, <3>1, <3>2
  <2>3. CASE Enqueue(t) /\ dialPc' = [dialPc EXCEPT ![t] = "waiting"]
    <3>1. /\ \A g \in Gateways : pending[g] \in Seq(Tunnels)
          /\ \A g \in Gateways : IsInjective(pending[g])
          /\ \A g \in Gateways : \A i \in DOMAIN pending[g] :
               Waits(g, pending[g][i])
      BY <1>0, QueueOrderForm DEF RelayTypeOK
    <3>2. \A g \in Gateways :
            pending'[g] = IF g = gateway[t] THEN Append(pending[g], t)
                                            ELSE pending[g]
      BY <1>0, <2>3 DEF Enqueue, RelayTypeOK
    <3> DEFINE Stays(g, x) ==
          /\ gateway'[x] = g /\ x \in live' /\ finPc'[x] = "none"
          /\ handler'[x] = "none" /\ dialPc'[x] = "waiting"
          /\ ready'[x] = "unset"
    <3>3. Stays(gateway[t], t)
      BY <1>0, <1>22, <2>1, <2>3 DEF Waits, DialBegin, Enqueue, NotStarted, RelayTypeOK
    <3>4. ASSUME NEW g \in Gateways, NEW x \in Tunnels, Waits(g, x)
          PROVE  Stays(g, x) /\ x # t
      <4>1. x # t
        BY <2>1, <3>4 DEF Waits
      <4> QED
        BY <1>0, <1>22, <2>3, <3>4, <4>1
           DEF Waits, DialBegin, Enqueue, RelayTypeOK
    <3>5. ASSUME NEW g \in Gateways
          PROVE  /\ IsInjective(pending'[g])
                 /\ \A i \in DOMAIN pending'[g] : Waits(g, pending[g][i])'
      <4> DEFINE p == pending[g]
      <4>1. p \in Seq(Tunnels) /\ IsInjective(p) /\ Len(p) \in Nat
        BY <3>1
      <4>2. \A i \in DOMAIN p : p[i] \in Tunnels /\ p[i] # t /\ Stays(g, p[i])
        BY <3>1, <3>4
      <4>3. CASE g # gateway[t]
        <5>1. pending'[g] = p
          BY <3>2, <4>3
        <5>2. ASSUME NEW i \in DOMAIN pending'[g]
              PROVE  Waits(g, pending[g][i])'
          <6>1. Stays(g, pending'[g][i])
            BY <4>2, <5>1
          <6> QED
            BY <6>1 DEF Waits
        <5> QED
          BY <4>1, <5>1, <5>2
      <4>4. CASE g = gateway[t]
        <5>1. pending'[g] = Append(p, t)
          BY <3>2, <4>4
        <5> HIDE DEF p
        <5>2. /\ DOMAIN pending'[g] = 1 .. Len(p) + 1
              /\ DOMAIN p = 1 .. Len(p)
              /\ \A i \in 1 .. Len(p) : pending'[g][i] = p[i]
              /\ pending'[g][Len(p) + 1] = t
          BY <4>1, <5>1
        <5>3. \A i, j \in 1 .. Len(p) : p[i] = p[j] => i = j
          BY <4>1, <5>2 DEF IsInjective
        <5>4. ASSUME NEW i \in DOMAIN pending'[g], NEW j \in DOMAIN pending'[g],
                     pending'[g][i] = pending'[g][j]
              PROVE  i = j
          BY <4>1, <4>2, <5>2, <5>3, <5>4
        <5>5. ASSUME NEW i \in DOMAIN pending'[g]
              PROVE  Waits(g, pending[g][i])'
          <6>1. CASE i \in 1 .. Len(p)
            <7>1. Stays(g, pending'[g][i])
              BY <4>2, <5>2, <6>1
            <7> QED
              BY <7>1 DEF Waits
          <6>2. CASE i = Len(p) + 1
            <7>1. Stays(g, pending'[g][i])
              BY <3>3, <4>4, <5>2, <6>2
            <7> QED
              BY <7>1 DEF Waits
          <6> QED
            BY <4>1, <5>2, <6>1, <6>2
        <5>6. IsInjective(pending'[g])
          BY <5>4 DEF IsInjective
        <5> QED
          BY <5>5, <5>6
      <4> QED
        BY <4>3, <4>4
    <3>6. NoLostWakeup'
      <4>1. \A w \in Workers : worker'[w] = "waiting" =>
              worker[w] = "waiting" /\ WorkerGateway[w] # gateway[t]
        BY <2>3 DEF Enqueue
      <4> QED
        BY <1>0, <3>2, <4>1 DEF QueueOrder, NoLostWakeup
    <3>7. (/\ \A g \in Gateways : IsInjective(pending[g])
           /\ \A g \in Gateways : \A i \in DOMAIN pending[g] :
                Waits(g, pending[g][i])
           /\ NoLostWakeup)'
      BY <3>5, <3>6
    <3> QED
      BY <3>7, QueueOrderForm, PTL
  <2> QED
    BY <1>22, <2>2, <2>3 DEF DialBegin
<1>23. ASSUME NEW w \in Workers, ClaimScan(w) PROVE QueueOrder'
  <2> DEFINE g == WorkerGateway[w]
             q == pending[g]
  <2>1. g \in Gateways /\ q \in Seq(Tunnels)
    BY <1>0 DEF RelayTypeOK
  <2>2. /\ \A f \in Gateways : pending[f] \in Seq(Tunnels)
        /\ \A f \in Gateways : IsInjective(pending[f])
        /\ \A f \in Gateways : \A i \in DOMAIN pending[f] :
             Waits(f, pending[f][i])
    BY <1>0, QueueOrderForm DEF RelayTypeOK
  <2>3. CASE OpenAt(q) = {}
    <3>1. /\ pending' = [pending EXCEPT ![g] = << >>]
          /\ worker' = [worker EXCEPT ![w] = "waiting"]
          /\ UNCHANGED <<gateway, finPc, handler, dialPc, ready, live>>
      BY <1>23, <2>3 DEF ClaimScan
    <3>2. q = << >>
      <4>1. \A i \in DOMAIN q : i \in OpenAt(q)
        BY <2>1, <2>2 DEF OpenAt, Waits, Closed
      <4> HIDE DEF q
      <4>2. Len(q) \in Nat /\ DOMAIN q = 1 .. Len(q)
        BY <2>1
      <4>3. DOMAIN q = {}
        BY <2>3, <4>1
      <4>4. ~ (1 \in 1 .. Len(q))
        BY <4>2, <4>3
      <4>5. Len(q) = 0
        BY <4>2, <4>4
      <4> QED
        BY <2>1, <4>5
    <3>3. pending' = pending
      BY <1>0, <2>1, <3>1, <3>2 DEF RelayTypeOK
    <3>4. \A v \in Workers : worker'[v] = "waiting" =>
            worker[v] = "waiting" \/ pending[WorkerGateway[v]] = << >>
      BY <1>0, <3>1, <3>2 DEF RelayTypeOK
    <3>5. NoLostWakeup'
      BY <1>0, <3>3, <3>4 DEF QueueOrder, NoLostWakeup
    <3> QED
      BY <1>0, <3>1, <3>3, <3>5 DEF QueueOrder, QueueSound, Closed
  <2>4. ASSUME NEW i \in OpenAt(q), NEW h,
               pending' = [pending EXCEPT ![g] = SubSeq(q, i + 1, Len(q))],
               worker' = [worker EXCEPT ![w] = "idle"],
               handler' = [handler EXCEPT ![q[i]] = h]
        PROVE  QueueOrder'
    <3>1. i \in 1 .. Len(q) /\ q[i] \in Tunnels /\ Len(q) \in Nat
      BY <2>1 DEF OpenAt
    <3>2. Waits(g, q[i])
      BY <2>1, <2>2, <3>1
    <3>3. \A j, k \in 1 .. Len(q) : q[j] = q[k] => j = k
      BY <2>1, <2>2 DEF IsInjective
    <3> DEFINE r == SubSeq(q, i + 1, Len(q))
    <3>4. /\ r \in Seq(Tunnels) /\ Len(r) = Len(q) - i
          /\ \A j \in 1 .. Len(q) - i : r[j] = q[i + j]
      <4>1. \A j \in i + 1 .. Len(q) : q[j] \in Tunnels
        BY <2>1, <3>1
      <4>2. /\ r \in Seq(Tunnels)
            /\ Len(r) = IF i + 1 <= Len(q) THEN Len(q) - (i + 1) + 1 ELSE 0
            /\ \A j \in 1 .. Len(q) - (i + 1) + 1 : r[j] = q[(i + 1) + j - 1]
        BY <2>1, <3>1, <4>1, SubSeqProperties
      <4> HIDE DEF r, q
      <4> QED
        BY <3>1, <4>2
    <3> HIDE DEF r, q, g
    <3>5. \A f \in Gateways : pending'[f] = IF f = g THEN r ELSE pending[f]
      BY <1>0, <2>4 DEF RelayTypeOK, r
    <3>6. DOMAIN r = 1 .. Len(q) - i
      BY <3>4
    <3>7. /\ IsInjective(r)
          /\ \A j \in DOMAIN r : \E k \in DOMAIN q : r[j] = q[k] /\ q[k] # q[i]
      <4>1. ASSUME NEW j \in DOMAIN r
            PROVE  /\ i + j \in 1 .. Len(q) /\ i + j # i
                   /\ r[j] = q[i + j]
        BY <3>1, <3>4, <3>6
      <4>2. IsInjective(r)
        BY <3>1, <3>3, <3>6, <4>1 DEF IsInjective
      <4>3. \A j \in DOMAIN r : q[i + j] # q[i] /\ i + j \in DOMAIN q
        BY <2>1, <3>1, <3>3, <4>1
      <4> QED
        BY <4>1, <4>2, <4>3
    <3>8. q = << >> => r = << >>
      BY <3>1
    <3>9. \A f \in Gateways \ {g} : \A j \in DOMAIN pending[f] :
            pending[f][j] # q[i]
      BY <2>2, <3>2 DEF Waits
    <3>10. ShrunkBy(q[i])
      <4>1. q = pending[g]
        BY DEF q
      <4> QED
        BY <2>1, <2>2, <3>5, <3>7, <3>8, <3>9, <4>1 DEF ShrunkBy
    <3>11. Elsewhere(q[i])
      BY <1>0, <1>23, <2>4, <3>1 DEF ClaimScan, RelayTypeOK, Elsewhere
    <3> QED
      BY <1>shrink, <3>10, <3>11
  <2> QED
    BY <1>23, <2>3, <2>4 DEF ClaimScan
<1> QED
  BY <1>1, <1>2, <1>3, <1>4, <1>5, <1>6, <1>7, <1>8, <1>9, <1>10, <1>11, <1>12, <1>13, <1>14, <1>15, <1>16, <1>17, <1>18, <1>19, <1>20, <1>21, <1>22, <1>23 DEF RelayNext

-----------------------------------------------------------------------------
(* The initial states satisfy the inductive invariant.                     *)
LEMMA InitRelayIInv == RelayInit => RelayIInv
<1> SUFFICES ASSUME RelayInit PROVE RelayIInv
  OBVIOUS
<1>1. RelayTypeOK
  BY DEF RelayInit, RelayTypeOK
<1>2. ASSUME NEW t \in Tunnels PROVE DialOrder(t)
  BY DEF RelayInit, DialOrder, NotStarted
<1>3. QueueOrder
  BY RelayAssumption DEF RelayInit, QueueOrder, QueueSound, NoLostWakeup, IsInjective
<1> QED
  BY <1>1, <1>2, <1>3 DEF RelayIInv

(* IInv is an invariant of the relay, whatever the sets of tunnels,        *)
(* gateways and workers are: manager.go, client.go, agent_gateways.go.     *)
THEOREM RelayInvariant == RelaySpec => []RelayIInv
<1>1. ASSUME RelayIInv, [RelayNext]_relayVars PROVE RelayIInv'
  <2>1. RelayTypeOK'
    BY <1>1, RelayTypeStep DEF RelayIInv
  <2>2. \A t \in Tunnels : DialOrder(t)'
    BY <1>1, DialOrderStep
  <2>3. QueueOrder'
    BY <1>1, QueueOrderStep
  <2> QED
    BY <2>1, <2>2, <2>3 DEF RelayIInv
<1> QED
  BY <1>1, InitRelayIInv, PTL DEF RelaySpec

(* Every variable of the relay keeps a value the code can give it.         *)
THEOREM RelayTypes == RelaySpec => []RelayTypeOK
<1>1. RelayIInv => RelayTypeOK
  BY DEF RelayIInv
<1> QED
  BY <1>1, RelayInvariant, PTL

(* Dial and finish never write the tunnel's log metadata at the same time. *)
THEOREM RelaySingleLogWriter == RelaySpec => []SingleLogWriter
<1>1. RelayIInv => SingleLogWriter
  BY DEF RelayIInv, DialOrder, SingleLogWriter
<1> QED
  BY <1>1, RelayInvariant, PTL

(* The status finish writes to the operation log is the last one.          *)
THEOREM RelayFinalLogStands == RelaySpec => []FinalLogStands
<1>1. RelayIInv => FinalLogStands
  BY DEF RelayIInv, DialOrder, FinalLogStands
<1> QED
  BY <1>1, RelayInvariant, PTL

(* Dials that failed and connections that were closed leave no entry in    *)
(* the Manager's maps.                                                     *)
THEOREM RelayNoResidue == RelaySpec => []NoResidue
<1>1. ASSUME RelayIInv, NEW t \in Tunnels, dialPc[t] \in {"refused", "failed", "released"}
      PROVE  t \notin live /\ ~Queued(t)
  <2>1. t \notin live
    BY <1>1 DEF RelayIInv, DialOrder, NotStarted
  <2>2. ASSUME NEW g \in Gateways, t \in Range(pending[g]) PROVE FALSE
    <3>1. PICK i \in DOMAIN pending[g] : pending[g][i] = t
      BY <2>2 DEF Range
    <3> QED
      BY <1>1, <2>1, <3>1 DEF RelayIInv, QueueOrder, QueueSound
  <2> QED
    BY <2>1, <2>2 DEF Queued
<1>2. RelayIInv => NoResidue
  BY <1>1 DEF NoResidue
<1> QED
  BY <1>2, RelayInvariant, PTL

(* A tunnel is handed to one worker of its own gateway, and only while its *)
(* dial waits for it.                                                      *)
THEOREM RelayQueueSound == RelaySpec => []QueueSound
<1>1. RelayIInv => QueueSound
  BY DEF RelayIInv, QueueOrder
<1> QED
  BY <1>1, RelayInvariant, PTL

(* Claim never sleeps through an enqueue.                                  *)
THEOREM RelayNoLostWakeup == RelaySpec => []NoLostWakeup
<1>1. RelayIInv => NoLostWakeup
  BY DEF RelayIInv, QueueOrder
<1> QED
  BY <1>1, RelayInvariant, PTL

(* Streams run only on tunnels that were announced ready and logged as     *)
(* connected.                                                              *)
THEOREM RelayHandshakeOrder == RelaySpec => []HandshakeOrder
<1>1. RelayIInv => HandshakeOrder
  BY DEF RelayIInv, DialOrder, HandshakeOrder
<1> QED
  BY <1>1, RelayInvariant, PTL
=============================================================================

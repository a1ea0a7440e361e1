------------------------------ MODULE ServersProofs ------------------------------
(***************************************************************************)
(* Proofs about Servers, for every limit of restarts and every number of   *)
(* orders and faults.  Each theorem is one invariant, preserved action by  *)
(* action; the actions that touch none of its variables come last, in one  *)
(* step.  ProcessKnown carries the others.                                 *)
(***************************************************************************)
EXTENDS Servers, TLAPS

(* Two parts of TypeOK that the provers take one at a time.                *)
Counters ==
    /\ crashes \in 0..CrashLoopMax /\ autos \in Nat
    /\ orders \in 0..MaxOrders /\ faults \in 0..MaxFaults

Flags ==
    /\ onDisk \in BOOLEAN /\ up \in BOOLEAN
    /\ announced \in BOOLEAN /\ searching \in BOOLEAN
    /\ desired \in BOOLEAN /\ listed \in BOOLEAN
    /\ timer \in BOOLEAN /\ touched \in BOOLEAN

-----------------------------------------------------------------------------
(* Every variable keeps its type in every reachable state.                  *)
THEOREM TypeCorrect == Spec => []TypeOK
<1>1. Init => TypeOK
  <2> SUFFICES ASSUME Init PROVE TypeOK
    OBVIOUS
  <2>1. Counters
    BY ServersAssumption DEF Init, Counters
  <2>2. Flags
    BY DEF Init, Flags
  <2> QED
    BY <2>1, <2>2 DEF Init, Counters, Flags, TypeOK, Processes, RunStates, Running
<1>2. TypeOK /\ [Next]_vars => TypeOK'
  <2> SUFFICES ASSUME TypeOK, [Next]_vars
               PROVE  TypeOK'
    OBVIOUS
  <2>1. CASE StartOrder
    <3>1. Counters'
      BY <2>1, ServersAssumption DEF Counters, TypeOK, StartOrder, Cancel,
         Ordered
    <3>2. Flags'
      BY <2>1 DEF Flags, TypeOK, StartOrder, Cancel, osVars, exitVars
    <3> QED
      BY <2>1, <3>1, <3>2 DEF Counters, Flags, TypeOK, Processes,
         RunStates, Running, IsRunning, StartOrder, BeginStart, osVars,
         exitVars
  <2>2. CASE Connect
    BY <2>2, ServersAssumption DEF Connect, Fault, TypeOK, Processes,
       RunStates, Running, IsRunning, osVars, exitVars, dogVars, histVars
  <2>3. CASE StartOnConnect
    <3>1. Counters'
      BY <2>3, ServersAssumption DEF Counters, TypeOK, StartOnConnect,
         Cancel, Internal
    <3>2. Flags'
      BY <2>3 DEF Flags, TypeOK, StartOnConnect, Cancel, osVars, exitVars
    <3> QED
      BY <2>3, <3>1, <3>2 DEF Counters, Flags, TypeOK, Processes,
         RunStates, Running, IsRunning, StartOnConnect, BeginStart, osVars,
         exitVars
  <2>4. CASE StartFails
    BY <2>4, ServersAssumption DEF StartFails, Internal, TypeOK, Processes,
       RunStates, Running, IsRunning, osVars, exitVars, dogVars, histVars
  <2>5. CASE Spawn
    <3>1. Counters'
      BY <2>5, ServersAssumption DEF Counters, TypeOK, Spawn, Internal,
         dogVars, histVars
    <3>2. Flags'
      BY <2>5 DEF Flags, TypeOK, Spawn, dogVars, histVars
    <3> QED
      BY <2>5, <3>1, <3>2 DEF Counters, Flags, TypeOK, Processes,
         RunStates, Running, IsRunning, Spawn, histVars
  <2>6. CASE Persist
    BY <2>6, ServersAssumption DEF Persist, Internal, TypeOK, Processes,
       RunStates, Running, IsRunning, histVars, agentVars, exitVars, callVars,
       dogVars
  <2>7. CASE Listen
    BY <2>7, ServersAssumption DEF Listen, Internal, TypeOK, Processes,
       RunStates, Running, IsRunning, histVars, agentVars, exitVars, callVars,
       dogVars
  <2>8. CASE MarkRunning
    BY <2>8, ServersAssumption DEF MarkRunning, Internal, TypeOK,
       Processes, RunStates, Running, IsRunning, osVars, callVars, dogVars,
       histVars
  <2>9. ASSUME NEW force \in BOOLEAN, StopOrder(force) PROVE TypeOK'
    <3>1. Counters'
      BY <2>9, ServersAssumption DEF Counters, TypeOK, StopOrder, Cancel,
         Ordered, Quiet, InCharge
    <3>2. Flags'
      BY <2>9 DEF Flags, TypeOK, StopOrder, Cancel, Quiet, InCharge
    <3> QED
      BY <2>9, <3>1, <3>2 DEF Counters, Flags, TypeOK, Processes,
         RunStates, Running, IsRunning, StopOrder, Held, Stop, Quiet,
         InCharge, BeginStop, Tell
  <2>10. CASE KillOrder
    <3>1. Counters'
      BY <2>10, ServersAssumption DEF Counters, TypeOK, KillOrder, Cancel,
         Ordered, Quiet
    <3>2. Flags'
      BY <2>10 DEF Flags, TypeOK, KillOrder, Cancel, Quiet
    <3> QED
      BY <2>10, <3>1, <3>2 DEF Counters, Flags, TypeOK, Processes,
         RunStates, Running, IsRunning, KillOrder, Held, Kill, Quiet, Tell
  <2>11. CASE RestartOrder
    <3>1. Counters'
      BY <2>11, ServersAssumption DEF Counters, TypeOK, RestartOrder,
         Cancel, Ordered, InCharge
    <3>2. Flags'
      BY <2>11 DEF Flags, TypeOK, RestartOrder, Cancel, InCharge
    <3> QED
      BY <2>11, <3>1, <3>2 DEF Counters, Flags, TypeOK, Processes,
         RunStates, Running, IsRunning, RestartOrder, BeginStart, Stop,
         InCharge, BeginStop, Tell
  <2>12. CASE RestartGivesUp
    BY <2>12, ServersAssumption DEF RestartGivesUp, Internal, TypeOK,
       Processes, RunStates, Running, IsRunning, osVars, exitVars, dogVars,
       histVars
  <2>13. CASE StopTimeout
    BY <2>13, ServersAssumption DEF StopTimeout, Internal, Tell, TypeOK,
       Processes, RunStates, Running, IsRunning, dogVars, histVars
  <2>14. CASE TermTimeout
    BY <2>14, ServersAssumption DEF TermTimeout, Internal, Tell, TypeOK,
       Processes, RunStates, Running, IsRunning, exitVars, dogVars, histVars
  <2>15. CASE PlayerStop
    BY <2>15, ServersAssumption DEF PlayerStop, Ordered, TypeOK, Processes,
       RunStates, Running, IsRunning, histVars, agentVars, exitVars, callVars,
       dogVars
  <2>16. CASE Obey
    BY <2>16, ServersAssumption DEF Obey, Internal, Gone, TypeOK,
       Processes, RunStates, Running, IsRunning, callVars, dogVars, histVars
  <2>17. CASE Die
    BY <2>17, ServersAssumption DEF Die, Internal, Gone, TypeOK, Processes,
       RunStates, Running, IsRunning, histVars, agentVars, exitVars, callVars,
       dogVars
  <2>18. CASE Crash
    <3>1. Counters'
      BY <2>18, ServersAssumption DEF Counters, TypeOK, Crash, Fault,
         dogVars, histVars
    <3>2. Flags'
      BY <2>18 DEF Flags, TypeOK, Crash, Gone, callVars, dogVars, histVars
    <3> QED
      BY <2>18, <3>1, <3>2 DEF Counters, Flags, TypeOK, Processes,
         RunStates, Running, IsRunning, Crash, Gone, callVars, histVars
  <2>19. CASE Hang
    BY <2>19, ServersAssumption DEF Hang, Fault, TypeOK, Processes,
       RunStates, Running, IsRunning, histVars, agentVars, exitVars, callVars,
       dogVars
  <2>20. CASE LostEnds
    BY <2>20, ServersAssumption DEF LostEnds, Internal, TypeOK, Processes,
       RunStates, Running, IsRunning, histVars, agentVars, exitVars, callVars,
       dogVars
  <2>21. CASE NoticeExit
    <3>1. Counters'
      BY <2>21, ServersAssumption DEF Counters, TypeOK, NoticeExit,
         Internal, Finish, Watch, dogVars, histVars
    <3>2. Flags'
      BY <2>21 DEF Flags, TypeOK, NoticeExit, Finish, Watch, osVars,
         dogVars, histVars
    <3> QED
      BY <2>21, <3>1, <3>2 DEF Counters, Flags, TypeOK, Processes,
         RunStates, Running, IsRunning, NoticeExit, Finish, osVars, histVars
  <2>22. CASE Reported
    <3>1. Counters'
      BY <2>22, ServersAssumption DEF Counters, TypeOK, Reported, Internal,
         Finish, Watch, histVars
    <3>2. Flags'
      BY <2>22 DEF Flags, TypeOK, Reported, Finish, Watch, osVars, histVars
    <3> QED
      BY <2>22, <3>1, <3>2 DEF Counters, Flags, TypeOK, Processes,
         RunStates, Running, IsRunning, Reported, Finish, osVars, histVars
  <2>23. CASE TimerFires
    <3>1. Counters'
      BY <2>23, ServersAssumption DEF Counters, TypeOK, TimerFires,
         Internal
    <3>2. Flags'
      BY <2>23 DEF Flags, TypeOK, TimerFires, osVars, exitVars
    <3> QED
      BY <2>23, <3>1, <3>2 DEF Counters, Flags, TypeOK, Processes,
         RunStates, Running, IsRunning, TimerFires, BeginStart, osVars,
         exitVars
  <2>24. CASE Expire
    BY <2>24, ServersAssumption DEF Expire, Fault, TypeOK, Processes,
       RunStates, Running, IsRunning, osVars, exitVars, callVars
  <2>25. CASE FreezeKill
    BY <2>25, ServersAssumption DEF FreezeKill, Internal, Kill, Tell,
       TypeOK, Processes, RunStates, Running, IsRunning, callVars, dogVars,
       histVars
  <2>26. CASE RestoreOrder
    <3>1. Counters'
      BY <2>26, ServersAssumption DEF Counters, TypeOK, RestoreOrder,
         Cancel, Ordered
    <3>2. Flags'
      BY <2>26 DEF Flags, TypeOK, RestoreOrder, Cancel, osVars, exitVars
    <3> QED
      BY <2>26, <3>1, <3>2 DEF Counters, Flags, TypeOK, Processes,
         RunStates, Running, IsRunning, RestoreOrder, osVars, exitVars
  <2>27. CASE RestoreStop
    BY <2>27, ServersAssumption DEF RestoreStop, Internal, Quiet, Stop,
       InCharge, BeginStop, Tell, TypeOK, Processes, RunStates, Running,
       IsRunning, dogVars
  <2>28. CASE RestoreGivesUp
    BY <2>28, ServersAssumption DEF RestoreGivesUp, Internal, TypeOK,
       Processes, RunStates, Running, IsRunning, osVars, exitVars, dogVars
  <2>29. CASE RestoreEnds
    BY <2>29, ServersAssumption DEF RestoreEnds, BeginStart, Internal,
       TypeOK, Processes, RunStates, Running, IsRunning, osVars, exitVars,
       dogVars
  <2>30. CASE AgentCrash
    <3>1. Counters'
      BY <2>30, ServersAssumption DEF Counters, TypeOK, AgentCrash, Fault
    <3>2. Flags'
      BY <2>30 DEF Flags, TypeOK, AgentCrash
    <3> QED
      BY <2>30, <3>1, <3>2 DEF Counters, Flags, TypeOK, Processes,
         RunStates, Running, IsRunning, AgentCrash
  <2>31. CASE AgentBoot
    <3>1. Counters'
      BY <2>31, ServersAssumption DEF Counters, TypeOK, AgentBoot,
         Internal, dogVars
    <3>2. Flags'
      BY <2>31 DEF Flags, TypeOK, AgentBoot, dogVars
    <3> QED
      BY <2>31, <3>1, <3>2 DEF Counters, Flags, TypeOK, Processes,
         RunStates, Running, IsRunning, AgentBoot
  <2>32. CASE UNCHANGED vars
    BY <2>32 DEF vars, TypeOK, Processes, RunStates, Running, IsRunning,
       osVars, exitVars, callVars, dogVars, histVars, agentVars
  <2> QED
    BY <2>1, <2>2, <2>3, <2>4, <2>5, <2>6, <2>7, <2>8, <2>9, <2>10, <2>11,
       <2>12, <2>13, <2>14, <2>15, <2>16, <2>17, <2>18, <2>19, <2>20, <2>21,
       <2>22, <2>23, <2>24, <2>25, <2>26, <2>27, <2>28, <2>29, <2>30, <2>31,
       <2>32 DEF Next
<1> QED
  BY <1>1, <1>2, PTL DEF Spec

(* A start is under way at rest only, and a crash is told of a dead process;*)
(* what a dead agent leaves behind is the recorded process.                 *)
THEOREM ProcessKnownHolds == Spec => []ProcessKnown
<1>1. Init => ProcessKnown
  BY DEF Init, ProcessKnown, AtRestIsDead, IsRunning, Running
<1>2. ProcessKnown /\ [Next]_vars => ProcessKnown'
  <2> SUFFICES ASSUME ProcessKnown, [Next]_vars
               PROVE  ProcessKnown'
    OBVIOUS
  <2>1. CASE StartOrder
    BY <2>1 DEF StartOrder, BeginStart, Cancel, ProcessKnown, AtRestIsDead,
       IsRunning, Running, osVars, exitVars
  <2>2. CASE Connect
    BY <2>2 DEF Connect, ProcessKnown, AtRestIsDead, IsRunning, Running,
       osVars, exitVars, dogVars
  <2>3. CASE StartOnConnect
    BY <2>3 DEF StartOnConnect, BeginStart, Cancel, ProcessKnown,
       AtRestIsDead, IsRunning, Running, osVars, exitVars
  <2>4. CASE StartFails
    BY <2>4 DEF StartFails, ProcessKnown, AtRestIsDead, IsRunning, Running,
       osVars, exitVars, dogVars
  <2>5. CASE Spawn
    BY <2>5 DEF Spawn, ProcessKnown, AtRestIsDead, IsRunning, Running,
       dogVars
  <2>6. CASE Persist
    BY <2>6 DEF Persist, ProcessKnown, AtRestIsDead, IsRunning, Running,
       agentVars, exitVars, callVars, dogVars
  <2>7. CASE Listen
    BY <2>7 DEF Listen, ProcessKnown, AtRestIsDead, IsRunning, Running,
       agentVars, exitVars, callVars, dogVars
  <2>8. CASE MarkRunning
    BY <2>8 DEF MarkRunning, ProcessKnown, AtRestIsDead, IsRunning,
       Running, osVars, callVars, dogVars
  <2>9. ASSUME NEW force \in BOOLEAN, StopOrder(force) PROVE ProcessKnown'
    BY <2>9 DEF StopOrder, Cancel, Stop, Quiet, InCharge, BeginStop,
       ProcessKnown, AtRestIsDead, IsRunning, Running
  <2>10. CASE KillOrder
    BY <2>10 DEF KillOrder, Cancel, Kill, Quiet, ProcessKnown,
       AtRestIsDead, IsRunning, Running
  <2>11. CASE RestartOrder
    BY <2>11 DEF RestartOrder, BeginStart, Cancel, Stop, InCharge,
       BeginStop, ProcessKnown, AtRestIsDead, IsRunning, Running
  <2>12. CASE RestartGivesUp
    BY <2>12 DEF RestartGivesUp, ProcessKnown, AtRestIsDead, IsRunning,
       Running, osVars, exitVars, dogVars
  <2>13. CASE Obey
    BY <2>13 DEF Obey, Gone, ProcessKnown, AtRestIsDead, IsRunning,
       Running, callVars, dogVars
  <2>14. CASE Die
    BY <2>14 DEF Die, Gone, ProcessKnown, AtRestIsDead, IsRunning, Running,
       agentVars, exitVars, callVars, dogVars
  <2>15. CASE Crash
    BY <2>15 DEF Crash, Gone, ProcessKnown, AtRestIsDead, IsRunning,
       Running, callVars, dogVars
  <2>16. CASE Hang
    BY <2>16 DEF Hang, ProcessKnown, AtRestIsDead, IsRunning, Running,
       agentVars, exitVars, callVars, dogVars
  <2>17. CASE NoticeExit
    BY <2>17 DEF NoticeExit, Finish, Watch, ProcessKnown, AtRestIsDead,
       IsRunning, Running, osVars, dogVars
  <2>18. CASE Reported
    BY <2>18 DEF Reported, Finish, Watch, ProcessKnown, AtRestIsDead,
       IsRunning, Running, osVars
  <2>19. CASE TimerFires
    BY <2>19 DEF TimerFires, BeginStart, ProcessKnown, AtRestIsDead,
       IsRunning, Running, osVars, exitVars
  <2>20. CASE FreezeKill
    BY <2>20 DEF FreezeKill, Kill, ProcessKnown, AtRestIsDead, IsRunning,
       Running, callVars, dogVars
  <2>21. CASE RestoreOrder
    BY <2>21 DEF RestoreOrder, Cancel, ProcessKnown, AtRestIsDead,
       IsRunning, Running, osVars, exitVars
  <2>22. CASE RestoreStop
    BY <2>22 DEF RestoreStop, Quiet, Stop, InCharge, BeginStop,
       ProcessKnown, AtRestIsDead, IsRunning, Running, dogVars
  <2>23. CASE RestoreGivesUp
    BY <2>23 DEF RestoreGivesUp, ProcessKnown, AtRestIsDead, IsRunning,
       Running, osVars, exitVars, dogVars
  <2>24. CASE RestoreEnds
    BY <2>24 DEF RestoreEnds, BeginStart, ProcessKnown, AtRestIsDead,
       IsRunning, Running, osVars, exitVars, dogVars
  <2>25. CASE AgentCrash
    BY <2>25 DEF AgentCrash, ProcessKnown, AtRestIsDead, IsRunning, Running
  <2>26. CASE AgentBoot
    BY <2>26 DEF AgentBoot, ProcessKnown, AtRestIsDead, IsRunning, Running,
       dogVars
  <2>27. CASE StopTimeout \/ TermTimeout \/ PlayerStop \/ LostEnds \/ Expire
    BY <2>27 DEF StopTimeout, TermTimeout, PlayerStop, LostEnds, Expire,
       ProcessKnown, AtRestIsDead, IsRunning, Running, dogVars, exitVars,
       agentVars, callVars, osVars
  <2>28. CASE UNCHANGED vars
    BY <2>28 DEF vars, ProcessKnown, AtRestIsDead, IsRunning, Running,
       osVars, exitVars, callVars, dogVars, agentVars
  <2> QED
    BY <2>1, <2>2, <2>3, <2>4, <2>5, <2>6, <2>7, <2>8, <2>9, <2>10, <2>11,
       <2>12, <2>13, <2>14, <2>15, <2>16, <2>17, <2>18, <2>19, <2>20, <2>21,
       <2>22, <2>23, <2>24, <2>25, <2>26, <2>27, <2>28 DEF Next
<1> QED
  BY <1>1, <1>2, PTL DEF Spec

(* A server at rest for its agent has no process the agent could know.     *)
THEOREM AtRestIsDeadHolds == Spec => []AtRestIsDead
<1>1. ProcessKnown => AtRestIsDead
  BY DEF ProcessKnown
<1> QED
  BY <1>1, ProcessKnownHolds, PTL

-----------------------------------------------------------------------------
(* No start, no restart and no restoration is left under a quiet stop.      *)
THEOREM HeldDownHolds == Spec => []HeldDown
<1>1. Init => HeldDown
  BY DEF Init, HeldDown, IsRunning, Running
<1>2. TypeOK /\ HeldDown /\ [Next]_vars => HeldDown'
  <2> SUFFICES ASSUME TypeOK, HeldDown, [Next]_vars
               PROVE  HeldDown'
    OBVIOUS
  <2>1. CASE StartOrder
    BY <2>1 DEF StartOrder, BeginStart, Cancel, HeldDown, IsRunning,
       Running, osVars, exitVars
  <2>2. CASE Connect
    BY <2>2 DEF Connect, HeldDown, IsRunning, Running, osVars, exitVars,
       dogVars, histVars
  <2>3. CASE StartOnConnect
    BY <2>3 DEF StartOnConnect, BeginStart, Cancel, HeldDown, IsRunning,
       Running, osVars, exitVars
  <2>4. CASE StartFails
    BY <2>4 DEF StartFails, HeldDown, IsRunning, Running, osVars, exitVars,
       dogVars, histVars
  <2>5. CASE Spawn
    BY <2>5 DEF Spawn, HeldDown, IsRunning, Running, dogVars, histVars
  <2>6. CASE Listen
    BY <2>6 DEF Listen, HeldDown, IsRunning, Running, histVars, agentVars,
       exitVars, callVars, dogVars
  <2>7. CASE MarkRunning
    BY <2>7 DEF MarkRunning, HeldDown, IsRunning, Running, osVars,
       callVars, dogVars, histVars
  <2>8. ASSUME NEW force \in BOOLEAN, StopOrder(force) PROVE HeldDown'
    BY <2>8 DEF StopOrder, Cancel, Held, Stop, Quiet, InCharge, BeginStop,
       HeldDown, IsRunning, Running, TypeOK
  <2>9. CASE KillOrder
    BY <2>9 DEF KillOrder, Cancel, Held, Kill, Quiet, HeldDown, IsRunning,
       Running, TypeOK
  <2>10. CASE RestartOrder
    BY <2>10 DEF RestartOrder, BeginStart, Cancel, Stop, InCharge,
       BeginStop, HeldDown, IsRunning, Running
  <2>11. CASE RestartGivesUp
    BY <2>11 DEF RestartGivesUp, HeldDown, IsRunning, Running, osVars,
       exitVars, dogVars, histVars
  <2>12. CASE StopTimeout
    BY <2>12 DEF StopTimeout, HeldDown, IsRunning, Running, dogVars,
       histVars
  <2>13. CASE Obey
    BY <2>13 DEF Obey, Gone, HeldDown, IsRunning, Running, callVars,
       dogVars, histVars
  <2>14. CASE Die
    BY <2>14 DEF Die, Gone, HeldDown, IsRunning, Running, histVars,
       agentVars, exitVars, callVars, dogVars
  <2>15. CASE Crash
    BY <2>15 DEF Crash, Gone, HeldDown, IsRunning, Running, callVars,
       dogVars, histVars
  <2>16. CASE Hang
    BY <2>16 DEF Hang, HeldDown, IsRunning, Running, histVars, agentVars,
       exitVars, callVars, dogVars
  <2>17. CASE NoticeExit
    BY <2>17 DEF NoticeExit, Finish, Watch, HeldDown, IsRunning, Running,
       osVars, dogVars, histVars
  <2>18. CASE Reported
    BY <2>18 DEF Reported, Finish, Watch, HeldDown, IsRunning, Running,
       osVars, histVars
  <2>19. CASE TimerFires
    BY <2>19 DEF TimerFires, BeginStart, HeldDown, IsRunning, Running,
       osVars, exitVars
  <2>20. CASE FreezeKill
    BY <2>20 DEF FreezeKill, Kill, HeldDown, IsRunning, Running, callVars,
       dogVars, histVars
  <2>21. CASE RestoreOrder
    BY <2>21 DEF RestoreOrder, Cancel, HeldDown, IsRunning, Running,
       osVars, exitVars
  <2>22. CASE RestoreStop
    BY <2>22 DEF RestoreStop, Quiet, Stop, InCharge, BeginStop, HeldDown,
       IsRunning, Running, dogVars
  <2>23. CASE RestoreGivesUp
    BY <2>23 DEF RestoreGivesUp, HeldDown, IsRunning, Running, osVars,
       exitVars, dogVars
  <2>24. CASE RestoreEnds
    BY <2>24 DEF RestoreEnds, BeginStart, HeldDown, IsRunning, Running,
       osVars, exitVars, dogVars
  <2>25. CASE AgentCrash
    BY <2>25 DEF AgentCrash, HeldDown, IsRunning, Running
  <2>26. CASE AgentBoot
    BY <2>26 DEF AgentBoot, HeldDown, IsRunning, Running, dogVars
  <2>27. CASE Persist \/ TermTimeout \/ PlayerStop \/ LostEnds \/ Expire
    BY <2>27 DEF Persist, TermTimeout, PlayerStop, LostEnds, Expire,
       HeldDown, IsRunning, Running, histVars, agentVars, exitVars, callVars,
       dogVars, osVars
  <2>28. CASE UNCHANGED vars
    BY <2>28 DEF vars, HeldDown, IsRunning, Running, osVars, exitVars,
       callVars, dogVars, histVars, agentVars
  <2> QED
    BY <2>1, <2>2, <2>3, <2>4, <2>5, <2>6, <2>7, <2>8, <2>9, <2>10, <2>11,
       <2>12, <2>13, <2>14, <2>15, <2>16, <2>17, <2>18, <2>19, <2>20, <2>21,
       <2>22, <2>23, <2>24, <2>25, <2>26, <2>27, <2>28 DEF Next
<1> QED
  BY <1>1, <1>2, TypeCorrect, PTL DEF Spec

(* A server stopped or killed while nothing else was under way stays down. *)
THEOREM HeldStaysDownHolds == Spec => []HeldStaysDown
<1>1. HeldDown => HeldStaysDown
  BY DEF HeldDown, HeldStaysDown
<1> QED
  BY <1>1, HeldDownHolds, PTL

-----------------------------------------------------------------------------
(* Each restart by the watchdog but one has a crash counted for it.         *)
THEOREM RestartsCountedHolds == Spec => []RestartsCounted
<1>1. Init => RestartsCounted
  BY ServersAssumption DEF Init, RestartsCounted, Due, IsRunning, Running
<1>2. TypeOK /\ ProcessKnown /\ RestartsCounted /\ [Next]_vars => RestartsCounted'
  <2> SUFFICES ASSUME TypeOK, ProcessKnown, RestartsCounted, [Next]_vars
               PROVE  RestartsCounted'
    OBVIOUS
  <2>1. CASE StartOrder
    BY <2>1, ServersAssumption DEF StartOrder, BeginStart, Cancel,
       RestartsCounted, Due, IsRunning, Running, exitVars
  <2>2. CASE StartOnConnect
    BY <2>2, ServersAssumption DEF StartOnConnect, BeginStart, Cancel,
       RestartsCounted, Due, IsRunning, Running, exitVars
  <2>3. CASE StartFails
    BY <2>3, ServersAssumption DEF StartFails, RestartsCounted, Due,
       IsRunning, Running, exitVars, dogVars, histVars
  <2>4. CASE Spawn
    BY <2>4, ServersAssumption DEF Spawn, RestartsCounted, Due, IsRunning,
       Running, dogVars, histVars
  <2>5. CASE MarkRunning
    BY <2>5, ServersAssumption DEF MarkRunning, RestartsCounted, Due,
       IsRunning, Running, callVars, dogVars, histVars
  <2>6. ASSUME NEW force \in BOOLEAN, StopOrder(force) PROVE RestartsCounted'
    BY <2>6, ServersAssumption DEF StopOrder, Cancel, Stop, Quiet,
       InCharge, BeginStop, RestartsCounted, Due, IsRunning, Running
  <2>7. CASE KillOrder
    BY <2>7, ServersAssumption DEF KillOrder, Cancel, Kill, Quiet,
       RestartsCounted, Due, IsRunning, Running
  <2>8. CASE RestartOrder
    BY <2>8, ServersAssumption DEF RestartOrder, BeginStart, Cancel, Stop,
       InCharge, BeginStop, RestartsCounted, Due, IsRunning, Running
  <2>9. CASE RestartGivesUp
    BY <2>9, ServersAssumption DEF RestartGivesUp, RestartsCounted, Due,
       IsRunning, Running, exitVars, dogVars, histVars
  <2>10. CASE NoticeExit
    BY <2>10, ServersAssumption DEF NoticeExit, Finish, Watch,
       RestartsCounted, Due, IsRunning, Running, TypeOK, ProcessKnown,
       dogVars, histVars
  <2>11. CASE Reported
    BY <2>11, ServersAssumption DEF Reported, Finish, Watch,
       RestartsCounted, Due, IsRunning, Running, TypeOK, ProcessKnown,
       histVars
  <2>12. CASE TimerFires
    BY <2>12, ServersAssumption DEF TimerFires, BeginStart,
       RestartsCounted, Due, IsRunning, Running, TypeOK, exitVars
  <2>13. CASE Expire
    BY <2>13, ServersAssumption DEF Expire, RestartsCounted, Due,
       IsRunning, Running, TypeOK, exitVars, callVars
  <2>14. CASE FreezeKill
    BY <2>14, ServersAssumption DEF FreezeKill, Kill, RestartsCounted, Due,
       IsRunning, Running, callVars, dogVars, histVars
  <2>15. CASE RestoreOrder
    BY <2>15, ServersAssumption DEF RestoreOrder, Cancel, RestartsCounted,
       Due, IsRunning, Running, exitVars
  <2>16. CASE RestoreStop
    BY <2>16, ServersAssumption DEF RestoreStop, Quiet, Stop, InCharge,
       BeginStop, RestartsCounted, Due, IsRunning, Running, dogVars
  <2>17. CASE RestoreEnds
    BY <2>17, ServersAssumption DEF RestoreEnds, BeginStart,
       RestartsCounted, Due, IsRunning, Running, TypeOK, exitVars, dogVars
  <2>18. CASE AgentCrash
    BY <2>18, ServersAssumption DEF AgentCrash, RestartsCounted, Due,
       IsRunning, Running, TypeOK
  <2>19. CASE AgentBoot
    BY <2>19, ServersAssumption DEF AgentBoot, RestartsCounted, Due,
       IsRunning, Running, TypeOK, ProcessKnown, dogVars
  <2>20. CASE Connect \/ Persist \/ Listen \/ StopTimeout \/ TermTimeout \/
         PlayerStop \/ Obey \/ Die \/ Crash \/ Hang \/ LostEnds \/
         RestoreGivesUp
    BY <2>20 DEF Connect, Persist, Listen, StopTimeout, TermTimeout,
       PlayerStop, Obey, Die, Crash, Hang, LostEnds, RestoreGivesUp,
       RestartsCounted, Due, IsRunning, Running, exitVars, dogVars, histVars,
       agentVars, callVars
  <2>21. CASE UNCHANGED vars
    BY <2>21 DEF vars, RestartsCounted, Due, IsRunning, Running, exitVars,
       callVars, dogVars, histVars, agentVars
  <2> QED
    BY <2>1, <2>2, <2>3, <2>4, <2>5, <2>6, <2>7, <2>8, <2>9, <2>10, <2>11,
       <2>12, <2>13, <2>14, <2>15, <2>16, <2>17, <2>18, <2>19, <2>20, <2>21
       DEF Next
<1> QED
  BY <1>1, <1>2, TypeCorrect, ProcessKnownHolds, PTL DEF Spec

(* The watchdog restarts a server at most once more than crashLoopMax.     *)
THEOREM AutoRestartsBoundedHolds == Spec => []AutoRestartsBounded
<1>1. TypeOK /\ RestartsCounted => AutoRestartsBounded
  BY ServersAssumption DEF TypeOK, RestartsCounted, Due, AutoRestartsBounded
<1> QED
  BY <1>1, TypeCorrect, RestartsCountedHolds, PTL

-----------------------------------------------------------------------------
(* An undisturbed restoration waits for the end of a stop, and nothing else *)
(* is under way.                                                            *)
THEOREM RestoreAloneHolds == Spec => []RestoreAlone
<1>1. Init => RestoreAlone
  BY DEF Init, RestoreAlone, IsRunning, Running
<1>2. TypeOK /\ ProcessKnown /\ RestoreAlone /\ [Next]_vars => RestoreAlone'
  <2> SUFFICES ASSUME TypeOK, ProcessKnown, RestoreAlone, [Next]_vars
               PROVE  RestoreAlone'
    OBVIOUS
  <2>1. CASE StartOrder
    BY <2>1 DEF StartOrder, BeginStart, Cancel, RestoreAlone, IsRunning,
       Running, exitVars
  <2>2. CASE StartOnConnect
    BY <2>2 DEF StartOnConnect, BeginStart, Cancel, RestoreAlone,
       IsRunning, Running, exitVars
  <2>3. CASE StartFails
    BY <2>3 DEF StartFails, RestoreAlone, IsRunning, Running, exitVars,
       dogVars, histVars
  <2>4. CASE Spawn
    BY <2>4 DEF Spawn, RestoreAlone, IsRunning, Running, dogVars, histVars
  <2>5. CASE MarkRunning
    BY <2>5 DEF MarkRunning, RestoreAlone, IsRunning, Running, callVars,
       dogVars, histVars
  <2>6. ASSUME NEW force \in BOOLEAN, StopOrder(force) PROVE RestoreAlone'
    BY <2>6 DEF StopOrder, Cancel, Stop, Quiet, InCharge, BeginStop,
       RestoreAlone, IsRunning, Running
  <2>7. CASE KillOrder
    BY <2>7 DEF KillOrder, Cancel, Kill, Quiet, RestoreAlone, IsRunning,
       Running
  <2>8. CASE RestartOrder
    BY <2>8 DEF RestartOrder, BeginStart, Cancel, Stop, InCharge,
       BeginStop, RestoreAlone, IsRunning, Running
  <2>9. CASE RestartGivesUp
    BY <2>9 DEF RestartGivesUp, RestoreAlone, IsRunning, Running, exitVars,
       dogVars, histVars
  <2>10. CASE StopTimeout
    BY <2>10 DEF StopTimeout, RestoreAlone, IsRunning, Running, dogVars,
       histVars
  <2>11. CASE NoticeExit
    BY <2>11 DEF NoticeExit, Finish, Watch, RestoreAlone, IsRunning,
       Running, dogVars, histVars
  <2>12. CASE Reported
    BY <2>12 DEF Reported, Finish, Watch, RestoreAlone, IsRunning, Running,
       histVars
  <2>13. CASE TimerFires
    BY <2>13 DEF TimerFires, BeginStart, RestoreAlone, IsRunning, Running,
       exitVars
  <2>14. CASE FreezeKill
    BY <2>14 DEF FreezeKill, Kill, RestoreAlone, IsRunning, Running,
       callVars, dogVars, histVars
  <2>15. CASE RestoreOrder
    BY <2>15 DEF RestoreOrder, Cancel, RestoreAlone, IsRunning, Running,
       exitVars
  <2>16. CASE RestoreStop
    BY <2>16 DEF RestoreStop, Quiet, Stop, InCharge, BeginStop,
       RestoreAlone, IsRunning, Running, TypeOK, dogVars
  <2>17. CASE RestoreGivesUp
    BY <2>17 DEF RestoreGivesUp, RestoreAlone, IsRunning, Running,
       exitVars, dogVars
  <2>18. CASE RestoreEnds
    BY <2>18 DEF RestoreEnds, BeginStart, RestoreAlone, IsRunning, Running,
       exitVars, dogVars
  <2>19. CASE AgentCrash
    BY <2>19 DEF AgentCrash, RestoreAlone, IsRunning, Running
  <2>20. CASE AgentBoot
    BY <2>20 DEF AgentBoot, RestoreAlone, IsRunning, Running, ProcessKnown,
       dogVars
  <2>21. CASE Connect \/ Persist \/ Listen \/ TermTimeout \/ PlayerStop \/ Obey \/
         Die \/ Crash \/ Hang \/ LostEnds \/ Expire
    BY <2>21 DEF Connect, Persist, Listen, TermTimeout, PlayerStop, Obey,
       Die, Crash, Hang, LostEnds, Expire, RestoreAlone, IsRunning, Running,
       exitVars, dogVars, histVars, agentVars, callVars
  <2>22. CASE UNCHANGED vars
    BY <2>22 DEF vars, RestoreAlone, IsRunning, Running, exitVars,
       callVars, dogVars, histVars, agentVars
  <2> QED
    BY <2>1, <2>2, <2>3, <2>4, <2>5, <2>6, <2>7, <2>8, <2>9, <2>10, <2>11,
       <2>12, <2>13, <2>14, <2>15, <2>16, <2>17, <2>18, <2>19, <2>20, <2>21,
       <2>22 DEF Next
<1> QED
  BY <1>1, <1>2, TypeCorrect, ProcessKnownHolds, PTL DEF Spec

(* The restoration replaces the files of a server without a process unless *)
(* a start or a stop in charge came in its way.                            *)
THEOREM FilesAtRestHolds == Spec => []FilesAtRest
<1>1. ProcessKnown /\ RestoreAlone => FilesAtRest
  BY DEF ProcessKnown, AtRestIsDead, RestoreAlone, FilesAtRest, IsRunning, Running
<1> QED
  BY <1>1, ProcessKnownHolds, RestoreAloneHolds, PTL

=============================================================================

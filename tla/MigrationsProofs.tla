-------------------------- MODULE MigrationsProofs --------------------------
(***************************************************************************)
(* What holds of Migrations for every fleet, every list of jobs that are   *)
(* asked for and every number of upsets.                                   *)
(***************************************************************************)
EXTENDS Migrations, TLAPS

(* A group of variables that a step leaves alone keeps its types.          *)
LEMMA GroupsKeepTypes ==
    ASSUME TypeOK
    PROVE  /\ UNCHANGED rows => RowsOK'
           /\ UNCHANGED memory => MemoryOK'
           /\ UNCHANGED machine => MachineOK'
           /\ UNCHANGED tasks => TasksOK'
           /\ UNCHANGED history => HistoryOK'
<1>1. UNCHANGED rows => RowsOK'
  BY DEF TypeOK, RowsOK, rows, Jobs
<1>2. UNCHANGED memory => MemoryOK'
  BY DEF TypeOK, MemoryOK, memory, Jobs
<1>3. UNCHANGED machine => MachineOK'
  BY DEF TypeOK, MachineOK, machine, Jobs
<1>4. UNCHANGED tasks => TasksOK'
  BY DEF TypeOK, TasksOK, tasks, Jobs
<1>5. UNCHANGED history => HistoryOK'
  BY DEF TypeOK, HistoryOK, history
<1> QED
  BY <1>1, <1>2, <1>3, <1>4, <1>5

(* What the jobs name, and what their fields hold.                         *)
LEMMA JobFields ==
    ASSUME RowsOK, NEW j \in Jobs
    PROVE  From(j) \in Agents /\ To(j) \in Agents /\ job[j].again \in BOOLEAN
BY DEF RowsOK, From, To

(* The deletion of the artifacts of any imports keeps the types.           *)
LEMMA RemoveType ==
    ASSUME MachineOK, NEW js \in SUBSET Jobs, Remove(js)
    PROVE  /\ files' \in [Agents -> Contents]
           /\ world' \in [Agents -> 0..MaxWorld]
           /\ copied' \in [Jobs -> Contents]
<1>1. files' \in [Agents -> Contents] /\ copied' \in [Jobs -> Contents]
  BY DEF MachineOK, Remove, Contents
<1>2. world' \in [Agents -> 0..MaxWorld]
  BY BoundAssumption DEF MachineOK, Remove
<1> QED
  BY <1>1, <1>2

(* So does a configuration that is pushed.                                 *)
LEMMA ConfigureType ==
    ASSUME MachineOK, NEW a \in Agents, NEW m, NEW r \in BOOLEAN, Configure(a, m, r)
    PROVE  known' \in [Agents -> BOOLEAN] /\ want' \in [Agents -> BOOLEAN]
BY DEF MachineOK, Configure

(* And the way a chain fails.                                              *)
LEMMA FailType ==
    ASSUME TypeOK, NEW j \in Jobs, Fail(j)
    PROVE  RowsOK' /\ MemoryOK' /\ HistoryOK'
<1>1. /\ status' \in [Jobs -> Statuses] /\ step' \in [Jobs -> Steps]
  BY DEF TypeOK, RowsOK, MemoryOK, Fail, Statuses, Steps
<1>2. clone' \in [Jobs -> {"none", "migrating", "ready"}]
  BY DEF TypeOK, RowsOK, Fail, DiscardClone
<1>3. UNCHANGED <<owner, prov, desired, seen, job, due, opening, history>>
  BY DEF Fail
<1> QED
  BY <1>1, <1>2, <1>3 DEF TypeOK, RowsOK, MemoryOK, HistoryOK, history

(* Every variable of the panel and of the agents keeps its type, whatever  *)
(* fails and whatever comes across.                                        *)
THEOREM TypeCorrect == Spec => []TypeOK
<1>1. Init => TypeOK
  <2> SUFFICES ASSUME Init PROVE TypeOK
    OBVIOUS
  <2>1. RowsOK
    BY HomeAssumption DEF Init, RowsOK, Statuses
  <2>2. MemoryOK
    BY DEF Init, MemoryOK, Steps
  <2>3. MachineOK
    BY BoundAssumption DEF Init, MachineOK, Contents
  <2>4. TasksOK /\ HistoryOK
    BY BoundAssumption DEF Init, TasksOK, HistoryOK, Exports, Imports
  <2> QED
    BY <2>1, <2>2, <2>3, <2>4 DEF TypeOK
<1>2. TypeOK /\ [Next]_vars => TypeOK'
  <2> SUFFICES ASSUME TypeOK, [Next]_vars
               PROVE  TypeOK'
    OBVIOUS
  <2> USE GroupsKeepTypes, BoundAssumption
  <2>0. RowsOK /\ MemoryOK /\ MachineOK /\ TasksOK /\ HistoryOK
    BY DEF TypeOK
  <2>1. ASSUME NEW j \in Jobs, Ask(j) PROVE TypeOK'
    <3>1. PICK r \in Requests : job' = [job EXCEPT ![j] = [from |-> owner, kind |-> r.kind,
                                                           to |-> r.to, again |-> r.again]]
      BY <2>1 DEF Ask
    <3>2. r \in [kind : {"migrate", "duplicate"}, to : Agents, again : BOOLEAN]
      BY RequestsAssumption
    <3>3. RowsOK'
      BY <2>0, <2>1, <3>1, <3>2 DEF Ask, RowsOK, Statuses
    <3> QED
      BY <2>1, <3>3 DEF TypeOK, Ask
  <2>2. ASSUME NEW j \in Jobs, Precheck(j) \/ Refuse(j) PROVE TypeOK'
    <3>1. RowsOK'
      BY <2>0, <2>2 DEF Precheck, Refuse, RowsOK, Statuses
    <3> QED
      BY <2>2, <3>1 DEF TypeOK, Precheck, Refuse
  <2>3. ASSUME NEW j \in Jobs, Admit(j) PROVE TypeOK'
    <3>1. RowsOK'
      BY <2>0, <2>3 DEF Admit, RowsOK, Statuses
    <3>2. MemoryOK' /\ HistoryOK'
      BY <2>0, <2>3 DEF Admit, MemoryOK, HistoryOK, Steps
    <3> QED
      BY <2>3, <3>1, <3>2 DEF TypeOK, Admit
  <2>4. ASSUME NEW j \in Jobs, ExportSeen(j) \/ CopySeen(j) PROVE TypeOK'
    <3>1. MemoryOK'
      BY <2>0, <2>4 DEF ExportSeen, CopySeen, MemoryOK, Steps
    <3> QED
      BY <2>4, <3>1 DEF TypeOK, ExportSeen, CopySeen
  <2>5. ASSUME NEW j \in Jobs, Conclude(j) PROVE TypeOK'
    <3>1. RowsOK' /\ MemoryOK'
      BY <2>0, <2>5 DEF Conclude, RowsOK, MemoryOK, Statuses, Steps
    <3> QED
      BY <2>5, <3>1 DEF TypeOK, Conclude
  <2>6. ASSUME NEW j \in Jobs, OrderExport(j) PROVE TypeOK'
    <3>1. TasksOK'
      BY <2>0, <2>6 DEF OrderExport, TasksOK, Exports
    <3>2. RowsOK' /\ MemoryOK' /\ HistoryOK'
      <4>1. CASE Fail(j)
        BY <4>1, FailType
      <4>2. CASE ~Fail(j)
        <5>1. UNCHANGED <<rows, history>> /\ MemoryOK'
          BY <2>0, <2>6, <4>2 DEF OrderExport, MemoryOK, Steps
        <5> QED
          BY <5>1
      <4> QED
        BY <4>1, <4>2
    <3> QED
      BY <2>6, <3>1, <3>2 DEF TypeOK, OrderExport
  <2>7. ASSUME NEW j \in Jobs, OrderImport(j) PROVE TypeOK'
    <3>1. TasksOK'
      BY <2>0, <2>7 DEF OrderImport, TasksOK, Imports
    <3>2. RowsOK' /\ MemoryOK' /\ HistoryOK'
      <4>1. CASE Fail(j)
        BY <4>1, FailType
      <4>2. CASE ~Fail(j)
        <5>1. UNCHANGED <<rows, history>> /\ MemoryOK'
          BY <2>0, <2>7, <4>2 DEF OrderImport, MemoryOK, Steps
        <5> QED
          BY <5>1
      <4> QED
        BY <4>1, <4>2
    <3> QED
      BY <2>7, <3>1, <3>2 DEF TypeOK, OrderImport
  <2>8. ASSUME NEW j \in Jobs, StepFails(j) PROVE TypeOK'
    BY <2>8, FailType DEF StepFails, TypeOK
  <2>9. ASSUME NEW j \in Jobs, Switch(j) PROVE TypeOK'
    <3>1. CASE Fail(j)
      BY <2>9, <3>1, FailType DEF Switch, TypeOK
    <3>2. CASE ~Fail(j)
      <4>1. To(j) \in Agents /\ (job[j].again /\ was[j]) \in BOOLEAN
        BY <2>0, JobFields
      <4>2. RowsOK' /\ MemoryOK'
        BY <2>0, <2>9, <3>2, <4>1 DEF Switch, RowsOK, MemoryOK, Steps
      <4> QED
        BY <2>9, <3>2, <4>2 DEF Switch, TypeOK
    <3> QED
      BY <3>1, <3>2
  <2>10. ASSUME NEW j \in Jobs, TellTarget(j) \/ TellSource(j) PROVE TypeOK'
    <3>1. PICK a \in {From(j), To(j)}, here \in Steps, there \in Steps :
             Push(j, here, a, there)
      BY <2>10 DEF TellTarget, TellSource, Steps
    <3>2. a \in Agents /\ desired \in BOOLEAN
      BY <2>0, JobFields DEF RowsOK
    <3>3. MachineOK'
      BY <2>0, <3>1, <3>2, ConfigureType DEF Push, MachineOK, machine
    <3>4. MemoryOK'
      BY <2>0, <3>1 DEF Push, MemoryOK
    <3> QED
      BY <3>1, <3>3, <3>4 DEF Push, TypeOK
  <2>11. ASSUME NEW j \in Jobs, Finalize(j) PROVE TypeOK'
    <3>1. MemoryOK'
      BY <2>0, <2>11 DEF Finalize, MemoryOK, Steps
    <3>2. MachineOK' /\ TasksOK'
      <4>1. CASE UNCHANGED <<machine, tasks>>
        BY <4>1
      <4>2. CASE ~UNCHANGED <<machine, tasks>>
        <5>1. From(j) \in Agents
          BY <2>0, JobFields
        <5>2. MachineOK'
          <6>1. /\ known' = [known EXCEPT ![From(j)] = FALSE]
                /\ UNCHANGED <<want, live, copied>>
                /\ \/ /\ files' = [files EXCEPT ![From(j)] = "none"]
                      /\ world' = [world EXCEPT ![From(j)] = 0]
                   \/ UNCHANGED <<files, world>>
            BY <2>11, <4>2 DEF Finalize
          <6>2. known' \in [Agents -> BOOLEAN]
            BY <2>0, <6>1 DEF MachineOK
          <6>3. files' \in [Agents -> Contents]
            BY <2>0, <6>1 DEF MachineOK, Contents
          <6>4. world' \in [Agents -> 0..MaxWorld]
            BY <2>0, <6>1 DEF MachineOK
          <6> QED
            BY <2>0, <6>1, <6>2, <6>3, <6>4 DEF MachineOK
        <5>3. TasksOK'
          BY <2>0, <2>11, <4>2 DEF Finalize, TasksOK
        <5> QED
          BY <5>2, <5>3
      <4> QED
        BY <4>1, <4>2
    <3> QED
      BY <2>11, <3>1, <3>2 DEF Finalize, TypeOK
  <2>12. ASSUME NEW j \in Jobs, Confirm(j) PROVE TypeOK'
    <3>1. RowsOK' /\ MemoryOK'
      BY <2>0, <2>12 DEF Confirm, RowsOK, MemoryOK, Steps
    <3> QED
      BY <2>12, <3>1 DEF Confirm, TypeOK
  <2>13. ASSUME NEW j \in Jobs, Relaunch(j) \/ Restart(j) PROVE TypeOK'
    <3>1. From(j) \in Agents
      BY <2>0, JobFields
    <3>2. known' \in [Agents -> BOOLEAN] /\ want' \in [Agents -> BOOLEAN]
      BY <2>0, <2>13, <3>1, ConfigureType DEF Relaunch, Restart, MachineOK
    <3>3. live' \in [Agents -> BOOLEAN] /\ UNCHANGED <<files, world, copied>>
      BY <2>0, <2>13 DEF Relaunch, Restart, MachineOK
    <3>4. MachineOK'
      BY <2>0, <3>2, <3>3 DEF MachineOK
    <3>5. desired' \in BOOLEAN /\ UNCHANGED <<owner, prov, clone, seen, job, tasks, history>>
      BY <2>0, <2>13 DEF Relaunch, Restart, RowsOK
    <3>8. status' \in [Jobs -> Statuses]
      BY <2>0, <2>13 DEF Relaunch, Restart, RowsOK, Statuses
    <3>9. step' \in [Jobs -> Steps] /\ UNCHANGED <<due, opening>>
      BY <2>0, <2>13 DEF Relaunch, Restart, MemoryOK, Steps
    <3>6. MemoryOK'
      BY <2>0, <3>9 DEF MemoryOK
    <3>7. RowsOK'
      BY <2>0, <3>5, <3>8 DEF RowsOK
    <3> QED
      BY <3>4, <3>5, <3>6, <3>7 DEF TypeOK
  <2>14. CASE PanelRestarts
    <3>1. \A j \in Jobs : status'[j] \in Statuses
      BY <2>0, <2>14 DEF PanelRestarts, RowsOK, Statuses
    <3>2. RowsOK'
      BY <2>0, <2>14, <3>1 DEF PanelRestarts, RowsOK
    <3>3. MemoryOK' /\ HistoryOK'
      BY <2>0, <2>14 DEF PanelRestarts, Upset, MemoryOK, HistoryOK, Steps
    <3> QED
      BY <2>14, <3>2, <3>3 DEF PanelRestarts, TypeOK
  <2>30. ASSUME NEW j \in Jobs, Insert(j) \/ Mark(j) \/ Restore(j) PROVE TypeOK'
    <3>1. RowsOK'
      BY <2>0, <2>30 DEF Insert, Mark, Restore, RowsOK, Statuses
    <3>2. MemoryOK'
      BY <2>0, <2>30 DEF Insert, Mark, Restore, MemoryOK, Steps
    <3> QED
      BY <2>30, <3>1, <3>2 DEF Insert, Mark, Restore, TypeOK
  <2>31. ASSUME NEW j \in Jobs, Sweep(j) \/ Reset(j) PROVE TypeOK'
    <3>1. RowsOK'
      BY <2>0, <2>31 DEF Sweep, Reset, RowsOK, Statuses
    <3>2. MemoryOK'
      BY <2>0, <2>31 DEF Sweep, Reset, MemoryOK, Steps
    <3> QED
      BY <2>31, <3>1, <3>2 DEF Sweep, Reset, TypeOK
  <2>32. ASSUME NEW j \in Jobs, Discard(j) PROVE TypeOK'
    <3>1. RowsOK' /\ MemoryOK'
      BY <2>0, <2>32 DEF Discard, DiscardClone, RowsOK, MemoryOK, Steps
    <3> QED
      BY <2>32, <3>1 DEF Discard, TypeOK
  <2>15. ASSUME NEW j \in Jobs, ExportStops(j) PROVE TypeOK'
    <3>1. From(j) \in Agents
      BY <2>0, JobFields
    <3>2. MachineOK' /\ TasksOK'
      BY <2>0, <2>15, <3>1 DEF ExportStops, MachineOK, TasksOK, Exports
    <3> QED
      BY <2>15, <3>2 DEF ExportStops, TypeOK
  <2>16. ASSUME NEW j \in Jobs,
                ExportSaves(j) \/ ImportChecks(j) \/ ImportEnds(j)
         PROVE  TypeOK'
    <3>1. From(j) \in Agents
      BY <2>0, JobFields
    <3>2. TasksOK'
      BY <2>0, <2>16, <3>1 DEF ExportSaves, ImportChecks, ImportEnds, MachineOK, TasksOK,
                               Exports, Imports
    <3> QED
      BY <2>16, <3>2 DEF ExportSaves, ImportChecks, ImportEnds, TypeOK
  <2>17. ASSUME NEW j \in Jobs, ImportFetched(j) PROVE TypeOK'
    <3>1. To(j) \in Agents
      BY <2>0, JobFields
    <3>2. imp' \in [Jobs -> Imports]
      BY <2>0, <2>17 DEF ImportFetched, TasksOK, Imports
    <3>3. TasksOK' /\ HistoryOK'
      BY <2>0, <2>17, <3>2 DEF ImportFetched, TasksOK, HistoryOK
    <3>4. MachineOK'
      BY <2>0, <2>17, <3>1 DEF ImportFetched, MachineOK, Contents
    <3> QED
      BY <2>17, <3>3, <3>4 DEF ImportFetched, TypeOK
  <2>18. ASSUME NEW j \in Jobs, ImportRegisters(j) PROVE TypeOK'
    <3>1. To(j) \in Agents
      BY <2>0, JobFields
    <3>2. TasksOK'
      BY <2>0, <2>18 DEF ImportRegisters, TasksOK, Imports
    <3>3. MachineOK'
      BY <2>0, <2>18, <3>1 DEF ImportRegisters, Staged, MachineOK, TasksOK, Contents
    <3> QED
      BY <2>18, <3>2, <3>3 DEF ImportRegisters, TypeOK
  <2>19. ASSUME NEW j \in Jobs, ImportStarts(j) PROVE TypeOK'
    <3>1. MachineOK' /\ TasksOK'
      BY <2>0, <2>19 DEF ImportStarts, MachineOK, TasksOK, Imports
    <3> QED
      BY <2>19, <3>1 DEF ImportStarts, TypeOK
  <2>20. ASSUME NEW j \in Jobs, TaskFails(j) PROVE TypeOK'
    <3>1. /\ files' \in [Agents -> Contents] /\ world' \in [Agents -> 0..MaxWorld]
          /\ copied' \in [Jobs -> Contents]
      <4>1. CASE UNCHANGED <<files, world, copied>>
        BY <2>0, <4>1 DEF MachineOK
      <4>2. CASE \E js \in SUBSET Jobs : Remove(js)
        BY <2>0, <4>2, RemoveType
      <4>3. {j} \in SUBSET Jobs /\ {} \in SUBSET Jobs
        OBVIOUS
      <4> QED
        BY <2>20, <4>1, <4>2, <4>3 DEF TaskFails
    <3>2. MachineOK' /\ TasksOK'
      BY <2>0, <2>20, <3>1 DEF TaskFails, MachineOK, TasksOK, Exports, Imports
    <3> QED
      BY <2>20, <3>2 DEF TaskFails, TypeOK
  <2>21. ASSUME NEW a \in Agents, AgentRestarts(a) PROVE TypeOK'
    <3>1. PICK js \in SUBSET Jobs : Remove(js)
      BY <2>21 DEF AgentRestarts
    <3>2. /\ files' \in [Agents -> Contents] /\ world' \in [Agents -> 0..MaxWorld]
          /\ copied' \in [Jobs -> Contents]
      BY <2>0, <3>1, RemoveType
    <3>3. MachineOK'
      BY <2>0, <2>21, <3>2 DEF AgentRestarts, MachineOK
    <3>4. TasksOK'
      BY <2>0, <2>21 DEF AgentRestarts, TasksOK, Exports, Imports
    <3>5. MemoryOK' /\ HistoryOK'
      BY <2>0, <2>21 DEF AgentRestarts, Upset, MemoryOK, HistoryOK
    <3> QED
      BY <2>21, <3>3, <3>4, <3>5 DEF AgentRestarts, TypeOK
  <2>22. ASSUME NEW a \in Agents, Cut(a) PROVE TypeOK'
    <3>1. MemoryOK' /\ HistoryOK'
      BY <2>0, <2>22 DEF Cut, Upset, MemoryOK, HistoryOK
    <3> QED
      BY <2>22, <3>1 DEF Cut, TypeOK
  <2>23. ASSUME NEW a \in Agents, ServerExits(a) PROVE TypeOK'
    <3>1. MachineOK' /\ HistoryOK'
      BY <2>0, <2>23 DEF ServerExits, Upset, MachineOK, HistoryOK
    <3> QED
      BY <2>23, <3>1 DEF ServerExits, TypeOK
  <2>24. ASSUME NEW a \in Agents, Sync(a) PROVE TypeOK'
    <3>1. desired \in BOOLEAN
      BY <2>0 DEF RowsOK
    <3>2. MachineOK'
      BY <2>0, <2>24, <3>1, ConfigureType DEF Sync, MachineOK
    <3>3. MemoryOK'
      BY <2>0, <2>24 DEF Sync, MemoryOK
    <3> QED
      BY <2>24, <3>2, <3>3 DEF Sync, TypeOK
  <2>25. CASE OrderStart \/ OrderStop
    <3>1. PICK r \in BOOLEAN : Order(r)
      BY <2>25 DEF OrderStart, OrderStop
    <3>2. owner \in Agents
      BY <2>0 DEF RowsOK
    <3>3. RowsOK' /\ HistoryOK'
      BY <2>0, <3>1 DEF Order, Upset, RowsOK, HistoryOK
    <3>4. live' \in [Agents -> BOOLEAN] /\ due' \in [Agents -> {"none", "start", "sync"}]
      BY <2>0, <2>25 DEF OrderStart, OrderStop, MachineOK, MemoryOK
    <3>5. MachineOK' /\ MemoryOK'
      BY <2>0, <3>1, <3>2, <3>4, ConfigureType DEF Order, MachineOK, MemoryOK
    <3> QED
      BY <3>1, <3>3, <3>5 DEF Order, TypeOK
  <2>26. ASSUME NEW a \in Agents, StartDue(a) PROVE TypeOK'
    <3>1. RowsOK' /\ MemoryOK' /\ MachineOK'
      BY <2>0, <2>26 DEF StartDue, RowsOK, MemoryOK, MachineOK
    <3> QED
      BY <2>26, <3>1 DEF StartDue, TypeOK
  <2>27. ASSUME NEW j \in Jobs, Scan(j) PROVE TypeOK'
    <3>1. RowsOK'
      BY <2>0, <2>27 DEF Scan, RowsOK
    <3> QED
      BY <2>27, <3>1 DEF Scan, TypeOK
  <2>28. ASSUME NEW a \in Agents, Play(a) PROVE TypeOK'
    <3>1. MachineOK' /\ HistoryOK'
      BY <2>0, <2>28 DEF Play, MachineOK, HistoryOK
    <3> QED
      BY <2>28, <3>1 DEF Play, TypeOK
  <2>29. CASE UNCHANGED vars
    BY <2>29 DEF vars, TypeOK
  <2> QED
    BY <2>1, <2>2, <2>3, <2>4, <2>5, <2>6, <2>7, <2>8, <2>9, <2>10, <2>11, <2>12, <2>13,
       <2>14, <2>15, <2>16, <2>17, <2>18, <2>19, <2>20, <2>21, <2>22, <2>23, <2>24, <2>25,
       <2>26, <2>27, <2>28, <2>29, <2>30, <2>31, <2>32
       DEF Next, PanelStep, StretchStep, TaskStep
<1> QED
  BY <1>1, <1>2, PTL DEF Spec

-----------------------------------------------------------------------------
(* The steps that touch neither a chain, nor an import, nor a directory.   *)
Around ==
    \/ \E j \in Jobs : ExportStops(j) \/ ExportSaves(j) \/ Scan(j)
    \/ \E a \in Agents : Cut(a) \/ Sync(a) \/ StartDue(a) \/ ServerExits(a) \/ Play(a)
    \/ OrderStart \/ OrderStop
    \/ UNCHANGED vars

LEMMA AroundLeaves ==
    ASSUME Around
    PROVE  /\ UNCHANGED <<owner, prov, clone, job, status, step, files, copied, imp>>
           /\ Unspoilt' = Unspoilt
<1> USE DEF rows, memory, machine, tasks, history, Unspoilt
<1>1. ASSUME NEW j \in Jobs, ExportStops(j) \/ ExportSaves(j) \/ Scan(j)
      PROVE  /\ UNCHANGED <<owner, prov, clone, job, status, step, files, copied, imp>>
             /\ Unspoilt' = Unspoilt
  BY <1>1 DEF ExportStops, ExportSaves, Scan
<1>2. ASSUME NEW a \in Agents, Cut(a) \/ Sync(a) \/ StartDue(a) \/ ServerExits(a)
      PROVE  /\ UNCHANGED <<owner, prov, clone, job, status, step, files, copied, imp>>
             /\ Unspoilt' = Unspoilt
  BY <1>2 DEF Cut, Sync, StartDue, ServerExits
<1>3. ASSUME NEW a \in Agents, Play(a)
      PROVE  /\ UNCHANGED <<owner, prov, clone, job, status, step, files, copied, imp>>
             /\ Unspoilt' = Unspoilt
  BY <1>3 DEF Play
<1>4. CASE OrderStart \/ OrderStop
  BY <1>4 DEF OrderStart, OrderStop, Order
<1>5. CASE UNCHANGED vars
  BY <1>5 DEF vars
<1> QED
  BY <1>1, <1>2, <1>3, <1>4, <1>5 DEF Around

(* The failed chain of a migration has its row closed, that of a copy goes *)
(* on to start its source again, or to close its row.                      *)
LEMMA FailEnds ==
    ASSUME TypeOK, NEW j \in Jobs, Fail(j)
    PROVE  /\ \/ /\ Moves(j)
                 /\ step' = [step EXCEPT ![j] = "restore"]
                 /\ status' = [status EXCEPT ![j] = "failed"]
                 /\ UNCHANGED clone
              \/ /\ Copies(j)
                 /\ \/ step' = [step EXCEPT ![j] = "relaunch"]
                    \/ step' = [step EXCEPT ![j] = "fail"]
                 /\ UNCHANGED status
                 /\ clone'[j] = "migrating" => j \in seen
           /\ \A k \in Jobs : clone'[k] \in {clone[k], "none"}
           /\ UNCHANGED <<owner, prov, seen, job, odd>>
<1>1. /\ clone \in [Jobs -> {"none", "migrating", "ready"}]
      /\ Moves(j) \/ Copies(j)
      /\ step \in [Jobs -> Steps]
  BY DEF TypeOK, RowsOK, MemoryOK, Moves, Copies
<1>2. CASE Moves(j)
  BY <1>1, <1>2 DEF Fail, history
<1>3. CASE ~Moves(j)
  <2>1. DiscardClone(j) /\ UNCHANGED <<status, owner, prov, seen, job, odd>>
    BY <1>3 DEF Fail, history
  <2>2. \/ step' = [step EXCEPT ![j] = "relaunch"]
        \/ step' = [step EXCEPT ![j] = "fail"]
    BY <1>1, <1>3 DEF Fail
  <2>3. /\ clone'[j] = "migrating" => j \in seen
        /\ \A k \in Jobs : clone'[k] \in {clone[k], "none"}
    BY <1>1, <2>1 DEF DiscardClone
  <2> QED
    BY <1>1, <1>3, <2>1, <2>2, <2>3
<1> QED
  BY <1>2, <1>3

(* A chain stands somewhere while its row is active, a migration leaves its*)
(* machine, and the import is not ordered before the chain comes to it.    *)
THEOREM ChainsActiveHolds == Spec => []ChainsActive
<1>1. Init => ChainsActive
  BY DEF Init, ChainsActive
<1>2. TypeOK /\ ChainsActive /\ [Next]_vars => ChainsActive'
  <2> SUFFICES ASSUME TypeOK, ChainsActive, [Next]_vars
               PROVE  ChainsActive'
    OBVIOUS
  <2>0. /\ status \in [Jobs -> Statuses] /\ step \in [Jobs -> Steps]
        /\ imp \in [Jobs -> Imports]
        /\ job \in [Jobs -> [kind : {"migrate", "duplicate"}, from : Agents, to : Agents,
                            again : BOOLEAN]]
    BY DEF TypeOK, RowsOK, MemoryOK, TasksOK
  <2> USE DEF ChainsActive, Awaited, Moves, From, To
  <2>21. ASSUME NEW j \in Jobs, UNCHANGED job, status[j] # "unasked",
                \A k \in Jobs \ {j} : /\ step'[k] = step[k] /\ status'[k] = status[k]
                                      /\ imp'[k] = imp[k],
                \/ /\ status'[j] = "checked" /\ step'[j] = "insert"
                   /\ imp'[j] = "none"
                \/ /\ status'[j] = "active" /\ step'[j] \in {"mark", "export", "exporting"}
                   /\ imp'[j] = "none"
                \/ /\ status'[j] = "active"
                   /\ step'[j] \in {"importing", "relaunch", "restart", "finish", "fail"}
                \/ /\ status'[j] \in {"done", "failed"} /\ step'[j] = "restore"
         PROVE  ChainsActive'
    BY <2>21
  <2>22. ASSUME NEW j \in Jobs, Fail(j), status[j] = "active",
                \A k \in Jobs \ {j} : imp'[k] = imp[k]
         PROVE  ChainsActive'
    <3>1. /\ UNCHANGED job
          /\ \A k \in Jobs \ {j} : step'[k] = step[k] /\ status'[k] = status[k]
      BY <2>0, <2>22, FailEnds
    <3>2. \/ status'[j] = "active" /\ step'[j] \in {"relaunch", "fail"}
          \/ status'[j] = "failed" /\ step'[j] = "restore"
      BY <2>0, <2>22, FailEnds
    <3> QED
      BY <2>21, <2>22, <3>1, <3>2
  <2>1. CASE Around
    BY <2>1, AroundLeaves
  <2>2. ASSUME NEW j \in Jobs, Ask(j) PROVE ChainsActive'
    BY <2>0, <2>2 DEF Ask, memory, tasks
  <2>3. ASSUME NEW j \in Jobs, Precheck(j) \/ Refuse(j) PROVE ChainsActive'
    BY <2>0, <2>3 DEF Precheck, Refuse, memory, tasks
  <2>4. ASSUME NEW j \in Jobs, Admit(j) \/ Insert(j) \/ Mark(j) PROVE ChainsActive'
    <3>1. UNCHANGED <<job, imp>> /\ imp[j] = "none" /\ status[j] # "unasked"
      BY <2>4 DEF Admit, Insert, Mark, tasks
    <3>2. \A k \in Jobs \ {j} : step'[k] = step[k] /\ status'[k] = status[k]
      BY <2>0, <2>4 DEF Admit, Insert, Mark
    <3>3. \/ status'[j] = "checked" /\ step'[j] = "insert"
          \/ status'[j] = "active" /\ step'[j] \in {"mark", "export"}
      BY <2>0, <2>4 DEF Admit, Insert, Mark
    <3> QED
      BY <2>21, <3>1, <3>2, <3>3
  <2>5. ASSUME NEW j \in Jobs, OrderExport(j) PROVE ChainsActive'
    <3>1. step[j] = "export" /\ UNCHANGED imp /\ status[j] = "active" /\ imp[j] = "none"
      BY <2>5 DEF OrderExport
    <3>2. CASE Fail(j)
      BY <2>22, <3>1, <3>2
    <3>3. CASE ~Fail(j)
      <4>1. UNCHANGED <<job, status>> /\ step' = [step EXCEPT ![j] = "exporting"]
        BY <2>5, <3>3 DEF OrderExport, rows
      <4> QED
        BY <2>0, <2>21, <3>1, <4>1
    <3> QED
      BY <3>2, <3>3
  <2>6. ASSUME NEW j \in Jobs, ExportSeen(j) \/ CopySeen(j) PROVE ChainsActive'
    BY <2>0, <2>6 DEF ExportSeen, CopySeen, rows, tasks
  <2>7. ASSUME NEW j \in Jobs, OrderImport(j) PROVE ChainsActive'
    <3>1. step[j] = "import" /\ imp' = [imp EXCEPT ![j] = "check"] /\ status[j] = "active"
      BY <2>7 DEF OrderImport
    <3>2. \A k \in Jobs \ {j} : imp'[k] = imp[k]
      BY <2>0, <3>1
    <3>3. CASE Fail(j)
      BY <2>22, <3>1, <3>2, <3>3
    <3>4. CASE ~Fail(j)
      <4>1. UNCHANGED <<job, status>> /\ step' = [step EXCEPT ![j] = "importing"]
        BY <2>7, <3>4 DEF OrderImport, rows
      <4> QED
        BY <2>0, <2>21, <3>1, <3>2, <4>1
    <3> QED
      BY <3>3, <3>4
  <2>8. ASSUME NEW j \in Jobs, StepFails(j) PROVE ChainsActive'
    BY <2>0, <2>8, <2>22 DEF StepFails, tasks
  <2>9. ASSUME NEW j \in Jobs, Switch(j) PROVE ChainsActive'
    BY <2>0, <2>9, FailEnds DEF Switch, tasks
  <2>10. ASSUME NEW j \in Jobs, TellTarget(j) \/ TellSource(j) PROVE ChainsActive'
    BY <2>0, <2>10 DEF TellTarget, TellSource, Push, rows, tasks
  <2>11. ASSUME NEW j \in Jobs, Finalize(j) PROVE ChainsActive'
    BY <2>0, <2>11 DEF Finalize, rows, tasks
  <2>12. ASSUME NEW j \in Jobs, Conclude(j) PROVE ChainsActive'
    BY <2>0, <2>12 DEF Conclude, tasks
  <2>13. ASSUME NEW j \in Jobs, Confirm(j) PROVE ChainsActive'
    BY <2>0, <2>13 DEF Confirm, tasks
  <2>14. ASSUME NEW j \in Jobs, Relaunch(j) \/ Restart(j) PROVE ChainsActive'
    <3>1. UNCHANGED <<job, imp>> /\ status[j] = "active"
      BY <2>14 DEF Relaunch, Restart, tasks
    <3>2. \A k \in Jobs \ {j} : step'[k] = step[k] /\ status'[k] = status[k]
      BY <2>0, <2>14 DEF Relaunch, Restart
    <3>3. status'[j] = "active" /\ step'[j] \in {"restart", "finish", "fail"}
      BY <2>0, <2>14, <3>1 DEF Relaunch, Restart
    <3> QED
      BY <2>21, <3>1, <3>2, <3>3
  <2>15. CASE PanelRestarts
    <3>1. \A j \in Jobs : /\ step'[j] = "sweep" \/ step'[j] = "none"
                          /\ step'[j] = "sweep" <=> status'[j] = "active"
                          /\ status'[j] = "unasked" <=> status[j] = "unasked"
                          /\ status'[j] \notin {"asked", "checked"}
      BY <2>0, <2>15 DEF PanelRestarts
    <3> QED
      BY <2>15, <3>1 DEF PanelRestarts, tasks
  <2>20. ASSUME NEW j \in Jobs, Restore(j) \/ Sweep(j) \/ Reset(j) \/ Discard(j)
         PROVE  ChainsActive'
    BY <2>0, <2>20 DEF Restore, Sweep, Reset, Discard, tasks
  <2>16. ASSUME UNCHANGED <<job, status, step>>,
                \A j \in Jobs : imp[j] = "none" => imp'[j] = "none"
         PROVE  ChainsActive'
    BY <2>16
  <2>17. ASSUME NEW j \in Jobs,
                \/ ImportChecks(j) \/ ImportRegisters(j) \/ ImportStarts(j) \/ ImportEnds(j)
                \/ TaskFails(j)
         PROVE  ChainsActive'
    BY <2>0, <2>16, <2>17 DEF ImportChecks, ImportRegisters, ImportStarts, ImportEnds,
       TaskFails, Fetching, rows, memory
  <2>18. ASSUME NEW j \in Jobs, ImportFetched(j) PROVE ChainsActive'
    BY <2>0, <2>16, <2>18 DEF ImportFetched, rows, memory
  <2>19. ASSUME NEW a \in Agents, AgentRestarts(a) PROVE ChainsActive'
    BY <2>0, <2>16, <2>19 DEF AgentRestarts, rows
  <2> QED
    BY <2>1, <2>2, <2>3, <2>4, <2>5, <2>6, <2>7, <2>8, <2>9, <2>10, <2>11, <2>12, <2>13,
       <2>14, <2>15, <2>17, <2>18, <2>19, <2>20
       DEF Next, PanelStep, StretchStep, TaskStep, Around
<1> QED
  BY <1>1, <1>2, TypeCorrect, PTL DEF Spec

-----------------------------------------------------------------------------
(* A copy whose import is over has its whole directory, and its row is     *)
(* shown ready for such a copy alone.                                      *)
LEMMA CopiesKept ==
    ASSUME CopyKnown, UNCHANGED <<job, copied, imp>>,
           \A k \in Jobs : step'[k] = "port" => step[k] = "port",
           \A k \in Jobs : clone'[k] = "ready" => clone[k] = "ready" \/ step[k] = "port"
    PROVE  CopyKnown'
BY DEF CopyKnown, Copies

THEOREM CopyKnownHolds == Spec => []CopyKnown
<1>1. Init => CopyKnown
  BY DEF Init, CopyKnown
<1>2. TypeOK /\ ChainsActive /\ CopyKnown /\ [Next]_vars => CopyKnown'
  <2> SUFFICES ASSUME TypeOK, ChainsActive, CopyKnown, [Next]_vars
               PROVE  CopyKnown'
    OBVIOUS
  <2>0. /\ step \in [Jobs -> Steps] /\ imp \in [Jobs -> Imports]
        /\ clone \in [Jobs -> {"none", "migrating", "ready"}]
        /\ copied \in [Jobs -> Contents]
        /\ job \in [Jobs -> [kind : {"migrate", "duplicate"}, from : Agents, to : Agents,
                            again : BOOLEAN]]
    BY DEF TypeOK, RowsOK, MemoryOK, MachineOK, TasksOK
  <2> USE DEF Moves, Copies
  <2>1. CASE Around
    BY <2>1, AroundLeaves, CopiesKept
  <2>2. ASSUME NEW j \in Jobs, Ask(j) PROVE CopyKnown'
    <3>1. imp[j] = "none" /\ UNCHANGED <<imp, step, clone, copied>>
      BY <2>2 DEF Ask, ChainsActive, Awaited, memory, tasks, machine
    <3>2. \A k \in Jobs : k # j => job'[k] = job[k]
      BY <2>0, <2>2 DEF Ask
    <3> QED
      BY <3>1, <3>2 DEF CopyKnown
  <2>3. ASSUME NEW j \in Jobs,
               \/ Precheck(j) \/ Refuse(j) \/ Admit(j) \/ ExportSeen(j) \/ TellTarget(j)
               \/ TellSource(j) \/ Conclude(j) \/ Relaunch(j) \/ Restart(j)
        PROVE  CopyKnown'
    <3> USE DEF Precheck, Refuse, Admit, ExportSeen, TellTarget, TellSource, Push, Conclude,
                Relaunch, Restart
    <3>1. UNCHANGED <<job, copied, imp>>
      BY <2>3 DEF rows, machine, tasks
    <3>2. \A k \in Jobs : step'[k] = "port" => step[k] = "port"
      BY <2>0, <2>3 DEF memory
    <3>3. \A k \in Jobs : clone'[k] = "ready" => clone[k] = "ready"
      BY <2>0, <2>3 DEF rows
    <3> QED
      BY <3>1, <3>2, <3>3, CopiesKept
  <2>18. ASSUME NEW j \in Jobs, StretchStep(j) PROVE CopyKnown'
    <3> USE DEF StretchStep, Insert, Mark, Restore, Sweep, Reset, Discard
    <3>1. UNCHANGED <<job, copied, imp>>
      BY <2>18 DEF machine, tasks
    <3>2. \A k \in Jobs : step'[k] = "port" => step[k] = "port"
      BY <2>0, <2>18
    <3>3. \A k \in Jobs : clone'[k] = "ready" => clone[k] = "ready"
      BY <2>0, <2>18 DEF DiscardClone
    <3> QED
      BY <3>1, <3>2, <3>3, CopiesKept
  <2>4. ASSUME NEW j \in Jobs, OrderExport(j) PROVE CopyKnown'
    <3>1. UNCHANGED <<job, copied, imp>>
      BY <2>4, FailEnds DEF OrderExport, rows, machine
    <3>2. CASE Fail(j)
      BY <2>0, <3>1, <3>2, FailEnds, CopiesKept
    <3>3. CASE ~Fail(j)
      BY <2>0, <2>4, <3>1, <3>3, CopiesKept DEF OrderExport, rows
    <3> QED
      BY <3>2, <3>3
  <2>5. ASSUME NEW j \in Jobs, StepFails(j) PROVE CopyKnown'
    BY <2>0, <2>5, FailEnds, CopiesKept DEF StepFails, machine, tasks
  <2>6. ASSUME NEW j \in Jobs, Switch(j) PROVE CopyKnown'
    <3>1. UNCHANGED <<job, copied, imp>>
      BY <2>6, FailEnds DEF Switch, machine, tasks
    <3>2. CASE Fail(j)
      BY <2>0, <3>1, <3>2, FailEnds, CopiesKept
    <3>3. CASE ~Fail(j)
      BY <2>0, <2>6, <3>1, <3>3, CopiesKept DEF Switch
    <3> QED
      BY <3>2, <3>3
  <2>7. ASSUME NEW j \in Jobs, Finalize(j) PROVE CopyKnown'
    BY <2>0, <2>7, CopiesKept DEF Finalize, rows, machine, tasks
  <2>8. ASSUME NEW j \in Jobs, OrderImport(j) PROVE CopyKnown'
    <3>1. imp[j] = "none" /\ imp' = [imp EXCEPT ![j] = "check"] /\ UNCHANGED <<job, copied>>
      BY <2>8, FailEnds DEF OrderImport, ChainsActive, rows, machine
    <3>2. \A k \in Jobs : /\ step'[k] = "port" => step[k] = "port"
                          /\ clone'[k] = "ready" => clone[k] = "ready"
      <4>1. CASE Fail(j)
        BY <2>0, <4>1, FailEnds
      <4>2. CASE ~Fail(j)
        BY <2>0, <2>8, <4>2 DEF OrderImport, rows
      <4> QED
        BY <4>1, <4>2
    <3>3. imp'[j] = "check" /\ \A k \in Jobs : k # j => imp'[k] = imp[k]
      BY <2>0, <3>1
    <3> QED
      BY <3>1, <3>2, <3>3 DEF CopyKnown
  <2>9. ASSUME NEW j \in Jobs, CopySeen(j) PROVE CopyKnown'
    BY <2>0, <2>9 DEF CopySeen, Imported, CopyKnown, rows, machine, tasks
  <2>10. ASSUME NEW j \in Jobs, Confirm(j) PROVE CopyKnown'
    BY <2>0, <2>10, CopiesKept DEF Confirm, machine, tasks
  <2>11. CASE PanelRestarts
    BY <2>0, <2>11, CopiesKept DEF PanelRestarts, machine, tasks
  <2>12. ASSUME NEW j \in Jobs, ImportChecks(j) \/ ImportStarts(j) \/ ImportEnds(j)
         PROVE  CopyKnown'
    BY <2>0, <2>12 DEF ImportChecks, ImportStarts, ImportEnds, CopyKnown, rows, memory,
       machine
  <2>13. ASSUME NEW j \in Jobs, ImportFetched(j) PROVE CopyKnown'
    <3>1. UNCHANGED <<job, step, clone>>
      BY <2>13 DEF ImportFetched, rows, memory
    <3>2. imp[j] = "fetch" /\ copied' \in {copied, [copied EXCEPT ![j] = "partial"]}
      BY <2>13 DEF ImportFetched
    <3>3. imp'[j] \in {"extract", "overlay"}
      BY <2>0, <2>13 DEF ImportFetched
    <3>4. \A k \in Jobs \ {j} : \/ imp'[k] = imp[k]
                                \/ imp[k] = "extract" /\ imp'[k] = "overlay"
      BY <2>0, <2>13 DEF ImportFetched
    <3>5. \A k \in Jobs \ {j} : copied'[k] = copied[k]
      BY <2>0, <3>2
    <3> QED
      BY <3>1, <3>2, <3>3, <3>4, <3>5 DEF CopyKnown
  <2>14. ASSUME NEW j \in Jobs, ImportRegisters(j) PROVE CopyKnown'
    <3>1. UNCHANGED <<job, step, clone>> /\ imp[j] \in {"extract", "overlay"}
      BY <2>14 DEF ImportRegisters, Fetching, rows, memory
    <3>2. imp' = [imp EXCEPT ![j] = "registered"]
      BY <2>14 DEF ImportRegisters
    <3>3. copied' = IF Moves(j) THEN copied ELSE [copied EXCEPT ![j] = "whole"]
      BY <2>14 DEF ImportRegisters
    <3>4. \A k \in Jobs : k # j => imp'[k] = imp[k] /\ copied'[k] = copied[k]
      BY <2>0, <3>2, <3>3
    <3>5. imp'[j] = "registered" /\ (Copies(j) => copied'[j] = "whole")
      BY <2>0, <3>2, <3>3
    <3> QED
      BY <3>1, <3>4, <3>5 DEF CopyKnown
  <2>15. ASSUME NEW js \in SUBSET Jobs, Remove(js), UNCHANGED <<job, step, clone>>,
                \A k \in Jobs : \/ imp'[k] = imp[k] /\ k \notin js
                                \/ imp[k] # "done" /\ imp'[k] = "failed"
         PROVE  CopyKnown'
    BY <2>15 DEF Remove, CopyKnown
  <2>16. ASSUME NEW j \in Jobs, TaskFails(j) PROVE CopyKnown'
    <3>1. UNCHANGED <<job, step, clone>>
      BY <2>16 DEF TaskFails, rows, memory
    <3>2. CASE UNCHANGED <<imp, copied>>
      BY <3>1, <3>2, CopiesKept
    <3>3. CASE ~UNCHANGED <<imp, copied>>
      <4>1. PICK js \in SUBSET {j} : Remove(js)
        BY <2>16, <3>3 DEF TaskFails
      <4>2. imp[j] # "done" /\ imp' = [imp EXCEPT ![j] = "failed"]
        BY <2>16, <3>3 DEF TaskFails, Fetching
      <4>3. \A k \in Jobs : \/ imp'[k] = imp[k] /\ k \notin js
                            \/ imp[k] # "done" /\ imp'[k] = "failed"
        BY <2>0, <4>2
      <4> QED
        BY <2>15, <3>1, <4>1, <4>3
    <3> QED
      BY <3>2, <3>3
  <2>17. ASSUME NEW a \in Agents, AgentRestarts(a) PROVE CopyKnown'
    <3>1. PICK unkept \in SUBSET Unkept :
             Remove({j \in Jobs : To(j) = a /\ (imp[j] \in Fetching \/ j \in unkept)})
      BY <2>17 DEF AgentRestarts
    <3> DEFINE js == {j \in Jobs : To(j) = a /\ (imp[j] \in Fetching \/ j \in unkept)}
    <3>2. imp' = [k \in Jobs |-> IF To(k) = a /\ imp[k] \notin {"none", "done"}
                                THEN "failed" ELSE imp[k]]
      BY <2>17 DEF AgentRestarts
    <3>3. \A k \in Jobs : \/ imp'[k] = imp[k] /\ k \notin js
                          \/ imp[k] # "done" /\ imp'[k] = "failed"
      BY <3>2 DEF Fetching, Unkept
    <3> HIDE DEF js
    <3> QED
      BY <2>15, <2>17, <3>1, <3>3 DEF AgentRestarts, rows, js
  <2> QED
    BY <2>1, <2>2, <2>3, <2>4, <2>5, <2>6, <2>7, <2>8, <2>9, <2>10, <2>11, <2>12, <2>13,
       <2>14, <2>16, <2>17, <2>18
       DEF Next, PanelStep, TaskStep, Around
<1> QED
  BY <1>1, <1>2, TypeCorrect, ChainsActiveHolds, PTL DEF Spec

(* A copy that is shown ready has its whole directory, through failures of *)
(* either agent and of the panel (confirmDuplicated, createArtifact).      *)
THEOREM CloneCompleteHolds == Spec => []CloneComplete
<1>1. CopyKnown => CloneComplete
  BY DEF CopyKnown, CloneComplete
<1> QED
  BY <1>1, CopyKnownHolds, PTL

-----------------------------------------------------------------------------
(* A chain that stands somewhere with an active row is in the list of the  *)
(* constructor after a restart.                                            *)
LEMMA SweptWhenActive ==
    ASSUME TypeOK, PanelRestarts, NEW j \in Jobs, status[j] = "active"
    PROVE  status'[j] = "active" /\ step'[j] = "sweep"
BY DEF PanelRestarts

(* A server is migrating only while a job will give it back and waits for  *)
(* nothing but a task its agent has (run, runDuplicate, the constructor and*)
(* restoreProvisioning), whoever restarts and whatever is lost, unless the *)
(* panel died between two commits of the end of a job.                     *)
THEOREM NeverStrandedHolds == Spec => []NeverStranded
<1>1. Init => NeverStranded
  BY DEF Init, NeverStranded
<1>2. TypeOK /\ ChainsActive /\ NeverStranded /\ [Next]_vars => NeverStranded'
  <2> SUFFICES ASSUME TypeOK, ChainsActive, NeverStranded, [Next]_vars
               PROVE  NeverStranded'
    OBVIOUS
  <2>0. /\ status \in [Jobs -> Statuses] /\ step \in [Jobs -> Steps]
        /\ exp \in [Jobs -> Exports] /\ imp \in [Jobs -> Imports]
        /\ \A k \in Jobs : Moves(k) <=> ~Copies(k)
    BY DEF TypeOK, RowsOK, MemoryOK, TasksOK, Moves, Copies
  <2>1. CASE prov' = "ready"
    BY <2>1 DEF NeverStranded
  <2>2. ASSUME UNCHANGED prov, "halved" \in odd => "halved" \in odd',
               \A k \in Jobs : Underway(k) => Underway(k)'
        PROVE  NeverStranded'
    BY <2>2 DEF NeverStranded
  <2>3. ASSUME UNCHANGED <<prov, step, job>>, "halved" \in odd => "halved" \in odd',
               \A k \in Jobs : exp'[k] = "none" => exp[k] = "none",
               \A k \in Jobs : imp'[k] = "none" => imp[k] = "none"
        PROVE  NeverStranded'
    BY <2>2, <2>3 DEF Underway, Copies
  <2>4. ASSUME NEW j \in Jobs, Fail(j),
               \A k \in Jobs : exp'[k] = "none" => exp[k] = "none",
               \A k \in Jobs : imp'[k] = "none" => imp[k] = "none"
        PROVE  NeverStranded'
    BY <2>0, <2>2, <2>4, FailEnds DEF Underway, Copies
  <2>5. CASE Around
    <3>1. UNCHANGED <<prov, step, imp, job>>
      BY <2>5, AroundLeaves
    <3>2. /\ \A k \in Jobs : exp'[k] = "none" => exp[k] = "none"
          /\ "halved" \in odd => "halved" \in odd'
      <4>1. CASE \E j \in Jobs : ExportStops(j) \/ ExportSaves(j) \/ Scan(j)
        BY <2>0, <4>1 DEF ExportStops, ExportSaves, Scan, tasks, history
      <4>2. ASSUME NEW a \in Agents,
                   Cut(a) \/ Sync(a) \/ StartDue(a) \/ ServerExits(a) \/ Play(a)
            PROVE  UNCHANGED exp /\ ("halved" \in odd => "halved" \in odd')
        BY <4>2 DEF Cut, Sync, StartDue, ServerExits, Play, tasks, history
      <4>3. CASE OrderStart \/ OrderStop \/ UNCHANGED vars
        BY <4>3 DEF OrderStart, OrderStop, Order, vars, tasks, history
      <4> QED
        BY <2>5, <4>1, <4>2, <4>3 DEF Around
    <3> QED
      BY <2>3, <3>1, <3>2
  <2>6. ASSUME NEW j \in Jobs, Ask(j) PROVE NeverStranded'
    <3>1. /\ UNCHANGED <<prov, step, exp, imp, odd>> /\ step[j] = "none"
          /\ \A k \in Jobs \ {j} : Copies(k)' = Copies(k)
      BY <2>0, <2>6 DEF Ask, memory, tasks, history, ChainsActive, Awaited, Copies, TypeOK,
         RowsOK
    <3> QED
      BY <2>2, <3>1 DEF Underway
  <2>7. ASSUME NEW j \in Jobs, Precheck(j) \/ Refuse(j) PROVE NeverStranded'
    BY <2>3, <2>7 DEF Precheck, Refuse, memory, tasks, history
  <2>8. ASSUME NEW j \in Jobs, Admit(j) \/ Insert(j) PROVE NeverStranded'
    <3>1. /\ UNCHANGED <<prov, exp, imp, job>> /\ ("halved" \in odd => "halved" \in odd')
          /\ ~Underway(j)
      BY <2>8 DEF Admit, Insert, Underway, ChainsActive, Idle, Stretch, tasks, history
    <3>2. \A k \in Jobs \ {j} : step'[k] = step[k]
      BY <2>0, <2>8 DEF Admit, Insert
    <3> QED
      BY <2>2, <3>1, <3>2 DEF Underway, Copies
  <2>9. ASSUME NEW j \in Jobs, Mark(j) PROVE NeverStranded'
    <3>1. Underway(j)'
      BY <2>0, <2>9 DEF Mark, Underway
    <3> QED
      BY <3>1 DEF NeverStranded
  <2>10. ASSUME NEW j \in Jobs, OrderExport(j) PROVE NeverStranded'
    <3>1. exp' = [exp EXCEPT ![j] = "stop"] /\ UNCHANGED imp
      BY <2>10 DEF OrderExport
    <3>2. CASE Fail(j)
      BY <2>0, <2>4, <3>1, <3>2
    <3>3. CASE ~Fail(j)
      BY <2>0, <2>2, <2>10, <3>1, <3>3 DEF OrderExport, Underway, Copies, rows, history
    <3> QED
      BY <3>2, <3>3
  <2>11. ASSUME NEW j \in Jobs, OrderImport(j) PROVE NeverStranded'
    <3>1. imp' = [imp EXCEPT ![j] = "check"] /\ UNCHANGED exp
      BY <2>11 DEF OrderImport
    <3>2. CASE Fail(j)
      BY <2>0, <2>4, <3>1, <3>2
    <3>3. CASE ~Fail(j)
      BY <2>0, <2>2, <2>11, <3>1, <3>3 DEF OrderImport, Underway, Copies, rows, history
    <3> QED
      BY <3>2, <3>3
  <2>12. ASSUME NEW j \in Jobs, StepFails(j) PROVE NeverStranded'
    BY <2>4, <2>12 DEF StepFails, tasks
  <2>13. ASSUME NEW j \in Jobs, Switch(j) PROVE NeverStranded'
    <3>1. CASE Fail(j)
      BY <2>4, <2>13, <3>1 DEF Switch, tasks
    <3>2. CASE ~Fail(j)
      BY <2>1, <2>13, <3>2 DEF Switch
    <3> QED
      BY <3>1, <3>2
  <2>14. ASSUME NEW j \in Jobs,
                \/ ExportSeen(j) \/ CopySeen(j) \/ TellTarget(j) \/ TellSource(j)
                \/ Finalize(j)
         PROVE  NeverStranded'
    <3> USE DEF ExportSeen, CopySeen, TellTarget, TellSource, Push, Finalize
    <3>1. UNCHANGED <<prov, job, odd, exp, imp>>
      BY <2>14 DEF rows, tasks, history
    <3>2. \A k \in Jobs \ {j} : step'[k] = step[k]
      BY <2>0, <2>14
    <3>3. Underway(j) => step'[j] = "import" \/ (step'[j] = "port" /\ Copies(j))
      BY <2>0, <2>14 DEF Underway
    <3> QED
      BY <2>2, <3>1, <3>2, <3>3 DEF Underway, Copies
  <2>15. ASSUME NEW j \in Jobs, Conclude(j) PROVE NeverStranded'
    <3>1. UNCHANGED <<prov, job, odd, exp, imp>>
      BY <2>15 DEF Conclude, tasks, history
    <3>2. \A k \in Jobs \ {j} : step'[k] = step[k]
      BY <2>0, <2>15 DEF Conclude
    <3>3. Underway(j) => step'[j] = "restore"
      BY <2>0, <2>15 DEF Conclude, Underway
    <3> QED
      BY <2>2, <3>1, <3>2, <3>3 DEF Underway, Copies
  <2>16. ASSUME NEW j \in Jobs, Confirm(j) \/ Relaunch(j) \/ Restart(j)
         PROVE  NeverStranded'
    <3> USE DEF Confirm, Relaunch, Restart
    <3>1. UNCHANGED <<prov, job, odd, exp, imp>>
      BY <2>16 DEF tasks, history
    <3>2. \A k \in Jobs \ {j} : step'[k] = step[k]
      BY <2>0, <2>16
    <3>3. /\ step[j] \in {"port", "relaunch", "restart"}
          /\ step'[j] \in {"relaunch", "restart", "finish", "fail", "restore"}
      BY <2>0, <2>16
    <3> QED
      BY <2>2, <3>1, <3>2, <3>3 DEF Underway, Copies
  <2>17. ASSUME NEW j \in Jobs, Restore(j) \/ Reset(j) PROVE NeverStranded'
    BY <2>1, <2>17 DEF Restore, Reset
  <2>18. ASSUME NEW j \in Jobs, Sweep(j) \/ Discard(j) PROVE NeverStranded'
    <3>1. UNCHANGED <<prov, job, odd, exp, imp>>
      BY <2>18 DEF Sweep, Discard, tasks, history
    <3>2. \A k \in Jobs \ {j} : step'[k] = step[k]
      BY <2>0, <2>18 DEF Sweep, Discard
    <3>3. Underway(j) => step'[j] = "reset"
      BY <2>0, <2>18 DEF Sweep, Discard, Underway
    <3> QED
      BY <2>2, <3>1, <3>2, <3>3 DEF Underway, Copies
  <2>19. CASE PanelRestarts
    <3> SUFFICES ASSUME "halved" \notin odd', prov' = "migrating"
                 PROVE  \E j \in Jobs : Underway(j)'
      BY DEF NeverStranded
    <3>1. /\ prov = "migrating" /\ "halved" \notin odd
          /\ \A j \in Jobs : step[j] \notin {"insert", "restore", "reset", "discard"}
      BY <2>19 DEF PanelRestarts
    <3>2. PICK j \in Jobs : Underway(j)
      BY <3>1 DEF NeverStranded
    <3>3. status[j] = "active"
      BY <3>1, <3>2 DEF Underway, ChainsActive
    <3> QED
      BY <2>19, <3>3, SweptWhenActive DEF Underway
  <2>20. ASSUME NEW j \in Jobs,
                \/ ImportChecks(j) \/ ImportRegisters(j) \/ ImportStarts(j) \/ ImportEnds(j)
                \/ TaskFails(j)
         PROVE  NeverStranded'
    BY <2>0, <2>3, <2>20 DEF ImportChecks, ImportRegisters, ImportStarts, ImportEnds,
       TaskFails, rows, memory, history
  <2>21. ASSUME NEW j \in Jobs, ImportFetched(j) PROVE NeverStranded'
    BY <2>0, <2>3, <2>21 DEF ImportFetched, rows, memory
  <2>22. ASSUME NEW a \in Agents, AgentRestarts(a) PROVE NeverStranded'
    BY <2>0, <2>3, <2>22 DEF AgentRestarts, rows
  <2> QED
    BY <2>5, <2>6, <2>7, <2>8, <2>9, <2>10, <2>11, <2>12, <2>13, <2>14, <2>15, <2>16,
       <2>17, <2>18, <2>19, <2>20, <2>21, <2>22
       DEF Next, PanelStep, StretchStep, TaskStep, Around
<1> QED
  BY <1>1, <1>2, TypeCorrect, ChainsActiveHolds, PTL DEF Spec

-----------------------------------------------------------------------------
(* A migration has no row of a copy and a duplication passes no switch.    *)
THEOREM CopyRowsOwnedHolds == Spec => []CopyRowsOwned
<1>1. Init => CopyRowsOwned
  BY DEF Init, CopyRowsOwned
<1>2. TypeOK /\ ChainsActive /\ CopyKnown /\ CopyRowsOwned /\ [Next]_vars => CopyRowsOwned'
  <2> SUFFICES ASSUME TypeOK, ChainsActive, CopyKnown, CopyRowsOwned, [Next]_vars
               PROVE  CopyRowsOwned'
    OBVIOUS
  <2>0. /\ status \in [Jobs -> Statuses] /\ step \in [Jobs -> Steps]
        /\ clone \in [Jobs -> {"none", "migrating", "ready"}]
        /\ \A k \in Jobs : Moves(k) <=> ~Copies(k)
    BY DEF TypeOK, RowsOK, MemoryOK, Moves, Copies
  <2>1. ASSUME UNCHANGED job,
               \A k \in Jobs : /\ status'[k] = "unasked" => status[k] = "unasked"
                               /\ clone'[k] \in {clone[k], "none"}
                               /\ step'[k] \in {"tell", "retell", "finalize"} =>
                                     step[k] \in {"tell", "retell", "finalize"}
        PROVE  CopyRowsOwned'
    BY <2>1 DEF CopyRowsOwned, Moves
  <2>2. CASE Around
    BY <2>1, <2>2, AroundLeaves
  <2>3. ASSUME NEW j \in Jobs, Ask(j) PROVE CopyRowsOwned'
    <3>1. /\ UNCHANGED <<clone, step>> /\ clone[j] = "none" /\ step[j] = "none"
          /\ \A k \in Jobs \ {j} : job'[k] = job[k] /\ status'[k] = status[k]
      BY <2>0, <2>3 DEF Ask, CopyRowsOwned, ChainsActive, Awaited, TypeOK, RowsOK, memory
    <3> QED
      BY <3>1 DEF CopyRowsOwned, Moves
  <2>4. ASSUME NEW j \in Jobs,
               \/ Precheck(j) \/ Refuse(j) \/ ExportSeen(j) \/ CopySeen(j) \/ TellTarget(j)
               \/ TellSource(j) \/ Finalize(j) \/ Conclude(j) \/ Relaunch(j) \/ Restart(j)
               \/ StretchStep(j)
        PROVE  CopyRowsOwned'
    <3> USE DEF Precheck, Refuse, ExportSeen, CopySeen, TellTarget, TellSource, Push, Finalize,
                Conclude, Relaunch, Restart, StretchStep, Insert, Mark, Restore, Sweep, Reset,
                Discard
    <3>1. UNCHANGED job
      BY <2>4 DEF rows
    <3>2. \A k \in Jobs : /\ status'[k] = "unasked" => status[k] = "unasked"
                          /\ clone'[k] \in {clone[k], "none"}
      BY <2>0, <2>4 DEF rows, DiscardClone
    <3>3. \A k \in Jobs : step'[k] \in {"tell", "retell", "finalize"} =>
             step[k] \in {"tell", "retell", "finalize"}
      BY <2>0, <2>4 DEF memory
    <3> QED
      BY <2>1, <3>1, <3>2, <3>3
  <2>5. ASSUME NEW j \in Jobs, Admit(j) PROVE CopyRowsOwned'
    <3>1. UNCHANGED job /\ \A k \in Jobs \ {j} : step'[k] = step[k] /\ clone'[k] = clone[k]
      BY <2>0, <2>5 DEF Admit
    <3>2. /\ status'[j] # "unasked" /\ step'[j] \in {"insert", "mark"}
          /\ Moves(j) => clone'[j] = clone[j]
          /\ \A k \in Jobs \ {j} : status'[k] = status[k]
      BY <2>0, <2>5 DEF Admit
    <3> QED
      BY <3>1, <3>2 DEF CopyRowsOwned, Moves
  <2>6. ASSUME NEW j \in Jobs, Fail(j) PROVE CopyRowsOwned'
    BY <2>0, <2>1, <2>6, FailEnds
  <2>7. ASSUME NEW j \in Jobs, OrderExport(j) \/ OrderImport(j) PROVE CopyRowsOwned'
    <3>1. CASE ~Fail(j)
      BY <2>0, <2>1, <2>7, <3>1 DEF OrderExport, OrderImport, rows
    <3> QED
      BY <2>6, <3>1
  <2>8. ASSUME NEW j \in Jobs, StepFails(j) PROVE CopyRowsOwned'
    BY <2>6, <2>8 DEF StepFails
  <2>9. ASSUME NEW j \in Jobs, Switch(j) PROVE CopyRowsOwned'
    <3>1. CASE ~Fail(j)
      <4>1. UNCHANGED <<job, status, clone>> /\ Moves(j) /\ step' = [step EXCEPT ![j] = "tell"]
        BY <2>9, <3>1 DEF Switch
      <4> QED
        BY <2>0, <4>1 DEF CopyRowsOwned, Moves
    <3> QED
      BY <2>6, <3>1
  <2>10. ASSUME NEW j \in Jobs, Confirm(j) PROVE CopyRowsOwned'
    <3>1. Copies(j) /\ UNCHANGED <<job, status>>
      BY <2>10 DEF Confirm, CopyKnown
    <3>2. status[j] = "active"
      BY <2>10 DEF Confirm, ChainsActive
    <3>3. /\ \A k \in Jobs \ {j} : clone'[k] = clone[k] /\ step'[k] = step[k]
          /\ step'[j] \in {"relaunch", "finish", "fail"}
      BY <2>0, <2>10 DEF Confirm
    <3> QED
      BY <2>0, <3>1, <3>2, <3>3 DEF CopyRowsOwned, Moves
  <2>11. CASE PanelRestarts
    <3>1. \A k \in Jobs : /\ step'[k] \in {"none", "sweep"}
                          /\ status'[k] = "unasked" => status[k] = "unasked"
      BY <2>0, <2>11 DEF PanelRestarts
    <3> QED
      BY <2>1, <2>11, <3>1 DEF PanelRestarts
  <2>12. ASSUME UNCHANGED <<rows, step>> PROVE CopyRowsOwned'
    BY <2>1, <2>12 DEF rows
  <2>13. ASSUME NEW j \in Jobs,
                \/ ImportChecks(j) \/ ImportFetched(j) \/ ImportRegisters(j)
                \/ ImportStarts(j) \/ ImportEnds(j) \/ TaskFails(j)
         PROVE  CopyRowsOwned'
    BY <2>12, <2>13 DEF ImportChecks, ImportFetched, ImportRegisters, ImportStarts, ImportEnds,
       TaskFails, memory
  <2>14. ASSUME NEW a \in Agents, AgentRestarts(a) PROVE CopyRowsOwned'
    BY <2>12, <2>14 DEF AgentRestarts
  <2> QED
    BY <2>2, <2>3, <2>4, <2>5, <2>7, <2>8, <2>9, <2>10, <2>11, <2>13, <2>14
       DEF Next, PanelStep, TaskStep, Around
<1> QED
  BY <1>1, <1>2, TypeCorrect, ChainsActiveHolds, CopyKnownHolds, PTL DEF Spec

(* The row of a copy that is not shown ready goes away with its job, by the*)
(* catch of runDuplicate or by the constructor, whoever restarts and       *)
(* whatever is lost, unless a scan has touched the row or the panel died   *)
(* between two commits.                                                    *)
THEOREM CopyRowRemovedHolds == Spec => []CopyRowRemoved
<1>1. Init => CopyRowRemoved
  BY DEF Init, CopyRowRemoved
<1>2. /\ TypeOK /\ ChainsActive /\ CopyRowsOwned /\ CopyRowRemoved
      /\ [Next]_vars
      => CopyRowRemoved'
  <2> SUFFICES ASSUME TypeOK, ChainsActive, CopyRowsOwned, CopyRowRemoved, [Next]_vars
               PROVE  CopyRowRemoved'
    OBVIOUS
  <2>0. /\ status \in [Jobs -> Statuses] /\ step \in [Jobs -> Steps]
        /\ clone \in [Jobs -> {"none", "migrating", "ready"}]
        /\ \A k \in Jobs : Moves(k) <=> ~Copies(k)
    BY DEF TypeOK, RowsOK, MemoryOK, Moves, Copies
  <2>1. ASSUME NEW j \in Jobs, "halved" \in odd => "halved" \in odd', seen \subseteq seen',
               \A k \in Jobs \ {j} : /\ clone'[k] = clone[k] /\ status'[k] = status[k]
                                     /\ step'[k] = step[k],
               clone'[j] = "migrating" /\ j \notin seen' =>
                  CopyPending(j)' \/ (clone[j] = "migrating" /\ ~CopyPending(j))
        PROVE  CopyRowRemoved'
    BY <2>1 DEF CopyRowRemoved, CopyPending
  <2>2. ASSUME UNCHANGED <<clone, status, step>>, "halved" \in odd => "halved" \in odd',
               seen \subseteq seen'
        PROVE  CopyRowRemoved'
    BY <2>2 DEF CopyRowRemoved, CopyPending
  <2>3. CASE Around
    <3>1. UNCHANGED <<clone, status, step>>
      BY <2>3, AroundLeaves
    <3>2. ASSUME NEW j \in Jobs, ExportStops(j) \/ ExportSaves(j) \/ Scan(j)
          PROVE  ("halved" \in odd => "halved" \in odd') /\ seen \subseteq seen'
      BY <3>2 DEF ExportStops, ExportSaves, Scan, rows, history
    <3>3. ASSUME NEW a \in Agents,
                 Cut(a) \/ Sync(a) \/ StartDue(a) \/ ServerExits(a) \/ Play(a)
          PROVE  ("halved" \in odd => "halved" \in odd') /\ seen \subseteq seen'
      BY <3>3 DEF Cut, Sync, StartDue, ServerExits, Play, rows, history
    <3>4. CASE OrderStart \/ OrderStop \/ UNCHANGED vars
      BY <2>2, <3>1, <3>4 DEF OrderStart, OrderStop, Order, vars, rows, history
    <3> QED
      BY <2>2, <2>3, <3>1, <3>2, <3>3, <3>4 DEF Around
  <2>4. ASSUME NEW j \in Jobs, Ask(j) \/ Precheck(j) \/ Refuse(j) PROVE CopyRowRemoved'
    <3>1. UNCHANGED <<clone, step, seen, odd>> /\ status[j] \in {"unasked", "asked"}
      BY <2>4 DEF Ask, Precheck, Refuse, memory, history
    <3>2. \A k \in Jobs \ {j} : status'[k] = status[k]
      BY <2>0, <2>4 DEF Ask, Precheck, Refuse
    <3>3. ~CopyPending(j)
      BY <3>1 DEF CopyPending, ChainsActive, Awaited
    <3> QED
      BY <2>1, <3>1, <3>2, <3>3
  <2>5. ASSUME NEW j \in Jobs, Admit(j) \/ Insert(j) \/ Mark(j) PROVE CopyRowRemoved'
    <3>1. /\ UNCHANGED seen /\ ("halved" \in odd => "halved" \in odd')
          /\ \A k \in Jobs \ {j} : clone'[k] = clone[k] /\ status'[k] = status[k]
          /\ \A k \in Jobs \ {j} : step'[k] = step[k]
      BY <2>0, <2>5 DEF Admit, Insert, Mark, history
    <3>2. CopyPending(j)'
      BY <2>0, <2>5 DEF Admit, Insert, Mark, CopyPending, ChainsActive
    <3> QED
      BY <2>1, <3>1, <3>2
  <2>6. ASSUME NEW j \in Jobs, Fail(j) PROVE CopyRowRemoved'
    <3>1. /\ UNCHANGED <<seen, odd>>
          /\ \A k \in Jobs \ {j} : clone'[k] = clone[k] /\ status'[k] = status[k]
          /\ \A k \in Jobs \ {j} : step'[k] = step[k]
      BY <2>0, <2>6 DEF Fail, DiscardClone, history
    <3>2. clone'[j] = "migrating" => j \in seen
      BY <2>0, <2>6, FailEnds DEF CopyRowsOwned
    <3> QED
      BY <2>1, <3>1, <3>2
  <2>7. ASSUME NEW j \in Jobs, step[j] \notin {"none", "insert", "restore", "reset", "discard"},
               UNCHANGED <<clone, status, seen, odd>>,
               \A k \in Jobs \ {j} : step'[k] = step[k],
               step'[j] \notin {"relaunch", "restart", "finish", "fail"}
        PROVE  CopyRowRemoved'
    <3>1. CopyPending(j)'
      BY <2>7 DEF CopyPending, ChainsActive
    <3> QED
      BY <2>1, <2>7, <3>1
  <2>8. ASSUME NEW j \in Jobs, OrderExport(j) \/ OrderImport(j) PROVE CopyRowRemoved'
    <3>1. CASE ~Fail(j)
      <4>1. /\ step[j] \in {"export", "import"} /\ UNCHANGED <<clone, status, seen, odd>>
            /\ step' \in {[step EXCEPT ![j] = "exporting"], [step EXCEPT ![j] = "importing"]}
        BY <2>8, <3>1 DEF OrderExport, OrderImport, rows, history
      <4> QED
        BY <2>0, <2>7, <4>1
    <3> QED
      BY <2>6, <3>1
  <2>9. ASSUME NEW j \in Jobs, StepFails(j) PROVE CopyRowRemoved'
    BY <2>6, <2>9 DEF StepFails
  <2>10. ASSUME NEW j \in Jobs, Switch(j) PROVE CopyRowRemoved'
    <3>1. CASE ~Fail(j)
      BY <2>0, <2>7, <2>10, <3>1 DEF Switch, history
    <3> QED
      BY <2>6, <3>1
  <2>11. ASSUME NEW j \in Jobs,
                ExportSeen(j) \/ CopySeen(j) \/ TellTarget(j) \/ TellSource(j)
         PROVE  CopyRowRemoved'
    <3> USE DEF ExportSeen, CopySeen, TellTarget, TellSource, Push
    <3>1. /\ step[j] \in {"exporting", "importing", "tell", "retell"}
          /\ UNCHANGED <<clone, status, seen, odd>>
      BY <2>11 DEF rows, history
    <3>2. /\ step'[j] \in {"import", "port", "retell", "finalize"}
          /\ \A k \in Jobs \ {j} : step'[k] = step[k]
      BY <2>0, <2>11
    <3> QED
      BY <2>7, <3>1, <3>2
  <2>12. ASSUME NEW j \in Jobs, Finalize(j) PROVE CopyRowRemoved'
    <3>1. /\ UNCHANGED <<clone, status, seen, odd>> /\ step[j] = "finalize"
          /\ \A k \in Jobs \ {j} : step'[k] = step[k]
      BY <2>0, <2>12 DEF Finalize, rows, history
    <3>2. clone'[j] = "none"
      BY <3>1 DEF CopyRowsOwned
    <3> QED
      BY <2>1, <3>1, <3>2
  <2>13. ASSUME NEW j \in Jobs, Conclude(j) \/ Relaunch(j) \/ Restart(j) \/ Restore(j)
         PROVE  CopyRowRemoved'
    <3> USE DEF Conclude, Relaunch, Restart, Restore
    <3>1. /\ UNCHANGED <<clone, seen, odd>>
          /\ step[j] \in {"finish", "fail", "relaunch", "restart", "restore"}
      BY <2>13 DEF history
    <3>2. /\ \A k \in Jobs \ {j} : step'[k] = step[k]
          /\ \A k \in Jobs \ {j} : status'[k] = status[k]
      BY <2>0, <2>13
    <3>3. ~CopyPending(j)
      BY <3>1 DEF CopyPending, ChainsActive
    <3> QED
      BY <2>1, <3>1, <3>2, <3>3
  <2>14. ASSUME NEW j \in Jobs, Confirm(j) PROVE CopyRowRemoved'
    <3>1. /\ UNCHANGED <<status, seen, odd>> /\ clone'[j] = "ready"
          /\ \A k \in Jobs \ {j} : clone'[k] = clone[k] /\ step'[k] = step[k]
      BY <2>0, <2>14 DEF Confirm, history
    <3> QED
      BY <2>1, <3>1
  <2>15. ASSUME NEW j \in Jobs, Sweep(j) \/ Reset(j) \/ Discard(j) PROVE CopyRowRemoved'
    <3> USE DEF Sweep, Reset, Discard
    <3>1. /\ UNCHANGED <<seen, odd>>
          /\ \A k \in Jobs \ {j} : clone'[k] = clone[k] /\ status'[k] = status[k]
          /\ \A k \in Jobs \ {j} : step'[k] = step[k]
      BY <2>0, <2>15 DEF DiscardClone, history
    <3>2. clone'[j] = "migrating" /\ j \notin seen => CopyPending(j)'
      <4>1. CASE Sweep(j)
        BY <2>0, <4>1 DEF CopyPending
      <4>2. CASE Reset(j)
        <5>1. Copies(j) \/ clone'[j] = "none"
          BY <2>0, <4>2 DEF CopyRowsOwned
        <5> QED
          BY <2>0, <4>2, <5>1 DEF CopyPending
      <4>3. CASE Discard(j)
        BY <2>0, <4>3 DEF DiscardClone
      <4> QED
        BY <2>15, <4>1, <4>2, <4>3
    <3> QED
      BY <2>1, <3>1, <3>2
  <2>16. CASE PanelRestarts
    <3> SUFFICES ASSUME "halved" \notin odd', NEW j \in Jobs, j \notin seen',
                        clone'[j] = "migrating"
                 PROVE  CopyPending(j)'
      BY DEF CopyRowRemoved
    <3>1. /\ j \notin seen /\ clone[j] = "migrating" /\ "halved" \notin odd
          /\ step[j] \notin {"insert", "restore", "reset", "discard"}
      BY <2>16 DEF PanelRestarts
    <3>2. status[j] = "active"
      BY <3>1 DEF CopyRowRemoved, CopyPending
    <3> QED
      BY <2>16, <3>2, SweptWhenActive DEF CopyPending
  <2>17. ASSUME NEW j \in Jobs,
                \/ ImportChecks(j) \/ ImportRegisters(j) \/ ImportStarts(j) \/ ImportEnds(j)
                \/ TaskFails(j) \/ ImportFetched(j)
         PROVE  CopyRowRemoved'
    BY <2>2, <2>17 DEF ImportChecks, ImportRegisters, ImportStarts, ImportEnds, TaskFails,
       ImportFetched, rows, memory, history
  <2>18. ASSUME NEW a \in Agents, AgentRestarts(a) PROVE CopyRowRemoved'
    BY <2>2, <2>18 DEF AgentRestarts, rows
  <2> QED
    BY <2>3, <2>4, <2>5, <2>8, <2>9, <2>10, <2>11, <2>12, <2>13, <2>14, <2>15, <2>16,
       <2>17, <2>18
       DEF Next, PanelStep, StretchStep, TaskStep, Around
<1> QED
  BY <1>1, <1>2, TypeCorrect, ChainsActiveHolds, CopyRowsOwnedHolds, PTL DEF Spec

-----------------------------------------------------------------------------
(* A step that moves no directory, moves chains along without starting one *)
(* or passing a switch, and at most orders, checks or fails imports, keeps *)
(* the directories placed.                                                 *)
LEMMA ChainMoves ==
    ASSUME Placed, Unspoilt' => Unspoilt, UNCHANGED <<owner, job, files>>,
           \A k \in Jobs : /\ Engaged(k)' => Engaged(k)
                           /\ step'[k] \in Before => step[k] \in Before
                           /\ step'[k] \in After => step[k] \in After,
           \A k \in Jobs : /\ imp'[k] = imp[k] \/ imp'[k] \in {"check", "fetch", "failed"}
                           /\ step'[k] = "importing" =>
                                 step[k] = "importing" \/ imp'[k] # "done"
    PROVE  Placed'
<1>1. /\ \A k \in Jobs : Moves(k)' = Moves(k) /\ To(k)' = To(k) /\ From(k)' = From(k)
      /\ \A k \in Jobs, m \in Agents : Writes(k, m)' => Writes(k, m) /\ imp'[k] = imp[k]
  BY DEF Moves, To, From, Writes
<1>2. \A m : (\A k \in Jobs : Writes(k, m)' => Writes(k, m))
  BY DEF Moves, To, Writes
<1>3. \A m : Settled(m) => Settled(m)'
  BY <1>2 DEF Settled
<1> SUFFICES ASSUME Unspoilt, Unspoilt' PROVE Placed'
  BY DEF Placed
<1>4. Settled(owner)'
  BY <1>3 DEF Placed, Settled
<1> QED
  BY <1>1, <1>3, <1>4 DEF Placed

(* Directories that failed imports take away were never the owner's, nor   *)
(* those of a source or a target that a chain relies on.                   *)
LEMMA RemovalHarmless ==
    ASSUME TypeOK, Placed, Unspoilt' => Unspoilt, UNCHANGED <<owner, job, status, step>>,
           NEW js \in SUBSET Jobs, Remove(js),
           \A k \in js : Moves(k) => Writes(k, To(k)),
           \A k \in js : imp'[k] = "failed",
           \A k \in Jobs : imp'[k] \in {imp[k], "failed"}
    PROVE  Placed'
<1> SUFFICES ASSUME Unspoilt, Unspoilt' PROVE Placed'
  BY DEF Placed
<1>0. owner \in Agents /\ \A k \in Jobs : From(k) \in Agents /\ To(k) \in Agents
  BY JobFields DEF TypeOK, RowsOK
<1>1. /\ \A k \in Jobs : Moves(k)' = Moves(k) /\ To(k)' = To(k) /\ From(k)' = From(k)
      /\ \A k \in Jobs, m \in Agents :
            Writes(k, m)' => Writes(k, m) /\ imp'[k] = imp[k] /\ k \notin js
  BY DEF Moves, To, From, Writes
<1>2. \A m \in Agents : files'[m] # files[m] => \E k \in js : Writes(k, m)
  BY DEF Remove
<1>3. \A m \in Agents : Settled(m) => Settled(m)'
  BY <1>1, <1>2 DEF Settled
<1>4. Settled(owner)'
  BY <1>0, <1>3 DEF Placed, Settled
<1>5. \A j \in Jobs, m \in Agents : Writes(j, m)' => files'[m] = files[m]
  BY <1>1, <1>2 DEF Placed
<1>6. \A k \in Jobs : Engaged(k)' = Engaged(k)
  BY DEF Engaged
<1> QED
  BY <1>0, <1>1, <1>3, <1>4, <1>5, <1>6 DEF Placed

(* What an import may do to keep the directories placed: it works in the   *)
(* directory of its target, where no other import writes.                  *)
LEMMA ImportMoves ==
    ASSUME TypeOK, Placed, Unspoilt, UNCHANGED <<owner, job, status, step>>, NEW j \in Jobs,
           \A k \in Jobs \ {j} : imp'[k] = imp[k],
           \A m \in Agents : files'[m] = files[m] \/ (Moves(j) /\ m = To(j)),
           Moves(j) =>
              /\ \A k \in Jobs \ {j} : ~Writes(k, To(j))
              /\ ~Settled(To(j))
              /\ Writes(j, To(j))' =>
                    /\ imp'[j] # "overlay"
                    /\ files'[To(j)] = IF imp'[j] = "extract" THEN "partial" ELSE "whole"
              /\ imp'[j] = "done" => Settled(To(j))'
    PROVE  Placed'
<1>0. owner \in Agents /\ \A k \in Jobs : From(k) \in Agents /\ To(k) \in Agents
  BY JobFields DEF TypeOK, RowsOK
<1>1. /\ \A k \in Jobs : Moves(k)' = Moves(k) /\ To(k)' = To(k) /\ From(k)' = From(k)
      /\ \A k \in Jobs, m \in Agents :
            k # j \/ ~Moves(j) \/ m # To(j) => Writes(k, m)' = Writes(k, m)
  BY DEF Moves, To, From, Writes
<1>2. \A m \in Agents : Settled(m) => Settled(m)'
  BY <1>1 DEF Settled
<1>3. Settled(owner)'
  BY <1>0, <1>2 DEF Placed, Settled
<1>4. \A k \in Jobs :
         Moves(k)' /\ step'[k] = "importing" /\ imp'[k] = "done" => Settled(To(k))'
  BY <1>0, <1>1, <1>2 DEF Placed
<1>5. \A k, l \in Jobs, m \in Agents : Writes(k, m)' /\ Writes(l, m)' => k = l
  BY <1>0, <1>1 DEF Placed
<1>6. \A k \in Jobs, m \in Agents : Writes(k, m)' =>
         /\ imp'[k] # "overlay"
         /\ files'[m] = IF imp'[k] = "extract" THEN "partial" ELSE "whole"
  <2> SUFFICES ASSUME NEW k \in Jobs, NEW m \in Agents, Writes(k, m)'
               PROVE  /\ imp'[k] # "overlay"
                      /\ files'[m] = IF imp'[k] = "extract" THEN "partial" ELSE "whole"
    OBVIOUS
  <2>1. CASE k = j
    <3>1. Moves(j) /\ m = To(j)
      BY <1>1, <2>1 DEF Writes
    <3> QED
      BY <2>1, <3>1, <1>1
  <2>2. CASE k # j
    <3>1. Writes(k, m) /\ imp'[k] = imp[k]
      BY <1>1, <2>2
    <3>2. files'[m] = files[m]
      BY <2>2, <3>1
    <3> QED
      BY <3>1, <3>2 DEF Placed
  <2> QED
    BY <2>1, <2>2
<1>7. \A k \in Jobs : Engaged(k)' = Engaged(k)
  BY DEF Engaged
<1> QED
  BY <1>0, <1>1, <1>2, <1>3, <1>4, <1>5, <1>6, <1>7 DEF Placed

(* The directory of the owner is whole and out of reach of every import, as*)
(* are those of the source and the target that a chain relies on.          *)
THEOREM PlacedHolds == Spec => []Placed
<1>1. Init => Placed
  BY HomeAssumption DEF Init, Placed, Settled, Writes, Before, After, Engaged
<1>2. TypeOK /\ ChainsActive /\ Placed /\ [Next]_vars => Placed'
  <2> SUFFICES ASSUME TypeOK, ChainsActive, Placed, [Next]_vars
               PROVE  Placed'
    OBVIOUS
  <2>0. /\ status \in [Jobs -> Statuses] /\ step \in [Jobs -> Steps]
        /\ imp \in [Jobs -> Imports] /\ files \in [Agents -> Contents]
        /\ owner \in Agents /\ \A k \in Jobs : From(k) \in Agents /\ To(k) \in Agents
    BY JobFields DEF TypeOK, RowsOK, MemoryOK, MachineOK, TasksOK
  <2>1. CASE Around
    BY <2>1, AroundLeaves, ChainMoves DEF Engaged
  <2>2. ASSUME NEW j \in Jobs,
               \/ Precheck(j) \/ Refuse(j) \/ ExportSeen(j) \/ TellTarget(j)
               \/ TellSource(j) \/ Conclude(j) \/ CopySeen(j) \/ Confirm(j) \/ Relaunch(j)
               \/ Restart(j) \/ StretchStep(j)
        PROVE  Placed'
    <3> USE DEF Precheck, Refuse, ExportSeen, TellTarget, TellSource, Push, Conclude, CopySeen,
                Confirm, Relaunch, Restart, StretchStep, Insert, Mark, Restore, Sweep, Reset,
                Discard
    <3>1. UNCHANGED <<owner, job, files, imp>> /\ Unspoilt' = Unspoilt
      BY <2>2 DEF Unspoilt, rows, machine, tasks, history
    <3>2. \A k \in Jobs : Engaged(k)' => Engaged(k)
      BY <2>0, <2>2 DEF Engaged, rows, memory
    <3>3. \A k \in Jobs : /\ step'[k] \in Before => step[k] \in Before
                          /\ step'[k] \in After => step[k] \in After
                          /\ step'[k] = "importing" => step[k] = "importing"
      BY <2>0, <2>2 DEF Before, After, memory
    <3> QED
      BY <3>1, <3>2, <3>3, ChainMoves
  <2>3. ASSUME NEW j \in Jobs, Fail(j), step[j] \in Before, UNCHANGED files,
               \A k \in Jobs : imp'[k] = imp[k] \/ imp'[k] = "check"
        PROVE  Placed'
    <3>1. UNCHANGED <<owner, job>> /\ Unspoilt' = Unspoilt
      BY <2>3, FailEnds DEF Unspoilt
    <3>2. \A k \in Jobs : /\ Engaged(k)' => Engaged(k)
                          /\ step'[k] \in Before => step[k] \in Before
                          /\ step'[k] \in After => step[k] \in After
                          /\ step'[k] = "importing" => step[k] = "importing"
      BY <2>0, <2>3, FailEnds DEF Before, After, Engaged
    <3> QED
      BY <2>3, <3>1, <3>2, ChainMoves
  <2>4. ASSUME NEW j \in Jobs, OrderExport(j) PROVE Placed'
    <3>1. step[j] = "export" /\ UNCHANGED <<files, imp>>
      BY <2>4 DEF OrderExport, machine
    <3>2. CASE Fail(j)
      BY <2>3, <3>1, <3>2 DEF Before
    <3>3. CASE ~Fail(j)
      <4>1. step' = [step EXCEPT ![j] = "exporting"] /\ UNCHANGED <<rows, history>>
        BY <2>4, <3>3 DEF OrderExport
      <4> QED
        BY <2>0, <3>1, <4>1, ChainMoves DEF Before, After, Engaged, Unspoilt, rows, history
    <3> QED
      BY <3>2, <3>3
  <2>5. ASSUME NEW j \in Jobs, OrderImport(j) PROVE Placed'
    <3>1. /\ step[j] = "import" /\ UNCHANGED files
          /\ \A k \in Jobs : imp'[k] = imp[k] \/ imp'[k] = "check"
          /\ imp'[j] = "check"
      BY <2>0, <2>5 DEF OrderImport, machine
    <3>2. CASE Fail(j)
      BY <2>3, <3>1, <3>2 DEF Before
    <3>3. CASE ~Fail(j)
      <4>1. step' = [step EXCEPT ![j] = "importing"] /\ UNCHANGED <<rows, history>>
        BY <2>5, <3>3 DEF OrderImport
      <4> QED
        BY <2>0, <3>1, <4>1, ChainMoves DEF Before, After, Engaged, Unspoilt, rows, history
    <3> QED
      BY <3>2, <3>3
  <2>6. ASSUME NEW j \in Jobs, StepFails(j) PROVE Placed'
    <3>1. Fail(j) /\ step[j] \in Before /\ UNCHANGED <<files, imp>>
      BY <2>6 DEF StepFails, Before, machine, tasks
    <3> QED
      BY <2>3, <3>1
  <2>7. CASE PanelRestarts
    <3>1. UNCHANGED <<owner, job, files, imp>> /\ Unspoilt' = Unspoilt
      BY <2>7 DEF PanelRestarts, Unspoilt, machine, tasks
    <3>2. \A k \in Jobs : /\ step'[k] \in {"none", "sweep"}
                          /\ status'[k] = "active" => status[k] = "active"
      BY <2>0, <2>7 DEF PanelRestarts
    <3> QED
      BY <3>1, <3>2, ChainMoves DEF Before, After, Engaged
  <2>8. ASSUME NEW j \in Jobs, Ask(j) PROVE Placed'
    <3>1. /\ UNCHANGED <<owner, step, files, imp>> /\ Unspoilt' = Unspoilt
          /\ status[j] = "unasked"
      BY <2>8 DEF Ask, Unspoilt, memory, machine, tasks, history
    <3>2. imp[j] = "none" /\ step[j] = "none"
      BY <2>0, <3>1 DEF ChainsActive, Awaited
    <3>3. /\ \A k \in Jobs \ {j} : /\ status'[k] = status[k]
                                   /\ Moves(k)' = Moves(k) /\ To(k)' = To(k) /\ From(k)' = From(k)
          /\ status'[j] # "active"
      BY <2>0, <2>8 DEF Ask, TypeOK, RowsOK, Moves, To, From
    <3>4. \A k \in Jobs, m \in Agents : Writes(k, m)' = Writes(k, m)
      BY <3>1, <3>2, <3>3 DEF Writes
    <3>5. \A m \in Agents : Settled(m)' = Settled(m)
      BY <3>1, <3>4 DEF Settled
    <3> QED
      BY <2>0, <3>1, <3>2, <3>3, <3>4, <3>5 DEF Placed, Before, After, Engaged
  <2>9. ASSUME NEW j \in Jobs, Admit(j) PROVE Placed'
    <3> SUFFICES ASSUME Unspoilt' PROVE Placed'
      BY DEF Placed
    <3>1. /\ UNCHANGED <<owner, job, files, imp>>
          /\ step'[j] \in {"insert", "mark"} /\ Engaged(j)'
          /\ \A k \in Jobs \ {j} : step'[k] = step[k] /\ status'[k] = status[k]
      BY <2>0, <2>9 DEF Admit, Engaged, machine, tasks
    <3>2. owner = From(j) /\ \A k \in Jobs : status[k] # "active" /\ step[k] # "insert"
      BY <2>9 DEF Admit, Unspoilt, Idle, Stretch
    <3>3. Unspoilt /\ \A k \in Jobs : step[k] \in {"none", "restore", "reset", "discard"}
      BY <2>9, <3>2 DEF Admit, Unspoilt, ChainsActive
    <3>4. /\ \A k \in Jobs : Moves(k)' = Moves(k) /\ To(k)' = To(k) /\ From(k)' = From(k)
          /\ \A k \in Jobs, m \in Agents : Writes(k, m)' = Writes(k, m)
      BY <3>1 DEF Moves, To, From, Writes
    <3>5. \A m \in Agents : Settled(m)' = Settled(m)
      BY <3>1, <3>4 DEF Settled
    <3>6. /\ \A k \in Jobs : step'[k] \in Before => k = j
          /\ \A k \in Jobs : step'[k] \notin After \cup {"importing"}
          /\ \A k \in Jobs : Engaged(k)' => k = j
      BY <2>0, <3>1, <3>2, <3>3 DEF Before, After, Engaged
    <3> QED
      BY <2>0, <3>1, <3>2, <3>3, <3>4, <3>5, <3>6 DEF Placed
  <2>10. ASSUME NEW j \in Jobs, Switch(j) PROVE Placed'
    <3>1. step[j] = "importing" /\ imp[j] = "done" /\ Moves(j) /\ UNCHANGED <<files, imp>>
      BY <2>10 DEF Switch, Imported, machine, tasks
    <3>2. CASE Fail(j)
      BY <2>3, <3>1, <3>2 DEF Before
    <3>3. CASE ~Fail(j)
      <4>1. /\ owner' = To(j) /\ step' = [step EXCEPT ![j] = "tell"]
            /\ UNCHANGED <<job, status, history>>
        BY <2>10, <3>3 DEF Switch
      <4> SUFFICES ASSUME Unspoilt PROVE Placed'
        BY <4>1 DEF Placed, Unspoilt, history
      <4>2. /\ \A k \in Jobs : Moves(k)' = Moves(k) /\ To(k)' = To(k) /\ From(k)' = From(k)
            /\ \A k \in Jobs, m \in Agents : Writes(k, m)' = Writes(k, m)
        BY <3>1, <4>1 DEF Moves, To, From, Writes
      <4>3. \A m \in Agents : Settled(m)' = Settled(m)
        BY <3>1, <4>2 DEF Settled
      <4>4. Settled(To(j)) /\ Settled(From(j))
        BY <3>1 DEF Placed, Before
      <4>5. Engaged(j) /\ \A k \in Jobs \ {j} : ~Engaged(k)
        BY <3>1 DEF Placed, ChainsActive, Engaged
      <4>6. /\ \A k \in Jobs : step'[k] \in Before \cup After => k = j /\ step'[k] = "tell"
            /\ \A k \in Jobs : Engaged(k)' => k = j
        BY <2>0, <4>1, <4>5 DEF ChainsActive, Engaged, Before, After
      <4>7. Settled(owner)'
        BY <2>0, <3>1, <4>1, <4>2, <4>4 DEF Settled
      <4> QED
        BY <2>0, <3>1, <4>1, <4>2, <4>3, <4>4, <4>6, <4>7 DEF Placed, Before, After
    <3> QED
      BY <3>2, <3>3
  <2>11. ASSUME NEW j \in Jobs, Finalize(j) PROVE Placed'
    <3>1. /\ step[j] = "finalize" /\ step' = [step EXCEPT ![j] = "finish"]
          /\ UNCHANGED <<owner, job, status, imp>> /\ Unspoilt' = Unspoilt
          /\ files' \in {files, [files EXCEPT ![From(j)] = "none"]}
      BY <2>11 DEF Finalize, Unspoilt, rows, machine, tasks, history
    <3> SUFFICES ASSUME Unspoilt PROVE Placed'
      BY <3>1 DEF Placed
    <3>2. Moves(j) /\ owner = To(j) /\ Settled(From(j)) /\ To(j) # From(j)
      BY <3>1 DEF Placed, After, ChainsActive
    <3>3. /\ \A k \in Jobs : Moves(k)' = Moves(k) /\ To(k)' = To(k) /\ From(k)' = From(k)
          /\ \A k \in Jobs, m \in Agents : Writes(k, m)' = Writes(k, m)
      BY <3>1 DEF Moves, To, From, Writes
    <3>4. \A m \in Agents \ {From(j)} : files'[m] = files[m] /\ Settled(m)' = Settled(m)
      BY <2>0, <3>1, <3>3 DEF Settled
    <3>8. Engaged(j) /\ \A k \in Jobs \ {j} : ~Engaged(k)
      BY <3>1 DEF Placed, ChainsActive, Engaged
    <3>5. /\ \A k \in Jobs : step'[k] \notin Before \cup After
          /\ \A k \in Jobs : Engaged(k)' => k = j
      BY <2>0, <3>1, <3>8 DEF ChainsActive, Engaged, Before, After
    <3>6. \A k \in Jobs : ~Writes(k, From(j))
      BY <3>2 DEF Settled
    <3>7. Settled(owner)'
      BY <2>0, <3>1, <3>2, <3>3, <3>4 DEF Placed, Settled
    <3> QED
      BY <2>0, <3>1, <3>3, <3>4, <3>5, <3>6, <3>7 DEF Placed, Before, After
  <2>12. ASSUME NEW j \in Jobs, ImportChecks(j) PROVE Placed'
    <3>1. /\ UNCHANGED <<owner, job, status, step, files>> /\ Unspoilt' = Unspoilt
          /\ \A k \in Jobs : imp'[k] = imp[k] \/ imp'[k] = "fetch"
      BY <2>0, <2>12 DEF ImportChecks, Unspoilt, rows, memory, machine, history
    <3> QED
      BY <3>1, ChainMoves DEF Engaged
  <2>13. ASSUME NEW j \in Jobs, ImportFetched(j) PROVE Placed'
    <3>1. /\ UNCHANGED <<owner, job, status, step>> /\ imp[j] = "fetch"
      BY <2>13 DEF ImportFetched, rows, memory
    <3> SUFFICES ASSUME Unspoilt' PROVE Placed'
      BY DEF Placed
    <3>2. Unspoilt /\ Target(j) = "none"
      BY <2>13 DEF ImportFetched, Unspoilt
    <3>3. imp'[j] = "extract"
      BY <2>0, <2>13, <3>2 DEF ImportFetched
    <3>4. \A k \in Jobs \ {j} : imp'[k] = imp[k]
      <4> SUFFICES ASSUME NEW k \in Jobs \ {j}, imp'[k] # imp[k] PROVE FALSE
        OBVIOUS
      <4>1. Moves(j) /\ Moves(k) /\ To(k) = To(j) /\ imp[k] = "extract"
        BY <2>0, <2>13 DEF ImportFetched
      <4>2. Writes(k, To(j)) /\ files[To(j)] = "none"
        BY <3>2, <4>1 DEF Writes, Target
      <4> QED
        BY <2>0, <3>2, <4>1, <4>2 DEF Placed
    <3>5. \A m \in Agents : files'[m] = files[m] \/ (Moves(j) /\ m = To(j))
      BY <2>0, <2>13 DEF ImportFetched
    <3>6. ASSUME Moves(j)
          PROVE  /\ files[To(j)] = "none" /\ files'[To(j)] = "partial"
                 /\ \A k \in Jobs : ~Writes(k, To(j))
      BY <2>0, <2>13, <3>2, <3>6 DEF ImportFetched, Target, Placed
    <3> QED
      BY <3>1, <3>2, <3>3, <3>4, <3>5, <3>6, ImportMoves DEF Settled
  <2>14. ASSUME NEW j \in Jobs, Moves(j), Unspoilt,
                imp[j] \in {"extract", "overlay", "registered", "started"}
         PROVE  /\ imp[j] # "overlay"
                /\ ~Settled(To(j)) /\ \A k \in Jobs \ {j} : ~Writes(k, To(j))
                /\ imp[j] # "extract" => files[To(j)] = "whole"
    <3>1. Writes(j, To(j))
      BY <2>14 DEF Writes
    <3> QED
      BY <2>0, <2>14, <3>1 DEF Placed, Settled
  <2>15. ASSUME NEW j \in Jobs, ImportRegisters(j) PROVE Placed'
    <3>1. /\ UNCHANGED <<owner, job, status, step>> /\ Unspoilt' = Unspoilt
          /\ imp[j] \in {"extract", "overlay"} /\ imp' = [imp EXCEPT ![j] = "registered"]
      BY <2>15 DEF ImportRegisters, Fetching, Unspoilt, rows, memory, history
    <3> SUFFICES ASSUME Unspoilt PROVE Placed'
      BY <3>1 DEF Placed
    <3>2. /\ \A m \in Agents : files'[m] = files[m] \/ (Moves(j) /\ m = To(j))
          /\ Moves(j) /\ imp[j] = "extract" => files'[To(j)] = "whole"
      BY <2>0, <2>15 DEF ImportRegisters
    <3>3. imp'[j] = "registered" /\ \A k \in Jobs \ {j} : imp'[k] = imp[k]
      BY <2>0, <3>1
    <3> QED
      BY <2>14, <3>1, <3>2, <3>3, ImportMoves
  <2>16. ASSUME NEW j \in Jobs, ImportStarts(j) PROVE Placed'
    <3>1. /\ UNCHANGED <<owner, job, status, step, files>> /\ Unspoilt' = Unspoilt
          /\ imp[j] = "registered" /\ imp' = [imp EXCEPT ![j] = "started"]
      BY <2>16 DEF ImportStarts, Unspoilt, rows, memory, history
    <3> SUFFICES ASSUME Unspoilt PROVE Placed'
      BY <3>1 DEF Placed
    <3>2. imp'[j] = "started" /\ \A k \in Jobs \ {j} : imp'[k] = imp[k]
      BY <2>0, <3>1
    <3> QED
      BY <2>14, <3>1, <3>2, ImportMoves
  <2>17. ASSUME NEW j \in Jobs, ImportEnds(j) PROVE Placed'
    <3>1. /\ UNCHANGED <<owner, job, status, step, files>> /\ Unspoilt' = Unspoilt
          /\ imp[j] = "started" /\ imp' = [imp EXCEPT ![j] = "done"]
      BY <2>17 DEF ImportEnds, Unspoilt, rows, memory, machine, history
    <3> SUFFICES ASSUME Unspoilt PROVE Placed'
      BY <3>1 DEF Placed
    <3>2. imp'[j] = "done" /\ \A k \in Jobs \ {j} : imp'[k] = imp[k]
      BY <2>0, <3>1
    <3>3. Moves(j) => ~Writes(j, To(j))' /\ Settled(To(j))'
      BY <2>0, <2>14, <3>1, <3>2 DEF Writes, Settled, Moves, To
    <3> QED
      BY <2>14, <3>1, <3>2, <3>3, ImportMoves
  <2>18. ASSUME NEW j \in Jobs, TaskFails(j) PROVE Placed'
    <3>1. UNCHANGED <<owner, job, status, step>> /\ Unspoilt' = Unspoilt
      BY <2>18 DEF TaskFails, Unspoilt, rows, memory, history
    <3>2. CASE UNCHANGED <<imp, files>>
      BY <3>1, <3>2, ChainMoves DEF Engaged
    <3>3. CASE ~UNCHANGED <<imp, files>>
      <4> DEFINE js == IF imp[j] \in Fetching THEN {j} ELSE {}
      <4>1. Remove(js) /\ imp' = [imp EXCEPT ![j] = "failed"]
        BY <2>18, <3>3 DEF TaskFails
      <4>2. js \in SUBSET Jobs /\ \A k \in js : Moves(k) => Writes(k, To(k))
        BY DEF Fetching, Writes
      <4>3. \A k \in Jobs : imp'[k] \in {imp[k], "failed"} /\ (k \in js => imp'[k] = "failed")
        BY <2>0, <4>1
      <4> HIDE DEF js
      <4> QED
        BY <3>1, <4>1, <4>2, <4>3, RemovalHarmless
    <3> QED
      BY <3>2, <3>3
  <2>19. ASSUME NEW a \in Agents, AgentRestarts(a) PROVE Placed'
    <3>1. UNCHANGED <<owner, job, status, step>> /\ Unspoilt' = Unspoilt
      BY <2>19 DEF AgentRestarts, Unspoilt, rows
    <3>2. PICK unkept \in SUBSET Unkept :
             Remove({j \in Jobs : To(j) = a /\ (imp[j] \in Fetching \/ j \in unkept)})
      BY <2>19 DEF AgentRestarts
    <3> DEFINE js == {j \in Jobs : To(j) = a /\ (imp[j] \in Fetching \/ j \in unkept)}
    <3>3. imp' = [k \in Jobs |-> IF To(k) = a /\ imp[k] \notin {"none", "done"}
                                THEN "failed" ELSE imp[k]]
      BY <2>19 DEF AgentRestarts
    <3>4. \A k \in Jobs : imp'[k] \in {imp[k], "failed"} /\ (k \in js => imp'[k] = "failed")
      BY <3>3 DEF Fetching, Unkept
    <3>5. js \in SUBSET Jobs /\ \A k \in js : Moves(k) => Writes(k, To(k))
      BY DEF Fetching, Unkept, Writes
    <3>6. Remove(js)
      BY <3>2
    <3> HIDE DEF js
    <3> QED
      BY <3>1, <3>4, <3>5, <3>6, RemovalHarmless
  <2> QED
    BY <2>1, <2>2, <2>4, <2>5, <2>6, <2>7, <2>8, <2>9, <2>10, <2>11, <2>12, <2>13, <2>15,
       <2>16, <2>17, <2>18, <2>19
       DEF Next, PanelStep, TaskStep, Around
<1> QED
  BY <1>1, <1>2, TypeCorrect, ChainsActiveHolds, PTL DEF Spec

(* Whatever restarts, fails or is lost, the machine that owns the server   *)
(* holds its whole directory, unless a job was admitted on checks that no  *)
(* longer held or an import wrote over what came to its directory.         *)
THEOREM OwnerHasFilesHolds == Spec => []OwnerHasFiles
<1>1. Placed => OwnerHasFiles
  BY DEF Placed, Settled, Unspoilt, OwnerHasFiles
<1> QED
  BY <1>1, PlacedHolds, PTL

-----------------------------------------------------------------------------
(* What leaves the tasks of the exports and the chains as they are, or ends*)
(* chains, leaves Exported as it is.                                       *)
LEMMA ExportsKept ==
    ASSUME Exported, UNCHANGED exp,
           \A k \in Jobs :
              /\ status'[k] \in Awaited => status[k] \in Awaited
              /\ step'[k] \in {"mark", "export", "import", "importing"} => step'[k] = step[k]
    PROVE  Exported'
BY DEF Exported

(* An export is ordered where its chain says so, and its archive is there  *)
(* once the chain goes on to the import.                                   *)
THEOREM ExportedHolds == Spec => []Exported
<1>1. Init => Exported
  BY DEF Init, Exported
<1>2. TypeOK /\ ChainsActive /\ Exported /\ [Next]_vars => Exported'
  <2> SUFFICES ASSUME TypeOK, ChainsActive, Exported, [Next]_vars
               PROVE  Exported'
    OBVIOUS
  <2>0. /\ status \in [Jobs -> Statuses] /\ step \in [Jobs -> Steps]
        /\ exp \in [Jobs -> Exports]
    BY DEF TypeOK, RowsOK, MemoryOK, TasksOK
  <2>1. ASSUME NEW j \in Jobs, ExportStops(j) \/ ExportSaves(j) PROVE Exported'
    <3>1. UNCHANGED <<status, step>> /\ exp[j] \in {"stop", "backup"}
      BY <2>1 DEF ExportStops, ExportSaves, rows, memory
    <3>2. \A k \in Jobs \ {j} : exp'[k] = exp[k]
      BY <2>0, <2>1 DEF ExportStops, ExportSaves
    <3> QED
      BY <3>1, <3>2 DEF Exported
  <2>2. ASSUME Around, UNCHANGED exp PROVE Exported'
    BY <2>2, AroundLeaves, ExportsKept
  <2>3. CASE Around
    <3>1. CASE \E j \in Jobs : Scan(j)
      BY <2>2, <2>3, <3>1 DEF Scan, tasks
    <3>2. ASSUME NEW a \in Agents,
                 Cut(a) \/ Sync(a) \/ StartDue(a) \/ ServerExits(a) \/ Play(a)
          PROVE  UNCHANGED exp
      BY <3>2 DEF Cut, Sync, StartDue, ServerExits, Play, tasks
    <3>3. CASE OrderStart \/ OrderStop \/ UNCHANGED vars
      BY <2>2, <2>3, <3>3 DEF OrderStart, OrderStop, Order, vars, tasks
    <3> QED
      BY <2>1, <2>2, <2>3, <3>1, <3>2, <3>3 DEF Around
  <2>4. ASSUME NEW j \in Jobs, Ask(j) \/ Precheck(j) \/ Refuse(j) PROVE Exported'
    <3>1. UNCHANGED <<step, exp>> /\ status[j] \in Awaited
      BY <2>4 DEF Ask, Precheck, Refuse, Awaited, memory, tasks
    <3>2. \A k \in Jobs \ {j} : status'[k] = status[k]
      BY <2>0, <2>4 DEF Ask, Precheck, Refuse
    <3> QED
      BY <3>1, <3>2, ExportsKept
  <2>5. ASSUME NEW j \in Jobs, Admit(j) \/ Insert(j) \/ Mark(j) PROVE Exported'
    <3>1. exp[j] = "none" /\ UNCHANGED exp
      BY <2>5 DEF Admit, Insert, Mark, ChainsActive, Exported, Awaited, tasks
    <3>2. step'[j] \in {"insert", "mark", "export"}
      BY <2>0, <2>5 DEF Admit, Insert, Mark
    <3>3. \A k \in Jobs \ {j} : step'[k] = step[k] /\ status'[k] = status[k]
      BY <2>0, <2>5 DEF Admit, Insert, Mark
    <3> QED
      BY <3>1, <3>2, <3>3 DEF Exported
  <2>6. ASSUME NEW j \in Jobs, Fail(j), UNCHANGED exp PROVE Exported'
    BY <2>0, <2>6, FailEnds, ExportsKept DEF Awaited
  <2>7. ASSUME NEW j \in Jobs, OrderExport(j) PROVE Exported'
    <3>1. step[j] = "export" /\ exp' = [exp EXCEPT ![j] = "stop"]
      BY <2>7 DEF OrderExport
    <3>2. status[j] = "active"
      BY <3>1 DEF ChainsActive
    <3>3. \A k \in Jobs \ {j} : exp'[k] = exp[k] /\ step'[k] = step[k] /\ status'[k] = status[k]
      BY <2>0, <2>7, <3>1, FailEnds DEF OrderExport, rows
    <3>4. /\ step'[j] \in {"exporting", "restore", "relaunch", "fail"}
          /\ status'[j] \in {"active", "failed"}
      BY <2>0, <2>7, <3>2, FailEnds DEF OrderExport, rows
    <3> QED
      BY <3>3, <3>4 DEF Exported, Awaited
  <2>8. ASSUME NEW j \in Jobs, OrderImport(j) PROVE Exported'
    <3>1. step[j] = "import" /\ UNCHANGED exp
      BY <2>8 DEF OrderImport
    <3>2. CASE Fail(j)
      BY <2>6, <3>1, <3>2
    <3>3. CASE ~Fail(j)
      BY <2>0, <2>8, <3>1, <3>3 DEF OrderImport, Exported, rows
    <3> QED
      BY <3>2, <3>3
  <2>9. ASSUME NEW j \in Jobs, StepFails(j) PROVE Exported'
    BY <2>6, <2>9 DEF StepFails, tasks
  <2>10. ASSUME NEW j \in Jobs, ExportSeen(j) PROVE Exported'
    BY <2>0, <2>10 DEF ExportSeen, Exported, rows, tasks, ChainsActive
  <2>11. ASSUME NEW j \in Jobs, Switch(j) PROVE Exported'
    <3>1. CASE Fail(j)
      BY <2>6, <2>11, <3>1 DEF Switch, tasks
    <3>2. CASE ~Fail(j)
      BY <2>0, <2>11, <3>2, ExportsKept DEF Switch, Awaited, tasks
    <3> QED
      BY <3>1, <3>2
  <2>12. ASSUME NEW j \in Jobs,
                \/ TellTarget(j) \/ TellSource(j) \/ Finalize(j) \/ Conclude(j)
                \/ CopySeen(j) \/ Confirm(j) \/ Relaunch(j) \/ Restart(j)
                \/ Restore(j) \/ Sweep(j) \/ Reset(j) \/ Discard(j)
         PROVE  Exported'
    <3> USE DEF TellTarget, TellSource, Push, Finalize, Conclude, CopySeen, Confirm, Relaunch,
                Restart, Restore, Sweep, Reset, Discard
    <3>1. UNCHANGED exp
      BY <2>12 DEF tasks
    <3>2. \A k \in Jobs : status'[k] \in Awaited => status[k] \in Awaited
      BY <2>0, <2>12 DEF Awaited, rows
    <3>3. \A k \in Jobs :
             step'[k] \in {"mark", "export", "import", "importing"} => step'[k] = step[k]
      BY <2>0, <2>12
    <3> QED
      BY <3>1, <3>2, <3>3, ExportsKept
  <2>13. CASE PanelRestarts
    <3>1. \A j \in Jobs : /\ step'[j] \in {"none", "sweep"}
                          /\ status'[j] \in Awaited => status'[j] = status[j]
      BY <2>0, <2>13 DEF PanelRestarts, Awaited
    <3> QED
      BY <2>13, <3>1, ExportsKept DEF PanelRestarts, tasks
  <2>14. ASSUME NEW j \in Jobs,
                \/ ImportChecks(j) \/ ImportFetched(j) \/ ImportRegisters(j)
                \/ ImportStarts(j) \/ ImportEnds(j)
         PROVE  Exported'
    BY <2>14, ExportsKept DEF ImportChecks, ImportFetched, ImportRegisters, ImportStarts,
       ImportEnds, rows, memory
  <2>15. ASSUME UNCHANGED <<status, step>>,
                \A k \in Jobs : exp'[k] = exp[k] \/ exp[k] \in {"stop", "backup"}
         PROVE  Exported'
    BY <2>15 DEF Exported
  <2>16. ASSUME NEW j \in Jobs, TaskFails(j) PROVE Exported'
    BY <2>0, <2>15, <2>16 DEF TaskFails, rows, memory
  <2>17. ASSUME NEW a \in Agents, AgentRestarts(a) PROVE Exported'
    BY <2>0, <2>15, <2>17 DEF AgentRestarts, rows
  <2> QED
    BY <2>1, <2>3, <2>4, <2>5, <2>7, <2>8, <2>9, <2>10, <2>11, <2>12, <2>13, <2>14, <2>16,
       <2>17
       DEF Next, PanelStep, StretchStep, TaskStep, Around
<1> QED
  BY <1>1, <1>2, TypeCorrect, ChainsActiveHolds, PTL DEF Spec

-----------------------------------------------------------------------------
(* A step that plays nothing, brings no import to its place and no chain to*)
(* a later stage leaves the worlds where they are.                         *)
LEMMA WorldsKept ==
    ASSUME Worlds, UNCHANGED <<owner, job, newest>>, Straight' => Straight,
           Straight' => world'[owner] = world[owner],
           \A k \in Jobs : Moves(k) /\ step'[k] \in Before /\ exp'[k] = "done" =>
              step[k] \in Before /\ exp[k] = "done" /\ archive'[k] = archive[k],
           \A k \in Jobs :
              Straight' /\ Moves(k) /\ step'[k] = "importing" /\ imp'[k] \in Landed =>
                 step[k] = "importing" /\ imp[k] \in Landed /\ world'[To(k)] = world[To(k)]
    PROVE  Worlds'
<1> SUFFICES ASSUME Straight' PROVE Worlds'
  BY DEF Worlds
<1>1. \A k \in Jobs : Moves(k)' = Moves(k) /\ To(k)' = To(k)
  BY DEF Moves, To
<1> QED
  BY <1>1 DEF Worlds

(* A directory from which the last world may still be taken is not one that*)
(* an import may remove or fill.                                           *)
LEMMA WorldsApart ==
    ASSUME TypeOK, Placed, Straight, NEW k \in Jobs, Writes(k, To(k))
    PROVE  /\ To(k) # owner
           /\ \A l \in Jobs \ {k} :
                 Moves(l) /\ step[l] = "importing" /\ imp[l] \in Landed => To(l) # To(k)
<1>1. Unspoilt /\ To(k) \in Agents
  BY JobFields DEF Unspoilt, Straight, TypeOK, RowsOK
<1>2. To(k) # owner
  BY <1>1 DEF Placed, Settled
<1>3. ASSUME NEW l \in Jobs \ {k}, Moves(l), step[l] = "importing", imp[l] \in Landed,
             To(l) = To(k)
      PROVE  FALSE
  <2>1. CASE imp[l] = "done"
    BY <1>1, <1>3, <2>1 DEF Placed, Settled
  <2>2. CASE imp[l] # "done"
    <3>1. Writes(l, To(k))
      BY <1>3, <2>2 DEF Writes, Landed
    <3> QED
      BY <1>1, <3>1 DEF Placed
  <2> QED
    BY <2>1, <2>2
<1> QED
  BY <1>2, <1>3

(* Nor is it taken away with the artifacts of imports that failed.         *)
LEMMA WorldsSpared ==
    ASSUME TypeOK, Placed, Worlds, UNCHANGED <<owner, job, newest, odd, step, archive>>,
           NEW js \in SUBSET Jobs, Remove(js),
           \A k \in js : Moves(k) => Writes(k, To(k)),
           \A k \in js : imp'[k] = "failed",
           \A k \in Jobs : imp'[k] \in {imp[k], "failed"},
           \A k \in Jobs : exp'[k] \in {exp[k], "failed"}
    PROVE  Worlds'
<1> SUFFICES ASSUME Straight PROVE Worlds'
  BY DEF Worlds, Straight
<1>1. owner \in Agents /\ \A k \in Jobs : To(k) \in Agents
  BY JobFields DEF TypeOK, RowsOK
<1>2. Unspoilt
  BY DEF Unspoilt, Straight
<1>3. \A m \in Agents : /\ \A k \in js : ~(Moves(k) /\ To(k) = m)
                        /\ files[m] # "none"
                        => world'[m] = world[m]
  BY DEF Remove
<1>4. world'[owner] = world[owner]
  BY <1>1, <1>2, <1>3, WorldsApart DEF Placed, Settled
<1>6. \A k \in Jobs : exp'[k] = "done" => exp[k] = "done"
  OBVIOUS
<1>5. ASSUME NEW k \in Jobs, Moves(k), step[k] = "importing", imp'[k] \in Landed
      PROVE  imp[k] \in Landed /\ world'[To(k)] = world[To(k)]
  <2>1. imp'[k] = imp[k] /\ k \notin js
    BY <1>5 DEF Landed
  <2>2. \A l \in js : ~(Moves(l) /\ To(l) = To(k))
    BY <1>5, <2>1, WorldsApart
  <2>3. files[To(k)] = "whole"
    <3>1. CASE imp[k] = "done"
      BY <1>2, <1>5, <3>1 DEF Placed, Settled
    <3>2. CASE imp[k] # "done"
      <4>1. Writes(k, To(k)) /\ imp[k] # "extract"
        BY <1>5, <2>1, <3>2 DEF Writes, Landed
      <4> QED
        BY <1>1, <1>2, <4>1 DEF Placed
    <3> QED
      BY <3>1, <3>2
  <2> QED
    BY <1>1, <1>3, <1>5, <2>1, <2>2, <2>3
<1> QED
  BY <1>4, <1>5, <1>6, WorldsKept DEF Straight

(* The last world goes with the server: from its owner to the archive, from*)
(* there to the target, which the switch makes the owner.                  *)
THEOREM WorldsHolds == Spec => []Worlds
<1>1. Init => Worlds
  BY HomeAssumption DEF Init, Worlds
<1>2. /\ TypeOK /\ ChainsActive /\ Placed /\ Exported /\ Exported' /\ Worlds
      /\ [Next]_vars
      => Worlds'
  <2> SUFFICES ASSUME TypeOK, ChainsActive, Placed, Exported, Exported', Worlds, [Next]_vars
               PROVE  Worlds'
    OBVIOUS
  <2>0. /\ status \in [Jobs -> Statuses] /\ step \in [Jobs -> Steps]
        /\ exp \in [Jobs -> Exports] /\ imp \in [Jobs -> Imports]
        /\ archive \in [Jobs -> 0..MaxWorld]
        /\ files \in [Agents -> Contents] /\ world \in [Agents -> 0..MaxWorld]
        /\ owner \in Agents /\ newest \in 0..MaxWorld
        /\ \A k \in Jobs : From(k) \in Agents /\ To(k) \in Agents
    BY JobFields DEF TypeOK, RowsOK, MemoryOK, MachineOK, TasksOK, HistoryOK
  <2> USE DEF Straight
  <2>1. ASSUME UNCHANGED <<owner, job, newest, odd, exp, archive, world, imp>>,
               \A k \in Jobs : /\ step'[k] \in Before => step[k] \in Before
                               /\ step'[k] = "importing" => step[k] = "importing"
        PROVE  Worlds'
    BY <2>1, WorldsKept
  <2>2. ASSUME NEW j \in Jobs,
               \/ Precheck(j) \/ Refuse(j) \/ ExportSeen(j) \/ TellTarget(j) \/ TellSource(j)
               \/ Conclude(j) \/ CopySeen(j) \/ Confirm(j) \/ Relaunch(j) \/ Restart(j)
               \/ StretchStep(j)
        PROVE  Worlds'
    <3> USE DEF Precheck, Refuse, ExportSeen, TellTarget, TellSource, Push, Conclude, CopySeen,
                Confirm, Relaunch, Restart, StretchStep, Insert, Mark, Restore, Sweep, Reset,
                Discard
    <3>1. UNCHANGED <<owner, job, newest, odd, exp, archive, world, imp>>
      BY <2>2 DEF rows, machine, tasks, history
    <3>2. \A k \in Jobs : /\ step'[k] \in Before => step[k] \in Before
                          /\ step'[k] = "importing" => step[k] = "importing"
      BY <2>0, <2>2 DEF Before, memory
    <3> QED
      BY <2>1, <3>1, <3>2
  <2>3. ASSUME NEW j \in Jobs, Fail(j), step[j] \in Before,
               UNCHANGED <<archive, world, imp>>,
               \A k \in Jobs : exp'[k] = "done" => exp[k] = "done"
        PROVE  Worlds'
    <3>1. UNCHANGED <<owner, job, newest, odd>>
      BY <2>3 DEF Fail, history
    <3>2. \A k \in Jobs : /\ step'[k] \in Before => step[k] \in Before
                          /\ step'[k] = "importing" => step[k] = "importing"
      BY <2>0, <2>3, FailEnds DEF Before
    <3> QED
      BY <2>3, <3>1, <3>2, WorldsKept
  <2>4. ASSUME NEW j \in Jobs, OrderExport(j) PROVE Worlds'
    <3>1. /\ step[j] = "export" /\ UNCHANGED <<archive, world, imp>>
          /\ \A k \in Jobs : exp'[k] = "done" => exp[k] = "done"
      BY <2>0, <2>4 DEF OrderExport, machine
    <3>2. CASE Fail(j)
      BY <2>3, <3>1, <3>2 DEF Before
    <3>3. CASE ~Fail(j)
      <4>1. step' = [step EXCEPT ![j] = "exporting"] /\ UNCHANGED <<rows, history>>
        BY <2>4, <3>3 DEF OrderExport
      <4> QED
        BY <2>0, <3>1, <4>1, WorldsKept DEF Before, rows, history
    <3> QED
      BY <3>2, <3>3
  <2>5. ASSUME NEW j \in Jobs, OrderImport(j) PROVE Worlds'
    <3>1. /\ step[j] = "import" /\ UNCHANGED <<archive, world, exp>>
          /\ imp' = [imp EXCEPT ![j] = "check"]
      BY <2>5 DEF OrderImport, machine
    <3>2. UNCHANGED <<owner, job, newest, odd>>
      BY <2>5 DEF OrderImport, Fail, rows, history
    <3>3. \A k \in Jobs : /\ step'[k] \in Before => step[k] \in Before
                          /\ k # j /\ step'[k] = "importing" => step[k] = "importing"
      BY <2>0, <2>5, <3>1, FailEnds DEF OrderImport, Before
    <3>4. imp'[j] \notin Landed /\ \A k \in Jobs \ {j} : imp'[k] = imp[k]
      BY <2>0, <3>1 DEF Landed
    <3> QED
      BY <3>1, <3>2, <3>3, <3>4, WorldsKept
  <2>6. ASSUME NEW j \in Jobs, StepFails(j) PROVE Worlds'
    <3>1. Fail(j) /\ step[j] \in Before /\ UNCHANGED <<archive, world, imp, exp>>
      BY <2>6 DEF StepFails, Before, machine, tasks
    <3> QED
      BY <2>3, <3>1
  <2>7. CASE PanelRestarts
    <3>1. UNCHANGED <<owner, job, newest, exp, archive, world, imp>> /\ (Straight' => Straight)
      BY <2>7 DEF PanelRestarts, Straight, machine, tasks
    <3>2. \A k \in Jobs : step'[k] \in {"none", "sweep"}
      BY <2>0, <2>7 DEF PanelRestarts
    <3> QED
      BY <3>1, <3>2, WorldsKept DEF Before
  <2>8. ASSUME NEW j \in Jobs, Ask(j) PROVE Worlds'
    <3>1. /\ UNCHANGED <<owner, step, exp, imp, archive, world, newest, odd>>
          /\ status[j] = "unasked"
      BY <2>8 DEF Ask, memory, machine, tasks, history
    <3>2. step[j] = "none"
      BY <2>0, <3>1 DEF ChainsActive, Awaited
    <3>3. \A k \in Jobs \ {j} : Moves(k)' = Moves(k) /\ To(k)' = To(k)
      BY <2>8 DEF Ask, TypeOK, RowsOK, Moves, To
    <3> QED
      BY <3>1, <3>2, <3>3 DEF Worlds, Before
  <2>9. ASSUME NEW j \in Jobs, Admit(j) PROVE Worlds'
    <3>1. /\ UNCHANGED <<owner, job, newest, exp, imp, archive, world>>
          /\ status[j] = "checked" /\ (Straight' => Straight)
      BY <2>9 DEF Admit, Straight, machine, tasks
    <3>2. exp[j] = "none"
      BY <3>1 DEF Exported, Awaited
    <3>3. /\ step'[j] \in {"insert", "mark"}
          /\ \A k \in Jobs \ {j} : step'[k] = step[k]
      BY <2>0, <2>9 DEF Admit
    <3> QED
      BY <3>1, <3>2, <3>3, WorldsKept
  <2>10. ASSUME NEW j \in Jobs, Switch(j) PROVE Worlds'
    <3>1. step[j] = "importing" /\ imp[j] = "done" /\ Moves(j) /\ UNCHANGED <<machine, tasks>>
      BY <2>10 DEF Switch, Imported
    <3>2. CASE Fail(j)
      BY <2>3, <3>1, <3>2 DEF Before, machine, tasks
    <3>3. CASE ~Fail(j)
      <4>1. /\ owner' = To(j) /\ step' = [step EXCEPT ![j] = "tell"]
            /\ UNCHANGED <<job, status, history>>
        BY <2>10, <3>3 DEF Switch
      <4> SUFFICES ASSUME Straight PROVE Worlds'
        BY <4>1 DEF Worlds, history
      <4>2. Unspoilt
        BY DEF Unspoilt, Straight
      <4>3. \A k \in Jobs \ {j} : ~Engaged(k)
        BY <3>1, <4>2 DEF Placed, ChainsActive, Engaged
      <4>4. \A k \in Jobs : step'[k] \notin Before
        BY <2>0, <4>1, <4>3 DEF Before, ChainsActive, Engaged
      <4>5. world[To(j)] = newest
        BY <3>1 DEF Worlds, Landed
      <4> QED
        BY <3>1, <4>1, <4>4, <4>5 DEF Worlds, Before, machine, tasks, history
    <3> QED
      BY <3>2, <3>3
  <2>11. ASSUME NEW j \in Jobs, Finalize(j) PROVE Worlds'
    <3>1. /\ step[j] = "finalize" /\ step' = [step EXCEPT ![j] = "finish"]
          /\ UNCHANGED <<owner, job, newest, odd, exp, imp, archive>>
          /\ world' \in {world, [world EXCEPT ![From(j)] = 0]}
      BY <2>11 DEF Finalize, rows, machine, tasks, history
    <3> SUFFICES ASSUME Straight PROVE Worlds'
      BY <3>1 DEF Worlds
    <3>2. Unspoilt
      BY DEF Unspoilt, Straight
    <3>3. Moves(j) /\ owner = To(j) /\ To(j) # From(j)
      BY <3>1, <3>2 DEF Placed, After, ChainsActive
    <3>4. \A k \in Jobs : step'[k] \notin Before
      BY <2>0, <3>1, <3>2 DEF Placed, ChainsActive, Engaged, Before
    <3>5. world'[owner] = world[owner]
      BY <2>0, <3>1, <3>3
    <3> QED
      BY <3>1, <3>4, <3>5 DEF Worlds, Before
  <2>12. ASSUME NEW j \in Jobs,
                ImportChecks(j) \/ ImportStarts(j) \/ ImportEnds(j)
         PROVE  Worlds'
    <3>1. UNCHANGED <<owner, job, newest, odd, step, exp, archive, world>>
      BY <2>12 DEF ImportChecks, ImportStarts, ImportEnds, rows, memory, machine, history
    <3>2. \A k \in Jobs : imp'[k] \in Landed => imp[k] \in Landed
      BY <2>0, <2>12 DEF ImportChecks, ImportStarts, ImportEnds, Landed
    <3> QED
      BY <3>1, <3>2, WorldsKept
  <2>13. ASSUME NEW j \in Jobs, ImportFetched(j) PROVE Worlds'
    <3>1. UNCHANGED <<owner, job, newest, step, exp, archive>> /\ (Straight' => Straight)
      BY <2>13 DEF ImportFetched, rows, memory
    <3> SUFFICES ASSUME Straight' PROVE Worlds'
      BY DEF Worlds
    <3>2. Unspoilt /\ Straight /\ Target(j) = "none"
      BY <2>13, <3>1 DEF ImportFetched, Unspoilt
    <3>3. \A k \in Jobs : imp'[k] \in Landed => imp[k] \in Landed
      BY <2>0, <2>13 DEF ImportFetched, Landed
    <3>4. \A m \in Agents : world'[m] = world[m] \/ files[m] = "none"
      BY <2>0, <2>13, <3>2 DEF ImportFetched, Target
    <3>5. world'[owner] = world[owner]
      BY <2>0, <3>2, <3>4 DEF Placed, Settled
    <3>6. ASSUME NEW k \in Jobs, Moves(k), step[k] = "importing", imp[k] \in Landed
          PROVE  files[To(k)] = "whole"
      <4>1. CASE imp[k] = "done"
        BY <3>2, <3>6, <4>1 DEF Placed, Settled
      <4>2. CASE imp[k] # "done"
        <5>1. Writes(k, To(k)) /\ imp[k] # "extract"
          BY <3>6, <4>2 DEF Writes, Landed
        <5> QED
          BY <2>0, <3>2, <5>1 DEF Placed
      <4> QED
        BY <4>1, <4>2
    <3>7. \A k \in Jobs : Moves(k) /\ step[k] = "importing" /\ imp[k] \in Landed =>
             world'[To(k)] = world[To(k)]
      BY <2>0, <3>4, <3>6
    <3> QED
      BY <3>1, <3>2, <3>3, <3>5, <3>7, WorldsKept
  <2>14. ASSUME NEW j \in Jobs, ImportRegisters(j) PROVE Worlds'
    <3>1. /\ UNCHANGED <<owner, job, newest, odd, step, exp, archive>>
          /\ imp[j] \in {"extract", "overlay"} /\ imp' = [imp EXCEPT ![j] = "registered"]
      BY <2>14 DEF ImportRegisters, Fetching, rows, memory, history
    <3> SUFFICES ASSUME Straight PROVE Worlds'
      BY <3>1 DEF Worlds
    <3>2. \A k \in Jobs \ {j} : imp'[k] = imp[k]
      BY <2>0, <3>1
    <3>3. CASE ~Moves(j)
      <4>1. UNCHANGED world
        BY <2>14, <3>3 DEF ImportRegisters
      <4> QED
        BY <3>1, <3>2, <3>3, <4>1, WorldsKept
    <3>4. CASE Moves(j)
      <4>1. Writes(j, To(j))
        BY <3>1, <3>4 DEF Writes
      <4>2. imp[j] = "extract"
        BY <2>0, <3>1, <4>1 DEF Placed, Unspoilt
      <4>3. world' = [world EXCEPT ![To(j)] = archive[j]]
        BY <2>14, <3>4, <4>2 DEF ImportRegisters, Staged
      <4>4. world'[owner] = world[owner]
        BY <2>0, <4>1, <4>3, WorldsApart
      <4>5. \A k \in Jobs \ {j} :
               Moves(k) /\ step[k] = "importing" /\ imp[k] \in Landed =>
                  world'[To(k)] = world[To(k)]
        BY <2>0, <4>1, <4>3, WorldsApart
      <4>6. step[j] = "importing" => world'[To(j)] = newest
        BY <2>0, <3>4, <4>3 DEF Worlds, Exported, Before
      <4>7. \A k \in Jobs : Moves(k)' = Moves(k) /\ To(k)' = To(k)
        BY <3>1 DEF Moves, To
      <4> QED
        BY <3>1, <3>2, <4>4, <4>5, <4>6, <4>7 DEF Worlds
    <3> QED
      BY <3>3, <3>4
  <2>15. ASSUME NEW j \in Jobs, TaskFails(j) PROVE Worlds'
    <3>1. UNCHANGED <<owner, job, newest, odd, step, archive>>
      BY <2>15 DEF TaskFails, rows, memory, history
    <3>2. CASE exp' = [exp EXCEPT ![j] = "failed"] /\ UNCHANGED <<imp, world>>
      <4>1. \A k \in Jobs : exp'[k] = "done" => exp[k] = "done"
        BY <2>0, <3>2
      <4> QED
        BY <3>1, <3>2, <4>1, WorldsKept
    <3>3. CASE ~(exp' = [exp EXCEPT ![j] = "failed"] /\ UNCHANGED <<imp, world>>)
      <4> DEFINE js == IF imp[j] \in Fetching THEN {j} ELSE {}
      <4>1. Remove(js) /\ imp' = [imp EXCEPT ![j] = "failed"] /\ UNCHANGED exp
        BY <2>15, <3>3 DEF TaskFails
      <4>2. js \in SUBSET Jobs /\ \A k \in js : Moves(k) => Writes(k, To(k))
        BY DEF Fetching, Writes
      <4>3. \A k \in Jobs : imp'[k] \in {imp[k], "failed"} /\ (k \in js => imp'[k] = "failed")
        BY <2>0, <4>1
      <4> HIDE DEF js
      <4> QED
        BY <3>1, <4>1, <4>2, <4>3, WorldsSpared
    <3> QED
      BY <3>2, <3>3
  <2>16. ASSUME NEW a \in Agents, AgentRestarts(a) PROVE Worlds'
    <3>1. UNCHANGED <<owner, job, newest, odd, step, archive>>
      BY <2>16 DEF AgentRestarts, rows
    <3>2. PICK unkept \in SUBSET Unkept :
             Remove({j \in Jobs : To(j) = a /\ (imp[j] \in Fetching \/ j \in unkept)})
      BY <2>16 DEF AgentRestarts
    <3> DEFINE js == {j \in Jobs : To(j) = a /\ (imp[j] \in Fetching \/ j \in unkept)}
    <3>3. imp' = [k \in Jobs |-> IF To(k) = a /\ imp[k] \notin {"none", "done"}
                                THEN "failed" ELSE imp[k]]
      BY <2>16 DEF AgentRestarts
    <3>4. \A k \in Jobs : imp'[k] \in {imp[k], "failed"} /\ (k \in js => imp'[k] = "failed")
      BY <3>3 DEF Fetching, Unkept
    <3>5. js \in SUBSET Jobs /\ \A k \in js : Moves(k) => Writes(k, To(k))
      BY DEF Fetching, Unkept, Writes
    <3>6. \A k \in Jobs : exp'[k] \in {exp[k], "failed"}
      BY <2>16 DEF AgentRestarts
    <3>7. Remove(js)
      BY <3>2
    <3> HIDE DEF js
    <3> QED
      BY <3>1, <3>4, <3>5, <3>6, <3>7, WorldsSpared
  <2>17. ASSUME NEW j \in Jobs, ExportSaves(j) PROVE Worlds'
    <3>1. /\ UNCHANGED <<owner, job, newest, odd, step, imp, world>>
          /\ archive' = [archive EXCEPT ![j] = world[From(j)]]
          /\ exp' = [exp EXCEPT ![j] = "done"]
      BY <2>17 DEF ExportSaves, rows, memory, machine, history
    <3> SUFFICES ASSUME Straight PROVE Worlds'
      BY <3>1 DEF Worlds
    <3>2. step[j] \in Before => archive'[j] = newest
      <4>1. step[j] \in Before => owner = From(j)
        BY DEF Placed, Unspoilt
      <4> QED
        BY <2>0, <3>1, <4>1 DEF Worlds
    <3>3. \A k \in Jobs \ {j} : archive'[k] = archive[k] /\ exp'[k] = exp[k]
      BY <2>0, <3>1
    <3>4. \A k \in Jobs : Moves(k)' = Moves(k) /\ To(k)' = To(k)
      BY <3>1 DEF Moves, To
    <3> QED
      BY <3>1, <3>2, <3>3, <3>4 DEF Worlds
  <2>18. ASSUME NEW a \in Agents, Play(a) PROVE Worlds'
    <3>1. /\ UNCHANGED <<owner, job, status, step, exp, imp, archive>>
          /\ newest' = newest + 1 /\ world' = [world EXCEPT ![a] = newest + 1]
      BY <2>18 DEF Play, rows, memory, tasks
    <3> SUFFICES ASSUME Straight' PROVE Worlds'
      BY DEF Worlds
    <3>2. Straight /\ a = owner /\ \A j \in Jobs : ~Left(j)
      BY <2>18 DEF Play
    <3>3. world'[owner] = newest'
      BY <2>0, <3>1, <3>2
    <3>4. ASSUME NEW k \in Jobs, Moves(k), step[k] \in Before, exp[k] = "done"
          PROVE  FALSE
      <4>1. status[k] = "active" /\ To(k) # From(k)
        BY <3>4 DEF ChainsActive, Exported, Awaited, Before
      <4>2. owner = From(k)
        BY <3>2, <3>4 DEF Placed, Unspoilt
      <4> QED
        BY <3>2, <3>4, <4>1, <4>2 DEF Left
    <3>5. \A k \in Jobs : ~(Moves(k) /\ step[k] = "importing")
      BY <3>4 DEF Exported, Before
    <3>6. \A k \in Jobs : Moves(k)' = Moves(k)
      BY <3>1 DEF Moves
    <3> QED
      BY <3>1, <3>3, <3>4, <3>5, <3>6 DEF Worlds
  <2>19. CASE \E j \in Jobs : ExportStops(j)
    <3>1. PICK j \in Jobs : ExportStops(j)
      BY <2>19
    <3>2. UNCHANGED <<owner, job, newest, odd, step, archive, world, imp>>
      BY <3>1 DEF ExportStops, rows, memory, history
    <3>3. \A k \in Jobs : exp'[k] = "done" => exp[k] = "done"
      BY <2>0, <3>1 DEF ExportStops
    <3> QED
      BY <3>2, <3>3, WorldsKept
  <2>20. ASSUME NEW a \in Agents, Cut(a) \/ Sync(a) \/ StartDue(a) \/ ServerExits(a)
         PROVE  Worlds'
    BY <2>1, <2>20 DEF Cut, Sync, StartDue, ServerExits, rows, memory, machine, tasks, history
  <2>21. CASE OrderStart \/ OrderStop \/ (\E j \in Jobs : Scan(j)) \/ UNCHANGED vars
    BY <2>1, <2>21 DEF OrderStart, OrderStop, Order, Scan, vars, rows, memory, machine, tasks,
       history
  <2> QED
    BY <2>2, <2>4, <2>5, <2>6, <2>7, <2>8, <2>9, <2>10, <2>11, <2>12, <2>13, <2>14, <2>15,
       <2>16, <2>17, <2>18, <2>19, <2>20, <2>21
       DEF Next, PanelStep, TaskStep
<1> QED
  BY <1>1, <1>2, TypeCorrect, ChainsActiveHolds, PlacedHolds, ExportedHolds, PTL DEF Spec

(* The machine that owns the server has the last world that was played,    *)
(* whichever steps fail and whoever restarts, unless somebody played       *)
(* elsewhere or after the archive was made, or a job was admitted on checks*)
(* that no longer held.                                                    *)
THEOREM WorldFollowsHolds == Spec => []WorldFollows
<1>1. Worlds => WorldFollows
  BY DEF Worlds, WorldFollows
<1> QED
  BY <1>1, WorldsHolds, PTL
=============================================================================

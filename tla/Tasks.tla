---------------------------------- MODULE Tasks ----------------------------------
(***************************************************************************)
(* The long operations of one Minecraft server, on both sides.             *)
(*                                                                         *)
(* The panel writes a row before it sends an order                         *)
(* (apps/panel/src/http/routes/tasks.ts, services/tasks.ts).  The agent's  *)
(* TaskRunner writes a record to its journal before it runs the task and   *)
(* again when the task ends, then emits a critical event                   *)
(* (apps/agent/src/tasks/runner.ts, journal.ts); its backup scheduler      *)
(* starts tasks of its own.  A row is settled by the event, by a refused   *)
(* or lost order, or, after each connection, by the agent's task list      *)
(* (apps/panel/src/agents/session.ts); the agent then forgets the task.    *)
(*                                                                         *)
(* The journal of critical events, its replay and its deduplication are    *)
(* the subject of CriticalEvents: here an event stays in the outbox until  *)
(* the panel has applied it, and is sent again on every connection.        *)
(***************************************************************************)
EXTENDS Integers, Sequences, FiniteSets, SequencesExt

CONSTANTS Orders,       \* tasks the panel may order
          Scheduled,    \* tasks of the agent's backup scheduler
          OrderPhases,  \* the phases of a session in which orders are sent
          MaxCancels,   \* number of cancellations
          MaxFaults,    \* number of faults
          Faults        \* the kinds of faults that may happen

(* cut: the connection is lost.  crash: the agent's process dies.          *)
(* restart: the panel's process dies.  timeout: a request is given up.     *)
FaultKinds == {"cut", "crash", "restart", "timeout"}

ASSUME TasksAssumption ==
    /\ IsFiniteSet(Orders) /\ IsFiniteSet(Scheduled) /\ Orders \cap Scheduled = {}
    /\ OrderPhases \subseteq {"up", "listing", "ready"}
    /\ MaxCancels \in Nat /\ MaxFaults \in Nat
    /\ Faults \subseteq FaultKinds

Tasks == Orders \cup Scheduled

Final == {"done", "failed", "cancelled"}
Active == {"pending", "running", "stalled"}

(* A record of the agent's journal; st is "none" when there is none.       *)
Entries == [st : {"none", "running"} \cup Final, acked : BOOLEAN]
NoEntry == [st |-> "none", acked |-> FALSE]
Fresh == [st |-> "running", acked |-> FALSE]

(* The outcome a critical event carries.                                   *)
Outcomes == [task : Tasks, verdict : Final]

VARIABLES
    \* the panel
    row,        \* status of the row of a task, "none" without a row
    asking,     \* orders whose answer is awaited
    phase,      \* the session: offline, up, listing, ready
    seen,       \* outcomes claimed in processed_events
    applying,   \* outcomes claimed and not applied yet
    \* the connection
    toAgent, toPanel,
    \* the agent
    up,         \* its process runs
    journal,    \* the task journal in memory
    due,        \* occurrences the scheduler has not evaluated
    marking,    \* occurrences that passed its checks, in markRun
    starting,   \* tasks in TaskRunner.start, before active.set
    answering,  \* orders whose requester is still connected
    active,     \* the map active
    aborted,    \* active tasks whose signal is aborted
    ending,     \* active tasks whose outcome is being written
    recovering, \* interrupted tasks recover has not settled
    outbox,     \* outcomes emitted and not acknowledged
    ran,        \* what the executor of a task really did
    \* the agent's disk
    disk,       \* tasks.json
    safe,       \* the outbox of state.json
    \* history
    disowned,   \* orders whose row was closed before their answer
    faults,     \* kinds of the faults so far
    cancels     \* cancellations so far

panelVars == <<row, asking, phase, seen, applying>>
wireVars == <<toAgent, toPanel>>
startVars == <<due, marking, starting, answering>>
runVars == <<active, aborted, ending, recovering, ran>>
eventVars == <<outbox, safe>>
agentVars == <<up, journal, disk, startVars, runVars, eventVars>>
countVars == <<faults, cancels>>
histVars == <<disowned, countVars>>
vars == <<panelVars, wireVars, agentVars, histVars>>

(* What the panel sends, and what it gets.                                 *)
ToAgent ==
    [kind : {"order"}, task : Orders]
        \cup [kind : {"cancel", "ack"}, task : Tasks]
        \cup [kind : {"list"}]
ToPanel ==
    [kind : {"ok", "busy"}, task : Orders]
        \cup [kind : {"progress"}, task : Tasks]
        \cup [kind : {"event"}, outcome : Outcomes]
        \cup [kind : {"listing"}, known : [Tasks -> {"none", "running"} \cup Final]]

(* The types, one group of variables after the other.                      *)
PanelOK ==
    /\ row \in [Tasks -> {"none"} \cup Active \cup Final]
    /\ asking \subseteq Orders
    /\ phase \in {"offline", "up", "listing", "ready"}
    /\ seen \subseteq Outcomes /\ applying \subseteq seen

WireOK == toAgent \in Seq(ToAgent) /\ toPanel \in Seq(ToPanel)

JournalOK ==
    /\ up \in BOOLEAN
    /\ journal \in [Tasks -> Entries] /\ disk \in [Tasks -> Entries]

StartOK ==
    /\ due \subseteq Scheduled /\ marking \subseteq Scheduled
    /\ starting \subseteq Tasks /\ answering \subseteq Orders

RunOK ==
    /\ active \subseteq Tasks /\ aborted \subseteq active
    /\ ending \subseteq active /\ recovering \subseteq Tasks
    /\ ran \in [Tasks -> {"none"} \cup Final]

EventOK == outbox \subseteq Outcomes /\ safe \subseteq outbox

HistoryOK ==
    /\ disowned \subseteq Orders
    /\ faults \in Seq(Faults) /\ Len(faults) <= MaxFaults /\ cancels \in 0..MaxCancels

TypeOK ==
    /\ PanelOK /\ WireOK /\ JournalOK /\ StartOK /\ RunOK /\ EventOK /\ HistoryOK

Init ==
    /\ row = [t \in Tasks |-> "none"] /\ asking = {} /\ phase = "offline"
    /\ seen = {} /\ applying = {}
    /\ toAgent = <<>> /\ toPanel = <<>>
    /\ up = TRUE
    /\ journal = [t \in Tasks |-> NoEntry] /\ disk = journal
    /\ due = Scheduled /\ marking = {} /\ starting = {} /\ answering = {}
    /\ active = {} /\ aborted = {} /\ ending = {} /\ recovering = {}
    /\ outbox = {} /\ safe = {}
    /\ ran = [t \in Tasks |-> "none"]
    /\ disowned = {} /\ faults = <<>> /\ cancels = 0

Online == phase # "offline"

(* Nothing reaches a closed connection.                                    *)
SendAgent(msgs) == toAgent' = IF Online THEN toAgent \o msgs ELSE <<>>
SendPanel(msg) == toPanel' = IF Online THEN Append(toPanel, msg) ELSE <<>>
HeadIs(channel, kind) == channel # <<>> /\ Head(channel).kind = kind

-----------------------------------------------------------------------------
(* The panel: rows.                                                        *)

(* Mutant of MarkRunning: the where clause is lost.                        *)
MarkRunningAny(rows, t) == [rows EXCEPT ![t] = "running"]

(* markRunning: a row that has not progressed yet.                         *)
MarkRunning(rows, t) ==
    [rows EXCEPT ![t] = IF @ \in {"pending", "stalled"} THEN "running" ELSE @]

(* complete and fail: the first outcome stays.                             *)
Settled(rows, t, verdict) ==
    [rows EXCEPT ![t] = IF @ \in Active THEN verdict ELSE @]

(* Mutant of Stalled: what was under way is closed at once.                *)
StalledAsFailed(rows) == [t \in Tasks |-> IF rows[t] \in Active THEN "failed" ELSE rows[t]]

(* markStalled, for the one machine.                                       *)
Stalled(rows) == [t \in Tasks |-> IF rows[t] \in Active THEN "stalled" ELSE rows[t]]

(* Mutant of Reconciled: a row the agent does not know is left alone.      *)
ReconciledKnown(rows, known) ==
    [t \in Tasks |->
        CASE rows[t] \in Final -> rows[t]
          [] known[t] = "none" -> rows[t]
          [] OTHER -> known[t]]

(* reconcile: the row of a task after the agent's list has been read.      *)
Reconciled(rows, known) ==
    [t \in Tasks |->
        CASE rows[t] \in Final -> rows[t]
          [] rows[t] \in Active /\ known[t] = "none" -> "failed"
          [] OTHER -> known[t]]

(* task.ackResult for each task of a set.                                  *)
AckAll(ts) == [i \in 1..Cardinality(ts) |-> [kind |-> "ack", task |-> SetToSeq(ts)[i]]]

-----------------------------------------------------------------------------
(* The panel: routes and session.                                          *)

(* Mutant of EnsureIdle: an order that is not answered yet is overlooked.  *)
EnsureNotRunning == \A t \in Tasks : row[t] \notin {"running", "stalled"}

(* ensureIdle: no row of the server is active.                             *)
EnsureIdle == \A t \in Tasks : row[t] \notin Active

(* A route creates the row, then sends the order.                          *)
Order(t) ==
    /\ phase \in OrderPhases /\ row[t] = "none" /\ EnsureIdle
    /\ row' = [row EXCEPT ![t] = "pending"]
    /\ asking' = asking \cup {t}
    /\ SendAgent(<<[kind |-> "order", task |-> t]>>)
    /\ UNCHANGED <<phase, seen, applying, toPanel, agentVars, histVars>>

(* The operator cancels a task.                                            *)
Cancel(t) ==
    /\ Online /\ row[t] # "none" /\ cancels < MaxCancels
    /\ cancels' = cancels + 1
    /\ SendAgent(<<[kind |-> "cancel", task |-> t]>>)
    /\ UNCHANGED <<panelVars, toPanel, agentVars, disowned, faults>>

(* The answer to an order; the answer to an abandoned one is dropped.      *)
TakeReply ==
    /\ \/ HeadIs(toPanel, "ok") \/ HeadIs(toPanel, "busy")
    /\ LET msg == Head(toPanel) IN
        /\ row' = CASE msg.task \notin asking -> row
                    [] msg.task \in asking /\ msg.kind = "ok" -> MarkRunning(row, msg.task)
                    [] msg.task \in asking /\ msg.kind # "ok" -> Settled(row, msg.task, "failed")
        /\ asking' = asking \ {msg.task}
    /\ toPanel' = Tail(toPanel)
    /\ UNCHANGED <<phase, seen, applying, toAgent, agentVars, histVars>>

(* task.progress: an active row is running.                                *)
TakeProgress ==
    /\ HeadIs(toPanel, "progress")
    /\ row' = Settled(row, Head(toPanel).task, "running")
    /\ toPanel' = Tail(toPanel)
    /\ UNCHANGED <<asking, phase, seen, applying, toAgent, agentVars, histVars>>

(* critical: an outcome is claimed, and its handler scheduled.             *)
TakeEvent ==
    /\ HeadIs(toPanel, "event")
    /\ LET o == Head(toPanel).outcome IN
        /\ applying' = IF o \in seen THEN applying ELSE applying \cup {o}
        /\ seen' = seen \cup {o}
    /\ toPanel' = Tail(toPanel)
    /\ UNCHANGED <<row, asking, phase, toAgent, agentVars, histVars>>

(* The handler of task.completed and task.failed: the row is created if    *)
(* it is missing, settled, and the agent told to forget the task.          *)
Apply(o) ==
    /\ o \in applying
    /\ applying' = applying \ {o}
    /\ row' = [row EXCEPT ![o.task] = IF @ \in Final THEN @ ELSE o.verdict]
    /\ SendAgent(AckAll({o.task}))
    /\ UNCHANGED <<asking, phase, seen, toPanel, agentVars, histVars>>

(* reconcilePhase8 asks for the agent's tasks.                             *)
AskList ==
    /\ phase = "up"
    /\ phase' = "listing"
    /\ SendAgent(<<[kind |-> "list"]>>)
    /\ UNCHANGED <<row, asking, seen, applying, toPanel, agentVars, histVars>>

(* reconcilePhase8 reads them, unless it has given up, and acknowledges    *)
(* every row it settled.                                                   *)
Reconcile ==
    /\ HeadIs(toPanel, "listing")
    /\ row' = IF phase = "listing" THEN Reconciled(row, Head(toPanel).known) ELSE row
    /\ SendAgent(AckAll({t \in Tasks : row[t] \notin Final /\ row'[t] \in Final}))
    /\ toPanel' = Tail(toPanel)
    /\ phase' = "ready"
    /\ disowned' = disowned \cup {t \in asking : row'[t] \in Final}
    /\ UNCHANGED <<asking, seen, applying, agentVars, countVars>>

-----------------------------------------------------------------------------
(* The agent: its journal.                                                 *)

(* The put of a task has reached the disk.                                 *)
Written(t) == disk[t] = journal[t]

(* writeNow: the whole journal is written; a failed write is left out.     *)
WriteJournal ==
    /\ up /\ disk # journal
    /\ disk' = journal
    /\ UNCHANGED <<panelVars, wireVars, up, journal, startVars, runVars, eventVars, histVars>>

(* Mutant of Purged: a finished task is forgotten, acknowledged or not.    *)
PurgedFinished(tasks) ==
    [t \in Tasks |-> IF tasks[t].st \in Final THEN NoEntry ELSE tasks[t]]

(* purge: a finished and acknowledged task is forgotten.                   *)
Purged(tasks) ==
    [t \in Tasks |->
        IF tasks[t].st \in Final /\ tasks[t].acked THEN NoEntry ELSE tasks[t]]

(* put, of a record that keeps its acked flag.                             *)
Put(t, st) == journal' = [journal EXCEPT ![t].st = st]

-----------------------------------------------------------------------------
(* The agent: handlers.                                                    *)

(* activeFor: a task of the server is in the map active.                   *)
Busy(t) == active \ {t} # {}

(* An order: refused when another task runs; start ignores a task it       *)
(* knows, and journals a new one before it runs.  A known task would be    *)
(* answered at once; no order comes twice (Single in TasksProofs).         *)
TakeOrder ==
    /\ up /\ HeadIs(toAgent, "order")
    /\ LET t == Head(toAgent).task IN
        \/ /\ Busy(t)
           /\ SendPanel([kind |-> "busy", task |-> t])
           /\ UNCHANGED <<journal, starting, answering>>
        \/ /\ ~Busy(t)
           /\ journal' = [journal EXCEPT ![t] = IF @.st = "none" THEN Fresh ELSE @]
           /\ starting' = IF journal[t].st = "none" THEN starting \cup {t} ELSE starting
           /\ answering' = answering \cup {t}
           /\ UNCHANGED toPanel
    /\ toAgent' = Tail(toAgent)
    /\ UNCHANGED <<panelVars, up, disk, due, marking, runVars, eventVars, histVars>>

(* Mutant of Start: the write of the record is not awaited.                *)
StartAtOnce(t) ==
    /\ up /\ t \in starting
    /\ starting' = starting \ {t} /\ active' = active \cup {t}
    /\ answering' = answering \ {t}
    /\ toPanel' = IF t \in answering THEN Append(toPanel, [kind |-> "ok", task |-> t])
                                    ELSE toPanel
    /\ UNCHANGED <<panelVars, toAgent, up, journal, disk, due, marking>>
    /\ UNCHANGED <<aborted, ending, recovering, ran, eventVars, histVars>>

(* Once its record is written the task runs, and the order is answered.    *)
Start(t) ==
    /\ up /\ t \in starting /\ Written(t)
    /\ starting' = starting \ {t} /\ active' = active \cup {t}
    /\ answering' = answering \ {t}
    /\ toPanel' = IF t \in answering THEN Append(toPanel, [kind |-> "ok", task |-> t])
                                    ELSE toPanel
    /\ UNCHANGED <<panelVars, toAgent, up, journal, disk, due, marking>>
    /\ UNCHANGED <<aborted, ending, recovering, ran, eventVars, histVars>>

(* Mutant of TakeCancel: any task is aborted.                              *)
TakeCancelAny ==
    /\ up /\ HeadIs(toAgent, "cancel")
    /\ aborted' = aborted \cup {Head(toAgent).task}
    /\ toAgent' = Tail(toAgent)
    /\ UNCHANGED <<panelVars, toPanel, up, journal, disk, startVars>>
    /\ UNCHANGED <<active, ending, recovering, ran, eventVars, histVars>>

(* task.cancel: the signal of an active task is aborted.                   *)
TakeCancel ==
    /\ up /\ HeadIs(toAgent, "cancel")
    /\ aborted' = aborted \cup ({Head(toAgent).task} \cap active)
    /\ toAgent' = Tail(toAgent)
    /\ UNCHANGED <<panelVars, toPanel, up, journal, disk, startVars>>
    /\ UNCHANGED <<active, ending, recovering, ran, eventVars, histVars>>

(* task.ackResult: a known task that is not active is acknowledged, and    *)
(* the finished ones among those are forgotten.                            *)
TakeAck ==
    /\ up /\ HeadIs(toAgent, "ack")
    /\ LET t == Head(toAgent).task IN
        journal' = IF journal[t].st = "none" \/ t \in active THEN journal
                   ELSE Purged([journal EXCEPT ![t].acked = TRUE])
    /\ toAgent' = Tail(toAgent)
    /\ UNCHANGED <<panelVars, toPanel, up, disk, startVars, runVars, eventVars, histVars>>

(* task.list: the journal in memory.                                       *)
TakeList ==
    /\ up /\ HeadIs(toAgent, "list")
    /\ SendPanel([kind |-> "listing", known |-> [t \in Tasks |-> journal[t].st]])
    /\ toAgent' = Tail(toAgent)
    /\ UNCHANGED <<panelVars, agentVars, histVars>>

-----------------------------------------------------------------------------
(* The agent: execution.                                                   *)

(* progress; to bound the channel it is sent when nothing else is under    *)
(* way to the panel.                                                       *)
Progress(t) ==
    /\ up /\ Online /\ t \in active \ ending /\ toPanel = <<>>
    /\ SendPanel([kind |-> "progress", task |-> t])
    /\ UNCHANGED <<panelVars, toAgent, agentVars, histVars>>

(* Mutant of Finish: the signal decides, whatever the executor did.        *)
FinishBySignal(t) ==
    /\ up /\ t \in active \ ending
    /\ \E verdict \in {"done", "failed"} :
        /\ ran' = [ran EXCEPT ![t] = verdict]
        /\ Put(t, IF t \in aborted THEN "cancelled" ELSE verdict)
    /\ ending' = ending \cup {t}
    /\ UNCHANGED <<panelVars, wireVars, up, disk, startVars>>
    /\ UNCHANGED <<active, aborted, recovering, eventVars, histVars>>

(* The executor returns or throws; an aborted task that throws is          *)
(* cancelled.  (So is one that throws E_CANCELLED, but every executor      *)
(* looks at its signal before it does.)  The outcome is put in the journal.*)
Finish(t) ==
    /\ up /\ t \in active \ ending
    /\ \E verdict \in {"done", IF t \in aborted THEN "cancelled" ELSE "failed"} :
        /\ ran' = [ran EXCEPT ![t] = verdict]
        /\ Put(t, verdict)
    /\ ending' = ending \cup {t}
    /\ UNCHANGED <<panelVars, wireVars, up, disk, startVars>>
    /\ UNCHANGED <<active, aborted, recovering, eventVars, histVars>>

(* emitCompleted and emitFailed: journaled, and sent if there is a session.*)
Emit(o) ==
    /\ outbox' = outbox \cup {o}
    /\ SendPanel([kind |-> "event", outcome |-> o])

(* Once the outcome is written the task leaves active and is reported, if  *)
(* its record is still there.                                              *)
End(t) ==
    /\ up /\ t \in ending /\ Written(t)
    /\ active' = active \ {t} /\ ending' = ending \ {t}
    /\ aborted' = aborted \ {t}
    /\ IF journal[t].st = "none" THEN UNCHANGED <<outbox, toPanel>>
       ELSE Emit([task |-> t, verdict |-> journal[t].st])
    /\ UNCHANGED <<panelVars, toAgent, up, journal, disk, startVars>>
    /\ UNCHANGED <<recovering, ran, safe, histVars>>

(* The scheduler: an occurrence that is due is skipped when a task of the  *)
(* server is active; otherwise markRun records it first.                   *)
Tick(t) ==
    /\ up /\ t \in due
    /\ due' = due \ {t}
    /\ marking' = IF Busy(t) THEN marking ELSE marking \cup {t}
    /\ UNCHANGED <<panelVars, wireVars, up, journal, disk, starting, answering>>
    /\ UNCHANGED <<runVars, eventVars, histVars>>

(* Then the task is started, without a second look.                        *)
StartScheduled(t) ==
    /\ up /\ t \in marking
    /\ marking' = marking \ {t} /\ starting' = starting \cup {t}
    /\ journal' = [journal EXCEPT ![t] = Fresh]
    /\ UNCHANGED <<panelVars, wireVars, up, disk, due, answering>>
    /\ UNCHANGED <<runVars, eventVars, histVars>>

(* recover, one interrupted task after the other: cleaned up, journaled as *)
(* failed, and reported once that is written.                              *)
Recover(t) ==
    /\ up /\ t \in recovering /\ journal[t].st = "running"
    /\ \A u \in recovering : journal[u].st = "running"
    /\ Put(t, "failed")
    /\ UNCHANGED <<panelVars, wireVars, up, disk, startVars, runVars, eventVars, histVars>>

Recovered(t) ==
    /\ up /\ t \in recovering /\ journal[t].st # "running" /\ Written(t)
    /\ recovering' = recovering \ {t}
    /\ Emit([task |-> t, verdict |-> "failed"])
    /\ UNCHANGED <<panelVars, toAgent, up, journal, disk, startVars>>
    /\ UNCHANGED <<active, aborted, ending, ran, safe, histVars>>

(* The store writes the outbox.                                            *)
PersistEvents ==
    /\ up /\ safe # outbox
    /\ safe' = outbox
    /\ UNCHANGED <<panelVars, wireVars, up, journal, disk, startVars, runVars, outbox, histVars>>

(* event.ack of an outcome the panel has applied.                          *)
AckEvent(o) ==
    /\ up /\ Online /\ o \in (outbox \cap seen) \ applying
    /\ outbox' = outbox \ {o} /\ safe' = safe \ {o}
    /\ UNCHANGED <<panelVars, wireVars, up, journal, disk, startVars, runVars, histVars>>

-----------------------------------------------------------------------------
(* Connections and faults.                                                 *)

(* A session is established, and the outbox sent again.                    *)
Connect ==
    /\ up /\ ~Online
    /\ phase' = "up"
    /\ toPanel' = LET os == SetToSeq(outbox) IN
        [i \in 1..Len(os) |-> [kind |-> "event", outcome |-> os[i]]]
    /\ UNCHANGED <<row, asking, seen, applying, toAgent, agentVars, histVars>>

Fault(kind) ==
    /\ kind \in Faults /\ Len(faults) < MaxFaults
    /\ faults' = Append(faults, kind)
    /\ UNCHANGED cancels

Unplugged == toAgent' = <<>> /\ toPanel' = <<>>

(* onClose: the rows are stalled, then every order still waiting for its   *)
(* answer fails.                                                           *)
Close ==
    /\ phase' = "offline"
    /\ row' = [t \in Tasks |->
        IF t \in asking THEN Settled(Stalled(row), t, "failed")[t] ELSE Stalled(row)[t]]
    /\ asking' = {}
    /\ disowned' = disowned \cup asking
    /\ Unplugged

Cut ==
    /\ Online /\ Fault("cut")
    /\ Close
    /\ answering' = {}
    /\ UNCHANGED <<seen, applying, up, journal, disk, due, marking, starting>>
    /\ UNCHANGED <<runVars, eventVars>>

(* The agent dies: what its memory alone held is gone.                     *)
AgentCrash ==
    /\ up /\ Fault("crash")
    /\ up' = FALSE
    /\ Close
    /\ marking' = {} /\ starting' = {} /\ answering' = {}
    /\ active' = {} /\ aborted' = {} /\ ending' = {} /\ recovering' = {}
    /\ outbox' = safe
    /\ UNCHANGED <<seen, applying, journal, disk, due, ran, safe>>

(* It starts again from its disk.                                          *)
AgentBoot ==
    /\ ~up
    /\ up' = TRUE
    /\ journal' = Purged(disk)
    /\ recovering' = {t \in Tasks : journal'[t].st = "running"}
    /\ UNCHANGED <<panelVars, wireVars, disk, startVars, eventVars, histVars>>
    /\ UNCHANGED <<active, aborted, ending, ran>>

(* The panel dies: its rows stay, and are stalled when it starts again.    *)
PanelRestart ==
    /\ Fault("restart")
    /\ phase' = "offline" /\ asking' = {} /\ applying' = {}
    /\ row' = Stalled(row)
    /\ answering' = {}
    /\ Unplugged
    /\ UNCHANGED <<seen, up, journal, disk, due, marking, starting, runVars, eventVars>>
    /\ UNCHANGED disowned

(* A request is given up after 30 s: the order fails, or the list is       *)
(* given up and nothing is reconciled.                                     *)
OrderTimeout(t) ==
    /\ t \in asking /\ Fault("timeout")
    /\ row' = Settled(row, t, "failed") /\ asking' = asking \ {t}
    /\ disowned' = disowned \cup {t}
    /\ UNCHANGED <<phase, seen, applying, wireVars, agentVars>>

ListTimeout ==
    /\ phase = "listing" /\ Fault("timeout")
    /\ phase' = "ready"
    /\ UNCHANGED <<row, asking, seen, applying, wireVars, agentVars, disowned>>

-----------------------------------------------------------------------------
PanelNext ==
    \/ TakeReply \/ TakeProgress \/ TakeEvent \/ AskList \/ Reconcile
    \/ \E o \in applying : Apply(o)

AgentNext ==
    \/ WriteJournal \/ TakeOrder \/ TakeCancel \/ TakeAck \/ TakeList
    \/ PersistEvents \/ Connect \/ AgentBoot
    \/ \E t \in Tasks : Start(t) \/ Finish(t) \/ End(t) \/ Recover(t) \/ Recovered(t)
    \/ \E t \in Scheduled : Tick(t) \/ StartScheduled(t)
    \/ \E o \in outbox : AckEvent(o)

Operator ==
    \/ \E t \in Orders : Order(t)
    \/ \E t \in Tasks : Cancel(t)

FaultNext ==
    \/ Cut \/ AgentCrash \/ PanelRestart \/ ListTimeout
    \/ \E t \in asking : OrderTimeout(t)

Next ==
    \/ PanelNext \/ AgentNext \/ Operator \/ FaultNext
    \/ \E t \in Tasks : Progress(t)

Spec == Init /\ [][Next]_vars

(* The event loops of both processes run what is ready, the agent dials    *)
(* again and is started again, and an executor ends.  Nothing makes the    *)
(* operator act, a task report progress, or a fault happen.  A message is  *)
(* handled when it is the first of its channel, whatever its kind.         *)
PanelReceives == TakeReply \/ TakeProgress \/ TakeEvent \/ Reconcile
AgentReceives == TakeOrder \/ TakeCancel \/ TakeAck \/ TakeList

Fairness ==
    /\ WF_vars(PanelReceives) /\ WF_vars(AskList)
    /\ WF_vars(\E o \in Outcomes : Apply(o))
    /\ WF_vars(AgentReceives) /\ WF_vars(WriteJournal)
    /\ WF_vars(Connect) /\ WF_vars(AgentBoot)
    /\ WF_vars(\E t \in Scheduled : StartScheduled(t))
    /\ WF_vars(\E t \in Tasks : Start(t) \/ Recover(t) \/ Recovered(t))
    /\ WF_vars(\E t \in Tasks : Finish(t) \/ End(t))

FairSpec == Spec /\ Fairness

-----------------------------------------------------------------------------
(* Whatever the order in which answers, progress, events, lists and        *)
(* disconnections reach the panel, a row that has an outcome keeps it.     *)
FinalIsFinal ==
    [][\A t \in Tasks : row[t] \in Final => row'[t] = row[t]]_vars

(* The panel never reports as done, or as cancelled, a task whose executor *)
(* ended otherwise, through any number of crashes and lost messages.       *)
SuccessIsReal ==
    \A t \in Tasks : row[t] \in {"done", "cancelled"} => ran[t] = row[t]

(* Once the two sides have been reconciled the state of the agent          *)
(* prevails (services/tasks.ts: "l'état de l'agent fait foi"): a task the  *)
(* panel holds for finished does not run any more, and its record, if      *)
(* there is one, tells the same outcome.                                   *)
AgentAlwaysPrevails ==
    phase = "ready" =>
        \A t \in Tasks : row[t] \in Final => journal[t].st \in {"none", row[t]}

(* That holds, through cuts, lost answers and restarts of the panel, for   *)
(* every scheduled task and for every order whose row was not closed       *)
(* before its answer.  A crash of the agent may take back an outcome that  *)
(* task.list told before it was written.                                   *)
AgentPrevails ==
    phase = "ready" /\ "crash" \notin ToSet(faults) =>
        \A t \in Tasks \ disowned :
            row[t] \in Final => journal[t].st \in {"none", row[t]}

(* The agent forgets a task that ran only once the panel has its outcome.  *)
ForgottenIsSettled ==
    \A t \in Tasks :
        up /\ ran[t] # "none" /\ journal[t].st = "none" => row[t] \in Final

(* A task runs only once tasks.json tells so: a crash at any moment leaves *)
(* a record to recover.                                                    *)
RunningIsWritten ==
    \A t \in active \ ending : disk[t].st # "none"

(* Two orders of the panel never run together, unless the panel closed the *)
(* row of one before its answer and so forgot that it may be starting.     *)
OneOrderAtATime == disowned = {} => Cardinality(active \cap Orders) <= 1

(* A task with an active row ends up settled, and an outcome the agent     *)
(* has reached becomes that of a row, its own task's or a scheduled one's. *)
EveryTaskSettles ==
    \A t \in Tasks :
        /\ row[t] \in Active ~> row[t] \in Final
        /\ ran[t] # "none" ~> row[t] \in Final
=============================================================================

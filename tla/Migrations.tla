----------------------------- MODULE Migrations -----------------------------
(***************************************************************************)
(* The migration and the duplication of one server between the machines of *)
(* a fleet: services/migrations.ts of the panel drives the chain, the      *)
(* agents play migration/migration.ts and tasks/runner.ts.                 *)
(*                                                                         *)
(* A migration exports the server on its source (stop, then backup),       *)
(* imports the archive on its target, moves the row of the server, pushes  *)
(* the configurations and retires the directory of the source.  A          *)
(* duplication imports under a new identity and retires nothing.           *)
(*                                                                         *)
(* The panel does one thing at a time between two awaits, but every update *)
(* of its rows is a commit of its own: a stretch with several commits has  *)
(* one action for each.  Nothing else of the panel comes in between, but   *)
(* the agents go on, and the panel may die there.                          *)
(* A request may fail at any time, with its effect or without it, which    *)
(* stands for a lost answer, a lost connection and an agent that is away.  *)
(***************************************************************************)
EXTENDS Naturals

CONSTANTS
    Agents,             \* the machines
    Home,               \* the machine that owns the server at first
    MaxJobs,            \* bound: the migrations and duplications that are asked for
    Requests,           \* what one may ask for: kind, target and restartAfter
    Upsets,             \* what may come across: "panel" and "agent" restart, a connection
                        \* is "cut", a user gives an "order", the server makes its "exit"
    MaxUpsets,          \* bound: the number of them
    MaxWorld            \* bound: how often the world of the server changes

ASSUME HomeAssumption == Home \in Agents
ASSUME RequestsAssumption ==
    \A r \in Requests : /\ r \in [kind : {"migrate", "duplicate"}, to : Agents, again : BOOLEAN]
                        /\ r.kind = "duplicate" => r.again
ASSUME BoundAssumption == MaxJobs \in Nat /\ MaxUpsets \in Nat /\ MaxWorld \in Nat

VARIABLES
    \* rows of the panel
    owner,      \* servers.machine_id
    prov,       \* servers.provisioning
    desired,    \* servers.desired_state is "running"
    clone,      \* [Jobs -> row of the copy]
    seen,       \* the jobs whose target directory a scan found too early
    job,        \* [Jobs -> what was asked]
    status,     \* [Jobs -> server_migrations.status]
    \* memory of the panel
    step,       \* [Jobs -> where run() or runDuplicate() stands]
    due,        \* [Agents -> a start on its way to the agent]
    opening,    \* the agents whose session is still to open: requests to them fail
    \* the agents
    known,      \* [Agents -> the agent holds the configuration of the server]
    want,       \* [Agents -> desiredStates of the agent says "running"]
    live,       \* [Agents -> the server runs there]
    files,      \* [Agents -> the directory of the server]
    world,      \* [Agents -> the version of the world, in a whole directory]
    copied,     \* [Jobs -> the directory of the copy]
    exported,   \* the jobs the source agent remembers to have exported
    exp,        \* [Jobs -> the task migration.export]
    imp,        \* [Jobs -> the task migration.import]
    archive,    \* [Jobs -> the version of the world in the archive]
    was,        \* [Jobs -> wasRunning, found by the export]
    \* history
    newest,     \* the last version of the world, wherever it was played
    odd,        \* what happened that the chain does not account for
    upsets      \* how many upsets so far

Jobs == 1..MaxJobs      \* their identifiers grow

rows    == <<owner, prov, desired, clone, seen, job, status>>
memory  == <<step, due, opening>>
machine == <<known, want, live, files, world, copied>>
tasks   == <<exported, exp, imp, archive, was>>
history == <<newest, odd, upsets>>
vars    == <<rows, memory, machine, tasks, history>>

Statuses == {"unasked", "asked", "checked", "refused", "active", "done", "failed"}
Steps    == {"none", "insert", "mark", "export", "exporting", "import", "importing", "tell",
             "retell", "finalize", "finish", "port", "relaunch", "restart", "fail", "restore",
             "sweep", "reset", "discard"}
Exports  == {"none", "stop", "backup", "done", "failed"}
Imports  == {"none", "check", "fetch", "extract", "overlay", "registered", "started",
             "done", "failed"}
Contents == {"none", "partial", "whole"}

\* A job that is not in the table of the panel yet.
Awaited == {"unasked", "asked", "checked"}

\* Where the panel has one more commit to make before it looks at anything else.
Stretch == {"insert", "mark", "restore", "sweep", "reset", "discard"}
Idle    == \A j \in Jobs : step[j] \notin Stretch

Moves(j)  == job[j].kind = "migrate"
Copies(j) == job[j].kind = "duplicate"
From(j)   == job[j].from
To(j)     == job[j].to

\* What agent.configure holds for agent a, and what applyConfigs makes of it: a
\* server that is absent is forgotten, unless it runs.
Configure(a, machineId, running) ==
    /\ known' = [known EXCEPT ![a] = machineId = a \/ (known[a] /\ live[a])]
    /\ want'  = [want EXCEPT ![a] = machineId = a /\ running]

-----------------------------------------------------------------------------
(* The panel: one chain of steps per job.                                  *)

\* The route reads the row, looks for an active job, then awaits the pre-checks.
Ask(j) ==
    /\ status[j] = "unasked"
    /\ Idle
    /\ \A k \in 1..(j - 1) : status[k] # "unasked"
    /\ prov = "ready"
    /\ \A k \in Jobs : status[k] # "active"
    /\ \E r \in Requests :
          /\ r.kind = "migrate" => r.to # owner
          /\ job' = [job EXCEPT ![j] = [from |-> owner, kind |-> r.kind, to |-> r.to,
                                        again |-> r.again]]
    /\ status' = [status EXCEPT ![j] = "asked"]
    /\ UNCHANGED <<owner, prov, desired, clone, seen, memory, machine, tasks, history>>

\* migration.precheck is answered: a server moves to a directory that is empty.
Precheck(j) ==
    /\ status[j] = "asked"
    /\ Idle
    /\ To(j) \notin opening
    /\ Moves(j) => files[To(j)] = "none"
    /\ status' = [status EXCEPT ![j] = "checked"]
    /\ UNCHANGED <<owner, prov, desired, clone, seen, job, memory, machine, tasks, history>>

Refuse(j) ==
    /\ status[j] = "asked"
    /\ Idle
    /\ status' = [status EXCEPT ![j] = "refused"]
    /\ UNCHANGED <<owner, prov, desired, clone, seen, job, memory, machine, tasks, history>>

\* The answer comes back, and nothing that was read before it is read again.  The row of
\* a copy comes first, then the row of the job, then the provisioning of the server.
Admit(j) ==
    /\ status[j] = "checked"
    /\ Idle
    /\ IF Copies(j)
       THEN /\ clone' = [clone EXCEPT ![j] = "migrating"]
            /\ step' = [step EXCEPT ![j] = "insert"]
            /\ UNCHANGED status
       ELSE /\ status' = [status EXCEPT ![j] = "active"]
            /\ step' = [step EXCEPT ![j] = "mark"]
            /\ UNCHANGED clone
    /\ odd' = IF owner # From(j) \/ \E k \in Jobs : status[k] = "active"
              THEN odd \cup {"stale"} ELSE odd
    /\ UNCHANGED <<owner, prov, desired, seen, job, due, opening, machine, tasks, newest,
                   upsets>>

Insert(j) ==
    /\ step[j] = "insert"
    /\ status' = [status EXCEPT ![j] = "active"]
    /\ step' = [step EXCEPT ![j] = "mark"]
    /\ UNCHANGED <<owner, prov, desired, clone, seen, job, due, opening, machine, tasks,
                   history>>

\* Mutant of Mark: the status of the job is written in the column of the server.
MarkActive(j) ==
    /\ step[j] = "mark"
    /\ prov' = "active"
    /\ step' = [step EXCEPT ![j] = "export"]
    /\ UNCHANGED <<owner, desired, clone, seen, job, status, due, opening, machine, tasks,
                   history>>

Mark(j) ==
    /\ step[j] = "mark"
    /\ prov' = "migrating"
    /\ step' = [step EXCEPT ![j] = "export"]
    /\ UNCHANGED <<owner, desired, clone, seen, job, status, due, opening, machine, tasks,
                   history>>

\* discardCloneRow: a row that a scan has touched (detected = 1) stays.
DiscardClone(j) ==
    clone' = [clone EXCEPT ![j] = IF @ = "migrating" /\ j \notin seen THEN "none" ELSE @]

\* Mutant of Fail: the row of the copy is left to the restart of the panel.
FailDiscardAside(j) ==
    /\ IF Moves(j)
       THEN /\ status' = [status EXCEPT ![j] = "failed"]
            /\ step' = [step EXCEPT ![j] = "restore"]
       ELSE /\ step' = [step EXCEPT ![j] = IF was[j] /\ @ \in {"import", "importing"}
                                          THEN "relaunch" ELSE "fail"]
            /\ UNCHANGED status
    /\ UNCHANGED <<owner, prov, desired, clone, seen, job, due, opening, history>>

\* The catch of run() closes the row of the job.  That of runDuplicate() removes the row of
\* the copy first, then starts the source again if the export is known to have stopped it.
Fail(j) ==
    /\ IF Moves(j)
       THEN /\ status' = [status EXCEPT ![j] = "failed"]
            /\ step' = [step EXCEPT ![j] = "restore"]
            /\ UNCHANGED clone
       ELSE /\ DiscardClone(j)
            /\ step' = [step EXCEPT ![j] = IF was[j] /\ @ \in {"import", "importing"}
                                          THEN "relaunch" ELSE "fail"]
            /\ UNCHANGED status
    /\ UNCHANGED <<owner, prov, desired, seen, job, due, opening, history>>

\* migration.export is refused while another export of the server runs on the agent.
OrderExport(j) ==
    /\ step[j] = "export"
    /\ Idle
    /\ From(j) \notin opening
    /\ \A k \in Jobs : exp[k] \in {"stop", "backup"} => From(k) # From(j)
    /\ exp' = [exp EXCEPT ![j] = "stop"]
    /\ \/ /\ step' = [step EXCEPT ![j] = "exporting"]
          /\ UNCHANGED <<rows, due, opening, history>>
       \/ Fail(j)
    /\ UNCHANGED <<machine, exported, imp, archive, was>>

OrderImport(j) ==
    /\ step[j] = "import"
    /\ Idle
    /\ To(j) \notin opening
    /\ imp' = [imp EXCEPT ![j] = "check"]
    /\ \/ /\ step' = [step EXCEPT ![j] = "importing"]
          /\ UNCHANGED <<rows, due, opening, history>>
       \/ Fail(j)
    /\ UNCHANGED <<machine, exported, exp, archive, was>>

\* A request that fails with no effect, or a task of the agent that ended badly.
StepFails(j) ==
    /\ \/ step[j] \in {"export", "import"}
       \/ step[j] = "exporting" /\ exp[j] = "failed"
       \/ step[j] = "importing" /\ imp[j] = "failed"
    /\ Idle
    /\ Fail(j)
    /\ UNCHANGED <<machine, tasks>>

ExportSeen(j) ==
    /\ step[j] = "exporting"
    /\ Idle
    /\ exp[j] = "done"
    /\ step' = [step EXCEPT ![j] = "import"]
    /\ UNCHANGED <<rows, due, opening, machine, tasks, history>>

\* Mutant of Imported: the order of the import is taken for its outcome.
ImportedOnceOrdered(j) == imp[j] # "none"

\* waitForFinish of the import: its outcome came, and is a success.
Imported(j) == imp[j] = "done"

\* moveToMachine refuses when the row of another server holds the target path.
Squatted(j) == \E k \in seen : Moves(k) /\ To(k) = To(j)

Switch(j) ==
    /\ step[j] = "importing"
    /\ Idle
    /\ Imported(j)
    /\ Moves(j)
    /\ \/ /\ ~Squatted(j)
          /\ owner' = To(j)
          /\ prov' = "ready"
          /\ desired' = (job[j].again /\ was[j])
          /\ step' = [step EXCEPT ![j] = "tell"]
          /\ UNCHANGED <<clone, seen, job, status, due, opening, history>>
       \/ Squatted(j) /\ Fail(j)
    /\ UNCHANGED <<machine, tasks>>

\* pushConfig of one of the two agents: its failure is swallowed.
Push(j, here, a, there) ==
    /\ step[j] = here
    /\ Idle
    /\ step' = [step EXCEPT ![j] = there]
    /\ \/ /\ a \notin opening
          /\ Configure(a, owner, desired)
          /\ UNCHANGED <<live, files, world, copied>>
       \/ UNCHANGED machine
    /\ UNCHANGED <<rows, due, opening, tasks, history>>

TellTarget(j) == Push(j, "tell", To(j), "retell")
TellSource(j) == Push(j, "retell", From(j), "finalize")

\* migration.finalize: the agent forgets the server and renames its directory (or keeps
\* it in place when the rename fails); every failure is swallowed by the panel.
Finalize(j) ==
    /\ step[j] = "finalize"
    /\ Idle
    /\ step' = [step EXCEPT ![j] = "finish"]
    /\ \/ LET a == From(j)
          IN  /\ a \notin opening
              /\ known[a] \/ j \in exported
              /\ ~live[a]
              /\ known' = [known EXCEPT ![a] = FALSE]
              /\ \/ /\ files' = [files EXCEPT ![a] = "none"]
                    /\ world' = [world EXCEPT ![a] = 0]
                 \/ UNCHANGED <<files, world>>
              /\ exported' = exported \ {j}
              /\ UNCHANGED <<want, live, copied, exp, imp, archive, was>>
       \/ UNCHANGED <<machine, tasks>>
    /\ UNCHANGED <<rows, due, opening, history>>

\* finish(): the row of the job is closed.  The row of a server that moved is ready since
\* the switch; the source of a copy is still "migrating".
Conclude(j) ==
    /\ step[j] \in {"finish", "fail"}
    /\ Idle
    /\ status' = [status EXCEPT ![j] = IF step[j] = "finish" THEN "done" ELSE "failed"]
    /\ step' = [step EXCEPT ![j] = IF Moves(j) THEN "none" ELSE "restore"]
    /\ UNCHANGED <<owner, prov, desired, clone, seen, job, due, opening, machine, tasks, history>>

\* Mutant of Restore: the provisioning is restored on the way of the success alone.
RestoreFailureAside(j) ==
    /\ step[j] = "restore"
    /\ prov' = IF status[j] = "failed" THEN prov ELSE "ready"
    /\ step' = [step EXCEPT ![j] = "none"]
    /\ UNCHANGED <<owner, desired, clone, seen, job, status, due, opening, machine, tasks,
                   history>>

\* restoreProvisioning(), a commit of its own after finish().
Restore(j) ==
    /\ step[j] = "restore"
    /\ prov' = "ready"
    /\ step' = [step EXCEPT ![j] = "none"]
    /\ UNCHANGED <<owner, desired, clone, seen, job, status, due, opening, machine, tasks,
                   history>>

CopySeen(j) ==
    /\ step[j] = "importing"
    /\ Idle
    /\ Imported(j)
    /\ Copies(j)
    /\ step' = [step EXCEPT ![j] = "port"]
    /\ UNCHANGED <<rows, due, opening, machine, tasks, history>>

\* config.set, then confirmDuplicated whatever its answer, and the push of a
\* configuration that tells the target nothing new; then the source is started again.
Confirm(j) ==
    /\ step[j] = "port"
    /\ Idle
    /\ clone' = [clone EXCEPT ![j] = "ready"]
    /\ \E there \in {"finish", "fail"} :
          step' = [step EXCEPT ![j] = IF was[j] THEN "relaunch" ELSE there]
    /\ UNCHANGED <<owner, prov, desired, seen, job, status, due, opening, machine, tasks,
                   history>>

\* restartSource: the wish is written and pushed, ...
Relaunch(j) ==
    /\ step[j] = "relaunch"
    /\ Idle
    /\ desired' = TRUE
    /\ LET a == From(j)
       IN  \/ a \notin opening /\ Configure(a, owner, TRUE)
           \/ UNCHANGED <<known, want>>
    /\ step' = [step EXCEPT ![j] = "restart"]
    /\ UNCHANGED <<owner, prov, clone, seen, job, status, due, opening, live, files, world,
                   copied, tasks, history>>

\* ... then server.start is sent; the wish is taken back when no good answer comes, even
\* if the server was started.
Restart(j) ==
    /\ step[j] = "restart"
    /\ Idle
    /\ LET a == From(j)
       IN  /\ \/ /\ a \notin opening /\ known[a] /\ files[a] # "none"
                 /\ live' = [live EXCEPT ![a] = TRUE]
              \/ UNCHANGED live
           /\ \/ live'[a] /\ UNCHANGED <<desired, known, want>>
              \/ /\ desired' = FALSE
                 /\ \/ a \notin opening /\ Configure(a, owner, FALSE)
                    \/ UNCHANGED <<known, want>>
    /\ \E there \in {"finish", "fail"} :
          /\ there = "finish" => clone[j] = "ready"
          /\ step' = [step EXCEPT ![j] = there]
    /\ UNCHANGED <<owner, prov, clone, seen, job, status, due, opening, files, world, copied,
                   tasks, history>>

PanelStep(j) ==
    \/ Precheck(j) \/ Refuse(j) \/ Admit(j)
    \/ OrderExport(j) \/ ExportSeen(j) \/ OrderImport(j) \/ StepFails(j)
    \/ Switch(j) \/ TellTarget(j) \/ TellSource(j) \/ Finalize(j) \/ Conclude(j)
    \/ CopySeen(j) \/ Confirm(j) \/ Relaunch(j) \/ Restart(j)

Upset(kind) ==
    /\ kind \in Upsets
    /\ upsets < MaxUpsets
    /\ upsets' = upsets + 1

\* The panel dies and starts again; the constructor of the service lists the rows that are
\* active.  A death between two commits of which the second is not in that list leaves its
\* row as it is, for ever.  A death during the constructor is not counted.
PanelRestarts ==
    /\ IF \E j \in Jobs : step[j] \in {"sweep", "reset", "discard"}
       THEN UNCHANGED upsets
       ELSE Upset("panel")
    /\ status' = [j \in Jobs |-> IF status[j] \in {"asked", "checked"} THEN "refused"
                                ELSE status[j]]
    /\ step' = [j \in Jobs |-> IF status[j] = "active" THEN "sweep" ELSE "none"]
    /\ odd' = IF \E j \in Jobs : step[j] \in {"insert", "restore", "reset", "discard"}
              THEN odd \cup {"halved"} ELSE odd
    /\ due' = [a \in Agents |-> "none"]
    /\ opening' = Agents
    /\ UNCHANGED <<owner, prov, desired, clone, seen, job, machine, tasks, newest>>

\* The constructor closes one row after the other, each with its server and its copy.  The
\* tasks of the agents go on.
Sweep(j) ==
    /\ step[j] = "sweep"
    /\ \A k \in Jobs : step[k] \notin {"reset", "discard"}
    /\ status' = [status EXCEPT ![j] = "failed"]
    /\ step' = [step EXCEPT ![j] = "reset"]
    /\ UNCHANGED <<owner, prov, desired, clone, seen, job, due, opening, machine, tasks,
                   history>>

Reset(j) ==
    /\ step[j] = "reset"
    /\ prov' = "ready"
    /\ step' = [step EXCEPT ![j] = IF Copies(j) THEN "discard" ELSE "none"]
    /\ UNCHANGED <<owner, desired, clone, seen, job, status, due, opening, machine, tasks,
                   history>>

Discard(j) ==
    /\ step[j] = "discard"
    /\ DiscardClone(j)
    /\ step' = [step EXCEPT ![j] = "none"]
    /\ UNCHANGED <<owner, prov, desired, seen, job, status, due, opening, machine, tasks,
                   history>>

StretchStep(j) == Insert(j) \/ Mark(j) \/ Restore(j) \/ Sweep(j) \/ Reset(j) \/ Discard(j)

-----------------------------------------------------------------------------
(* The agents: the two tasks.                                              *)

\* exportServer notes the path and whether the server runs, then stops it.
ExportStops(j) ==
    /\ exp[j] = "stop"
    /\ known[From(j)]
    /\ exported' = exported \cup {j}
    /\ was' = [was EXCEPT ![j] = live[From(j)]]
    /\ live' = [live EXCEPT ![From(j)] = FALSE]
    /\ exp' = [exp EXCEPT ![j] = "backup"]
    /\ UNCHANGED <<rows, memory, known, want, files, world, copied, imp, archive, history>>

ExportSaves(j) ==
    /\ exp[j] = "backup"
    /\ files[From(j)] = "whole"
    /\ archive' = [archive EXCEPT ![j] = world[From(j)]]
    /\ exp' = [exp EXCEPT ![j] = "done"]
    /\ UNCHANGED <<rows, memory, machine, exported, imp, was, history>>

Fetching   == {"extract", "overlay"}
Target(j)  == IF Moves(j) THEN files[To(j)] ELSE copied[j]
Remove(js) ==   \* the artifacts of the imports js are deleted
    /\ files'  = [a \in Agents |-> IF \E j \in js : Moves(j) /\ To(j) = a
                                   THEN "none" ELSE files[a]]
    /\ world'  = [a \in Agents |-> IF files'[a] = "none" THEN 0 ELSE world[a]]
    /\ copied' = [j \in Jobs |-> IF j \in js /\ Copies(j) THEN "none" ELSE copied[j]]

\* The directory must be empty, or be the one that the agent knows for this server.
ImportChecks(j) ==
    /\ imp[j] = "check"
    /\ Target(j) = "none" \/ (Moves(j) /\ known[To(j)])
    /\ imp' = [imp EXCEPT ![j] = "fetch"]
    /\ UNCHANGED <<rows, memory, machine, exported, exp, archive, was, history>>

\* Downloaded and verified: the directory is made, and is an artifact from now on.
\* Nothing looks again whether something came there meanwhile.
ImportFetched(j) ==
    /\ imp[j] = "fetch"
    /\ LET over == Target(j) # "none"
       IN  /\ imp' = [k \in Jobs |->
                        CASE k = j -> IF over THEN "overlay" ELSE "extract"
                          [] k # j /\ Moves(j) /\ Moves(k) /\ To(k) = To(j)
                                   /\ imp[k] = "extract" -> "overlay"
                          [] OTHER -> imp[k]]
           /\ odd' = IF over THEN odd \cup {"overwritten"} ELSE odd
    /\ IF Moves(j)
       THEN /\ files' = [files EXCEPT ![To(j)] = "partial"]
            /\ world' = [world EXCEPT ![To(j)] = 0]
            /\ UNCHANGED copied
       ELSE /\ copied' = [copied EXCEPT ![j] = "partial"]
            /\ UNCHANGED <<files, world>>
    /\ UNCHANGED <<rows, memory, known, want, live, exported, exp, archive, was,
                   newest, upsets>>

\* Mutant of Staged: one staging directory for every migration, which the first one fills.
StagedOnce(j) == archive[1]

\* The archive in the staging directory, which is downloaded unless it is there.
Staged(j) == archive[j]

\* Extracted, and known to the agent; keep() of the directory is not on disk yet.
ImportRegisters(j) ==
    /\ imp[j] \in Fetching
    /\ imp' = [imp EXCEPT ![j] = "registered"]
    /\ IF Moves(j)
       THEN /\ known' = [known EXCEPT ![To(j)] = TRUE]
            /\ IF imp[j] = "extract"
               THEN /\ files' = [files EXCEPT ![To(j)] = "whole"]
                    /\ world' = [world EXCEPT ![To(j)] = Staged(j)]
               ELSE UNCHANGED <<files, world>>
            /\ UNCHANGED copied
       ELSE /\ copied' = [copied EXCEPT ![j] = "whole"]
            /\ UNCHANGED <<known, files, world>>
    /\ UNCHANGED <<rows, memory, want, live, exported, exp, archive, was, history>>

\* startAfter: a start that fails is only logged.
ImportStarts(j) ==
    /\ imp[j] = "registered"
    /\ imp' = [imp EXCEPT ![j] = "started"]
    /\ \/ /\ Moves(j) /\ job[j].again /\ was[j]
          /\ known[To(j)] /\ files[To(j)] # "none"
          /\ live' = [live EXCEPT ![To(j)] = TRUE]
       \/ UNCHANGED live
    /\ UNCHANGED <<rows, memory, known, want, files, world, copied, exported, exp,
                   archive, was, history>>

\* The outcome is written in the journal.
ImportEnds(j) ==
    /\ imp[j] = "started"
    /\ imp' = [imp EXCEPT ![j] = "done"]
    /\ UNCHANGED <<rows, memory, machine, exported, exp, archive, was, history>>

\* A task that fails or is cancelled, its artifacts removed.
TaskFails(j) ==
    /\ \/ /\ exp[j] \in {"stop", "backup"}
          /\ exp' = [exp EXCEPT ![j] = "failed"]
          /\ UNCHANGED <<imp, files, world, copied>>
       \/ /\ imp[j] \in {"check", "fetch"} \cup Fetching
          /\ imp' = [imp EXCEPT ![j] = "failed"]
          /\ Remove(IF imp[j] \in Fetching THEN {j} ELSE {})
          /\ UNCHANGED exp
    /\ UNCHANGED <<rows, memory, known, want, live, exported, archive, was, history>>

TaskStep(j) ==
    \/ ExportStops(j) \/ ExportSaves(j)
    \/ ImportChecks(j) \/ ImportFetched(j) \/ ImportRegisters(j) \/ ImportStarts(j)
    \/ ImportEnds(j)
    \/ TaskFails(j)

\* Mutant of Unkept: recover() goes over all the tasks of the journal.
UnkeptOrDone == {j \in Jobs : imp[j] \in {"registered", "started", "done"}}

\* The imports whose keep() of the directory may have missed the disk.
Unkept == {j \in Jobs : imp[j] \in {"registered", "started"}}

\* The agent, or its machine, restarts: restoreOnBoot first, then recover() fails the
\* tasks the journal holds as running and removes their artifacts.
AgentRestarts(a) ==
    /\ Upset("agent")
    /\ \E survives \in BOOLEAN :
          live' = [live EXCEPT ![a] = \/ survives /\ @
                                      \/ want[a] /\ known[a] /\ files[a] # "none"]
    /\ \E unkept \in SUBSET Unkept :
          Remove({j \in Jobs : To(j) = a /\ (imp[j] \in Fetching \/ j \in unkept)})
    /\ exp' = [j \in Jobs |-> IF From(j) = a /\ exp[j] \in {"stop", "backup"}
                              THEN "failed" ELSE exp[j]]
    /\ imp' = [j \in Jobs |-> IF To(j) = a /\ imp[j] \notin {"none", "done"}
                              THEN "failed" ELSE imp[j]]
    /\ exported' = {j \in exported : From(j) # a}
    /\ due' = [due EXCEPT ![a] = "none"]
    /\ opening' = opening \cup {a}
    /\ UNCHANGED <<rows, step, known, want, archive, was, newest, odd>>

-----------------------------------------------------------------------------
(* What goes on around the chain.                                          *)

Cut(a) ==
    /\ Upset("cut")
    /\ due' = [due EXCEPT ![a] = "none"]
    /\ opening' = opening \cup {a}
    /\ UNCHANGED <<rows, step, machine, tasks, newest, odd>>

\* A session opens: configuration pushed, and a start of what should run.
Sync(a) ==
    /\ a \in opening
    /\ Idle
    /\ opening' = opening \ {a}
    /\ Configure(a, owner, desired)
    /\ due' = [due EXCEPT ![a] = IF owner = a /\ desired /\ ~live[a] /\ prov = "ready"
                                 THEN "sync" ELSE @]
    /\ UNCHANGED <<rows, step, live, files, world, copied, tasks, history>>

Order(running) ==
    /\ Upset("order")
    /\ Idle
    /\ owner \notin opening
    /\ desired' = running
    /\ Configure(owner, owner, running)
    /\ UNCHANGED <<owner, prov, clone, seen, job, status, step, opening, files, world, copied,
                   tasks, newest, odd>>

\* The routes start and restart; only start looks at the provisioning.
OrderStart ==
    /\ Order(TRUE)
    /\ \E kind \in {"start", "sync"} :
          /\ kind = "start" => prov = "ready"
          /\ due' = [due EXCEPT ![owner] = kind]
    /\ UNCHANGED live

OrderStop ==
    /\ Order(FALSE)
    /\ live' = [live EXCEPT ![owner] = FALSE]
    /\ UNCHANGED due

\* server.start reaches the agent; a route that fails takes its wish back.
StartDue(a) ==
    /\ due[a] # "none"
    /\ due' = [due EXCEPT ![a] = "none"]
    /\ \/ /\ known[a] /\ files[a] # "none"
          /\ live' = [live EXCEPT ![a] = TRUE]
          /\ UNCHANGED desired
       \/ /\ Idle
          /\ desired' = (desired /\ due[a] # "start")
          /\ UNCHANGED live
    /\ UNCHANGED <<owner, prov, clone, seen, job, status, step, opening, known, want, files,
                   world, copied, tasks, history>>

ServerExits(a) ==
    /\ live[a]
    /\ Upset("exit")
    /\ live' = [live EXCEPT ![a] = FALSE]
    /\ UNCHANGED <<rows, memory, known, want, files, world, copied, tasks, newest, odd>>

\* A scan of the target machine finds the directory of an import that is not over:
\* without marker it is adopted as another server, or recognized as the copy.
Scan(j) ==
    /\ j \notin seen
    /\ Idle
    /\ \/ Moves(j) /\ imp[j] \in Fetching /\ ~known[To(j)]
       \/ Copies(j) /\ copied[j] # "none" /\ clone[j] = "migrating"
    /\ seen' = seen \cup {j}
    /\ UNCHANGED <<owner, prov, desired, clone, job, status, memory, machine, tasks, history>>

\* The archive of an active migration is older than what is played now.
Left(j) == Moves(j) /\ status[j] = "active" /\ exp[j] \in {"backup", "done"} /\ owner # To(j)

Play(a) ==
    /\ live[a]
    /\ files[a] = "whole"
    /\ newest < MaxWorld
    /\ newest' = newest + 1
    /\ world' = [world EXCEPT ![a] = newest + 1]
    /\ odd' = IF a # owner \/ \E j \in Jobs : Left(j) THEN odd \cup {"strayed"} ELSE odd
    /\ UNCHANGED <<rows, memory, known, want, live, files, copied, tasks, upsets>>

-----------------------------------------------------------------------------
Init ==
    /\ owner = Home
    /\ prov = "ready"
    /\ desired = TRUE
    /\ clone = [j \in Jobs |-> "none"]
    /\ seen = {}
    /\ job = [j \in Jobs |-> [kind |-> "migrate", from |-> Home, to |-> Home, again |-> FALSE]]
    /\ status = [j \in Jobs |-> "unasked"]
    /\ step = [j \in Jobs |-> "none"]
    /\ due = [a \in Agents |-> "none"]
    /\ known = [a \in Agents |-> a = Home]
    /\ want = known
    /\ live = want
    /\ files = [a \in Agents |-> IF a = Home THEN "whole" ELSE "none"]
    /\ world = [a \in Agents |-> 0]
    /\ copied = [j \in Jobs |-> "none"]
    /\ exported = {}
    /\ exp = [j \in Jobs |-> "none"]
    /\ imp = [j \in Jobs |-> "none"]
    /\ archive = [j \in Jobs |-> 0]
    /\ was = [j \in Jobs |-> FALSE]
    /\ newest = 0
    /\ odd = {}
    /\ opening = {}
    /\ upsets = 0

Next ==
    \/ \E j \in Jobs : Ask(j) \/ PanelStep(j) \/ StretchStep(j) \/ TaskStep(j) \/ Scan(j)
    \/ \E a \in Agents :
          \/ AgentRestarts(a) \/ Cut(a) \/ Sync(a) \/ StartDue(a)
          \/ ServerExits(a) \/ Play(a)
    \/ PanelRestarts \/ OrderStart \/ OrderStop

Spec == Init /\ [][Next]_vars

-----------------------------------------------------------------------------
(* Properties.                                                             *)

RowsOK ==
    /\ owner \in Agents /\ prov \in {"ready", "migrating"} /\ desired \in BOOLEAN
    /\ clone \in [Jobs -> {"none", "migrating", "ready"}] /\ seen \subseteq Jobs
    /\ job \in [Jobs -> [kind : {"migrate", "duplicate"}, from : Agents, to : Agents,
                        again : BOOLEAN]]
    /\ status \in [Jobs -> Statuses]

MemoryOK ==
    /\ step \in [Jobs -> Steps] /\ due \in [Agents -> {"none", "start", "sync"}]
    /\ opening \subseteq Agents

MachineOK ==
    /\ known \in [Agents -> BOOLEAN] /\ want \in [Agents -> BOOLEAN]
    /\ live \in [Agents -> BOOLEAN] /\ files \in [Agents -> Contents]
    /\ world \in [Agents -> 0..MaxWorld] /\ copied \in [Jobs -> Contents]

TasksOK ==
    /\ exported \subseteq Jobs /\ exp \in [Jobs -> Exports] /\ imp \in [Jobs -> Imports]
    /\ archive \in [Jobs -> 0..MaxWorld] /\ was \in [Jobs -> BOOLEAN]

HistoryOK ==
    /\ newest \in 0..MaxWorld /\ odd \subseteq {"stale", "overwritten", "strayed", "halved"}
    /\ upsets \in 0..MaxUpsets

TypeOK == RowsOK /\ MemoryOK /\ MachineOK /\ TasksOK /\ HistoryOK

\* Whatever restarts, fails or is lost, the machine that owns the server holds its whole
\* directory ("nothing is destroyed on the source before the switch"), as long as no job
\* was admitted on checks that no longer held and no import wrote over another directory.
OwnerHasFiles == odd \cap {"stale", "overwritten"} = {} => files[owner] = "whole"

Straight == odd \subseteq {"halved"}

\* The owner has the last world that was played, unless somebody played elsewhere or
\* after the archive was made, or a job was admitted on checks that no longer held.
WorldFollows == Straight => world[owner] = newest

\* A copy that is shown ready has its whole directory.
CloneComplete == \A j \in Jobs : clone[j] = "ready" => copied[j] = "whole"

\* The chain of job j will give its server back, and waits for nothing but a task that its
\* agent has; or the constructor has the row in its list.
Underway(j) ==
    /\ step[j] \in {"export", "exporting", "import", "importing", "port", "relaunch",
                    "restart", "finish", "fail", "restore", "sweep", "reset"}
    /\ step[j] \in {"port", "relaunch", "restart", "finish", "fail"} => Copies(j)
    /\ step[j] = "exporting" => exp[j] # "none"
    /\ step[j] = "importing" => imp[j] # "none"

\* A server is "migrating" only while a job will give it back, whoever restarts and whatever
\* is lost, unless the panel died between two commits of the end of a job.
NeverStranded ==
    "halved" \notin odd /\ prov = "migrating" => \E j \in Jobs : Underway(j)

\* Job j still has to show its copy ready or to remove the row of it.
CopyPending(j) ==
    \/ status[j] = "active" /\ step[j] \notin {"relaunch", "restart", "finish", "fail"}
    \/ step[j] \in {"insert", "reset", "discard"}

\* The row of a copy that is not ready is there only while its job goes on, or is about to be
\* removed, unless a scan has touched it or the panel died between two commits.
CopyRowRemoved ==
    "halved" \notin odd =>
       \A j \in Jobs \ seen : clone[j] = "migrating" => CopyPending(j)

\* "un echec avant la bascule laisse simplement le serveur sur la source": a migration
\* that failed before the switch does not run the server on its target.
InterruptedStaysOnSource ==
    \A j \in Jobs : status[j] = "failed" /\ Moves(j) /\ owner = From(j) => ~live[To(j)]

-----------------------------------------------------------------------------
(* What makes them inductive.                                              *)

\* A chain stands somewhere exactly while its row is active, and its import was not
\* ordered before it came there.
ChainsActive ==
    /\ \A j \in Jobs :
          step[j] \notin {"none", "insert", "restore", "reset", "discard"}
             <=> status[j] = "active"
    /\ \A j \in Jobs : step[j] = "insert" => status[j] = "checked"
    /\ \A j \in Jobs : step[j] \in {"restore", "reset", "discard"} => status[j] \notin Awaited
    /\ \A j \in Jobs : status[j] # "unasked" /\ Moves(j) => To(j) # From(j)
    /\ \A j \in Jobs :
          status[j] \in Awaited \/ step[j] \in {"mark", "export", "exporting", "import"}
             => imp[j] = "none"

\* An import that is over has its copy, and a row is ready for such a copy alone.
CopyKnown ==
    /\ \A j \in Jobs :
          Copies(j) /\ imp[j] \in {"registered", "started", "done"} => copied[j] = "whole"
    /\ \A j \in Jobs : step[j] = "port" \/ clone[j] = "ready" => Copies(j) /\ imp[j] = "done"

\* A migration has no copy, nor has a job that nobody asked for; a duplication has no switch.
CopyRowsOwned ==
    /\ \A j \in Jobs : Moves(j) \/ status[j] = "unasked" => clone[j] = "none"
    /\ \A j \in Jobs : step[j] \in {"tell", "retell", "finalize"} => Moves(j)

Unspoilt == odd \cap {"stale", "overwritten"} = {}

Before == {"insert", "mark", "export", "exporting", "import", "importing", "port", "relaunch",
           "restart"}
After  == {"tell", "retell", "finalize"}

\* The import of job k may still remove the directory of machine m.
Writes(k, m) ==
    Moves(k) /\ To(k) = m /\ imp[k] \in {"extract", "overlay", "registered", "started"}

\* The directory of machine m is whole, and nothing is about to remove it.
Settled(m) == files[m] = "whole" /\ \A k \in Jobs : ~Writes(k, m)

\* Job j is in the table as active, or is about to be.
Engaged(j) == status[j] = "active" \/ step[j] = "insert"

\* The owner is settled; before its switch a chain starts from there, after it its source
\* is settled too, and its target is once its import is done; two imports never share a
\* directory.
Placed == Unspoilt =>
    /\ Settled(owner)
    /\ \A j, k \in Jobs : Engaged(j) /\ Engaged(k) => j = k
    /\ \A j \in Jobs : step[j] \in Before => owner = From(j)
    /\ \A j \in Jobs : step[j] \in After => Moves(j) /\ owner = To(j) /\ Settled(From(j))
    /\ \A j \in Jobs : Moves(j) /\ step[j] = "importing" /\ imp[j] = "done" => Settled(To(j))
    /\ \A j, k \in Jobs, m \in Agents : Writes(j, m) /\ Writes(k, m) => j = k
    /\ \A j \in Jobs, m \in Agents : Writes(j, m) =>
          /\ imp[j] # "overlay"
          /\ files[m] = IF imp[j] = "extract" THEN "partial" ELSE "whole"

\* An export is ordered where its chain says so, and its archive is there for the import.
Exported == \A j \in Jobs :
    /\ status[j] \in Awaited \/ step[j] \in {"mark", "export"} => exp[j] = "none"
    /\ step[j] \in {"import", "importing"} => exp[j] = "done"

\* The directory that an import makes is in its place.
Landed == {"registered", "started", "done"}

\* The last world goes from the owner to the archive, and from there to the target; it
\* is the last one as long as the chain has not passed its switch.
Worlds == Straight =>
    /\ world[owner] = newest
    /\ \A j \in Jobs : Moves(j) /\ step[j] \in Before /\ exp[j] = "done" => archive[j] = newest
    /\ \A j \in Jobs :
          Moves(j) /\ step[j] = "importing" /\ imp[j] \in Landed => world[To(j)] = newest
=============================================================================

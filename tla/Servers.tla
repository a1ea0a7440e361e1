--------------------------------- MODULE Servers ---------------------------------
(***************************************************************************)
(* The life of one Minecraft server, as its agent manages it.              *)
(*                                                                         *)
(* ServerProcess (apps/agent/src/minecraft/server-process.ts) launches the *)
(* Java process, which outlives the agent, follows its state and stops it  *)
(* by steps; ServerManager (server-manager.ts) guards the starts, records  *)
(* the process on disk and adopts it after a restart of the agent;         *)
(* Watchdog (apps/agent/src/monitoring/watchdog.ts) restarts a server that *)
(* crashed and kills one that is frozen; a restoration                     *)
(* (apps/agent/src/backup/backup-service.ts) stops the server and replaces *)
(* its files.  Orders come from the panel's routes and, when the agent     *)
(* connects, from its session (apps/panel/src/agents/session.ts).          *)
(*                                                                         *)
(* The two phases of a crash that the operator may meet, the search for a  *)
(* crash report and the death of a killed process, are states of their own.*)
(***************************************************************************)
EXTENDS Integers

CONSTANTS CrashLoopMax, \* automatic restarts allowed per window
          MaxOrders,    \* number of orders of the operator
          MaxFaults     \* number of crashes, hangs, cuts and expiries

ASSUME ServersAssumption ==
    CrashLoopMax \in Nat /\ MaxOrders \in Nat /\ MaxFaults \in Nat

Running == {"starting", "running", "stopping"}
RunStates == Running \cup {"stopped", "crashed"}

VARIABLES
    \* the operating system
    proc,       \* the server's process: none, booting, open, hung
    told,       \* what it was told: nothing, stop, term, kill
    lost,       \* a process no agent knows
    onDisk,     \* the agent's state file names proc
    \* the agent: ServerProcess and ServerManager
    up,         \* the agent's process runs
    state,      \* _state
    asked,      \* stopRequested
    announced,  \* a log line told of the end (sawStopping, eulaRequired)
    searching,  \* onExit waits for findCrashReport
    stopping,   \* the stop() in charge: none, polite, forced, term, kill
    restarting, \* a restart(): no, owner of the stop, waiter of another's
    starting,   \* who began the start in progress: no, order, auto, watchdog
    restoring,  \* a restoration: no, verify, owner, waiter, files
    desired,    \* desiredStates, written by the panel's orders
    listed,     \* the panel's session will start the server (toStart)
    \* the agent: Watchdog
    crashes,    \* restarts in the window
    timer,      \* a restart is due
    \* history
    held,       \* the last order was a stop or a kill: no, stop, quiet
    touched,    \* the restoration met a start or an unfinished stop
    autos,      \* restarts by the watchdog alone, in the window
    orders, faults

osVars == <<proc, told, lost, onDisk>>
exitVars == <<state, asked, announced, searching>>
callVars == <<stopping, restarting, starting, restoring, desired, listed>>
dogVars == <<crashes, timer>>
histVars == <<held, touched, autos>>
agentVars == <<up, exitVars, callVars, dogVars>>
vars == <<osVars, agentVars, histVars, orders, faults>>

Processes == {"none", "booting", "open", "hung"}

TypeOK ==
    /\ proc \in Processes /\ lost \in Processes
    /\ told \in {"nothing", "stop", "term", "kill"}
    /\ onDisk \in BOOLEAN /\ up \in BOOLEAN
    /\ state \in RunStates
    /\ asked \in {"none", "stop", "kill", "freeze"}
    /\ announced \in BOOLEAN /\ searching \in BOOLEAN
    /\ stopping \in {"none", "polite", "forced", "term", "kill"}
    /\ restarting \in {"no", "owner", "waiter"}
    /\ starting \in {"no", "order", "auto", "watchdog"}
    /\ restoring \in {"no", "verify", "owner", "waiter", "files"}
    /\ desired \in BOOLEAN /\ listed \in BOOLEAN
    /\ crashes \in 0..CrashLoopMax /\ timer \in BOOLEAN
    /\ held \in {"no", "stop", "quiet"}
    /\ touched \in BOOLEAN /\ autos \in Nat
    /\ orders \in 0..MaxOrders /\ faults \in 0..MaxFaults

Init ==
    /\ proc = "none" /\ told = "nothing" /\ lost = "none" /\ onDisk = FALSE
    /\ up = TRUE /\ state = "stopped" /\ asked = "none"
    /\ announced = FALSE /\ searching = FALSE
    /\ stopping = "none" /\ restarting = "no" /\ starting = "no"
    /\ restoring = "no" /\ desired = FALSE /\ listed = FALSE
    /\ crashes = 0 /\ timer = FALSE
    /\ held = "no" /\ touched = FALSE /\ autos = 0
    /\ orders = 0 /\ faults = 0

IsRunning == state \in Running

Ordered == orders < MaxOrders /\ orders' = orders + 1 /\ UNCHANGED faults
Fault == faults < MaxFaults /\ faults' = faults + 1 /\ UNCHANGED orders
Internal == UNCHANGED <<orders, faults>>

-----------------------------------------------------------------------------
(* Starts.                                                                 *)

(* start: nothing happens if the server runs or is being started.          *)
BeginStart(source) ==
    starting' = IF IsRunning \/ starting # "no" THEN starting ELSE source

(* Mutant of Cancel: the restart that is due is left alone.                *)
CancelCounters == crashes' = 0 /\ autos' = 0 /\ UNCHANGED timer

(* Watchdog.cancel, at every order.                                        *)
Cancel == crashes' = 0 /\ timer' = FALSE /\ autos' = 0

(* server.start, from the panel's route.                                   *)
StartOrder ==
    /\ up /\ Ordered
    /\ Cancel
    /\ desired' = TRUE /\ held' = "no"
    /\ BeginStart("order")
    /\ touched' = (touched \/ restoring # "no")
    /\ UNCHANGED <<osVars, up, exitVars, stopping, restarting, restoring, listed>>

(* The agent connects again: the panel lists what should run and does not. *)
Connect ==
    /\ up /\ Fault
    /\ desired /\ ~IsRunning
    /\ listed' = TRUE
    /\ UNCHANGED <<osVars, up, exitVars, stopping, restarting, starting, restoring>>
    /\ UNCHANGED <<desired, dogVars, histVars>>

(* Its configuration pushed and its tasks reconciled, it starts the list.  *)
StartOnConnect ==
    /\ up /\ listed
    /\ listed' = FALSE
    /\ Cancel
    /\ BeginStart("auto")
    /\ touched' = (touched \/ restoring # "no")
    /\ UNCHANGED <<osVars, up, exitVars, stopping, restarting, restoring, desired, held>>
    /\ Internal

(* doStart refuses (rights, EULA, Java, memory, port) or the process       *)
(* cannot be launched; the panel then takes back the wish of its order.    *)
StartFails ==
    /\ up /\ starting # "no"
    /\ desired' = (desired /\ starting # "order")
    /\ starting' = "no"
    /\ UNCHANGED <<osVars, up, exitVars, stopping, restarting, restoring, listed>>
    /\ UNCHANGED <<dogVars, histVars>> /\ Internal

(* Its checks pass, the port included: the process is launched.            *)
Spawn ==
    /\ up /\ starting # "no"
    /\ lost \notin {"open", "hung"}
    /\ proc' = "booting" /\ told' = "nothing" /\ onDisk' = FALSE
    /\ state' = "starting" /\ asked' = "none" /\ announced' = FALSE
    /\ starting' = "no"
    /\ UNCHANGED <<lost, up, searching, stopping, restarting, restoring, desired>>
    /\ UNCHANGED <<listed, dogVars, histVars>> /\ Internal

(* store.update: the record of the process reaches the disk.               *)
Persist ==
    /\ up /\ IsRunning /\ ~onDisk /\ proc # "none"
    /\ onDisk' = TRUE
    /\ UNCHANGED <<proc, told, lost, agentVars, histVars>> /\ Internal

(* A server listens on its port.                                           *)
Listen ==
    /\ \/ proc = "booting" /\ proc' = "open" /\ UNCHANGED lost
       \/ lost = "booting" /\ lost' = "open" /\ UNCHANGED proc
    /\ UNCHANGED <<told, onDisk, agentVars, histVars>> /\ Internal

(* A log line or RCON tells that it is ready.                              *)
MarkRunning ==
    /\ up /\ state = "starting" /\ proc = "open"
    /\ state' = "running"
    /\ UNCHANGED <<osVars, up, asked, announced, searching, callVars>>
    /\ UNCHANGED <<dogVars, histVars>> /\ Internal

-----------------------------------------------------------------------------
(* Stops.                                                                  *)

(* A process that is told something hears the strongest word.              *)
Tell(word) == told' = IF proc = "none" \/ told = "kill" THEN told ELSE word

(* stop() is called while another stop, or a kill, is in charge.           *)
InCharge == state = "stopping" /\ asked # "none"

(* stop() of a running server: the command is sent and the exit awaited,   *)
(* unless it cannot be sent: then a forced stop goes on with the signals,  *)
(* and the other throws.                                                   *)
BeginStop(force) ==
    /\ state' = "stopping"
    /\ \/ /\ asked' = "stop"
          /\ Tell("stop")
          /\ stopping' = IF force THEN "forced" ELSE "polite"
       \/ /\ force
          /\ asked' = "kill"
          /\ Tell("term")
          /\ stopping' = "term"
       \/ /\ ~force
          /\ asked' = "stop"
          /\ UNCHANGED <<told, stopping>>

(* stop(): it does nothing at rest, and only waits behind another.         *)
Stop(force) ==
    \/ /\ IsRunning /\ ~InCharge
       /\ BeginStop(force)
    \/ /\ ~IsRunning \/ InCharge
       /\ UNCHANGED <<state, asked, told, stopping>>

(* Nothing is under way that would start the server or make a crash of its *)
(* end.                                                                    *)
Quiet ==
    /\ starting = "no" /\ restarting = "no" /\ ~listed
    /\ ~searching /\ (IsRunning => asked # "freeze")

(* What an order to stop leaves in the history.                            *)
Held == held' = IF Quiet /\ restoring = "no" THEN "quiet" ELSE "stop"

(* server.stop.                                                            *)
StopOrder(force) ==
    /\ up /\ Ordered
    /\ Cancel
    /\ desired' = FALSE /\ Held
    /\ Stop(force)
    /\ UNCHANGED <<proc, lost, onDisk, up, announced, searching, restarting>>
    /\ UNCHANGED <<starting, restoring, listed, touched>>

(* kill: what was asked first is kept.                                     *)
Kill(reason) ==
    /\ asked' = IF asked = "none" THEN reason ELSE asked
    /\ state' = "stopping"
    /\ Tell("kill")

(* server.kill.                                                            *)
KillOrder ==
    /\ up /\ Ordered
    /\ Cancel
    /\ desired' = FALSE /\ Held
    /\ IF IsRunning THEN Kill("kill") ELSE UNCHANGED <<asked, state, told>>
    /\ UNCHANGED <<proc, lost, onDisk, up, announced, searching, stopping>>
    /\ UNCHANGED <<restarting, starting, restoring, listed, touched>>

(* server.restart: stop, then start.  One restart waits at a time; the     *)
(* code has no such limit, and further ones would wait behind the same     *)
(* stop.                                                                   *)
RestartOrder ==
    /\ up /\ Ordered /\ restarting = "no"
    /\ Cancel
    /\ desired' = TRUE /\ held' = "no"
    /\ Stop(TRUE)
    /\ BeginStart("auto")
    /\ restarting' = CASE ~IsRunning -> "no"
                       [] InCharge -> "waiter"
                       [] OTHER -> "owner"
    /\ touched' = (touched \/ restoring # "no")
    /\ UNCHANGED <<proc, lost, onDisk, up, announced, searching, restoring, listed>>

(* stop waits behind another for its own delay only, and returns all the   *)
(* same: the start that follows finds the server running.                  *)
RestartGivesUp ==
    /\ up /\ restarting = "waiter"
    /\ restarting' = "no"
    /\ UNCHANGED <<osVars, up, exitVars, stopping, starting, restoring, desired>>
    /\ UNCHANGED <<listed, dogVars, histVars>> /\ Internal

(* The delay of the stop in charge: SIGTERM, or E_TIMEOUT.                 *)
StopTimeout ==
    /\ up
    /\ \/ /\ stopping = "forced"
          /\ stopping' = "term" /\ asked' = "kill" /\ Tell("term")
       \/ /\ stopping = "polite"
          /\ stopping' = "none" /\ UNCHANGED <<asked, told>>
    /\ UNCHANGED <<proc, lost, onDisk, up, state, announced, searching>>
    /\ UNCHANGED <<restarting, starting, restoring, desired, listed, dogVars>>
    /\ UNCHANGED histVars /\ Internal

(* Mutant of TermTimeout: SIGKILL is not sent.                             *)
TermTimeoutSilent ==
    /\ up /\ stopping = "term"
    /\ stopping' = "kill"
    /\ UNCHANGED <<osVars, up, exitVars, restarting, starting>>
    /\ UNCHANGED <<restoring, desired, listed, dogVars, histVars>> /\ Internal

(* The delay of SIGTERM: SIGKILL.                                          *)
TermTimeout ==
    /\ up /\ stopping = "term"
    /\ stopping' = "kill" /\ Tell("kill")
    /\ UNCHANGED <<proc, lost, onDisk, up, exitVars, restarting, starting>>
    /\ UNCHANGED <<restoring, desired, listed, dogVars, histVars>> /\ Internal

(* A player or the console types the stop command.                         *)
PlayerStop ==
    /\ proc = "open" /\ told = "nothing" /\ Ordered
    /\ told' = "stop"
    /\ UNCHANGED <<proc, lost, onDisk, agentVars, histVars>>

-----------------------------------------------------------------------------
(* The end of the process.                                                 *)

Gone == proc' = "none" /\ told' = "nothing" /\ UNCHANGED <<lost, onDisk>>

(* The process ends as it was told; the agent may read its last words.     *)
Obey ==
    /\ told \in {"stop", "term"} /\ proc \in {"booting", "open"}
    /\ Gone
    /\ announced' \in {announced, up}
    /\ UNCHANGED <<up, state, asked, searching, callVars, dogVars, histVars>>
    /\ Internal

(* SIGKILL.                                                                *)
Die ==
    /\ told = "kill" /\ proc # "none"
    /\ Gone
    /\ UNCHANGED <<agentVars, histVars>> /\ Internal

(* It ends by itself; at boot, the reason may be its EULA, which it logs.  *)
Crash ==
    /\ proc # "none" /\ Fault
    /\ Gone
    /\ announced' \in {announced, up /\ proc = "booting"}
    /\ UNCHANGED <<up, state, asked, searching, callVars, dogVars, histVars>>

(* The main thread of the server answers nothing any more.                 *)
Hang ==
    /\ proc = "open" /\ Fault
    /\ proc' = "hung"
    /\ UNCHANGED <<told, lost, onDisk, agentVars, histVars>>

(* A process that no agent knows ends.                                     *)
LostEnds ==
    /\ lost # "none" /\ lost' = "none"
    /\ UNCHANGED <<proc, told, onDisk, agentVars, histVars>> /\ Internal

(* Mutant of Watch: one restart too many.                                  *)
WatchOneMore(s) ==
    IF s = "crashed" /\ crashes <= CrashLoopMax
    THEN crashes' = crashes + 1 /\ timer' = TRUE
    ELSE crashes' = 0 /\ UNCHANGED timer

(* Mutant of Watch: the restart is not counted.                            *)
WatchUncounted(s) ==
    IF s = "crashed" /\ crashes < CrashLoopMax
    THEN timer' = TRUE /\ UNCHANGED crashes
    ELSE crashes' = 0 /\ UNCHANGED timer

(* Watchdog.onStateChanged at the end of a run: a crash is followed by a   *)
(* restart until the window has crashLoopMax of them.                      *)
Watch(s) ==
    IF s = "crashed" /\ crashes < CrashLoopMax
    THEN crashes' = crashes + 1 /\ timer' = TRUE
    ELSE crashes' = 0 /\ UNCHANGED timer

(* finish: the state at rest is told, and whoever waited for the exit goes *)
(* on.                                                                     *)
Finish(s) ==
    /\ state' = s
    /\ Watch(s)
    /\ stopping' = "none"
    /\ restarting' = "no"
    /\ starting' = IF restarting # "no" /\ starting = "no" THEN "auto" ELSE starting
    /\ restoring' = IF restoring \in {"owner", "waiter"} THEN "files" ELSE restoring

(* onExit: what was asked, then what was announced, decides.               *)
NoticeExit ==
    /\ up /\ IsRunning /\ proc = "none" /\ ~searching
    /\ \/ /\ asked \in {"stop", "kill"} \/ (asked = "none" /\ announced)
          /\ Finish("stopped")
          /\ UNCHANGED searching
       \/ /\ asked = "freeze"
          /\ Finish("crashed")
          /\ UNCHANGED searching
       \/ /\ asked = "none" /\ ~announced
          /\ searching' = TRUE
          /\ UNCHANGED <<state, stopping, restarting, starting, restoring, dogVars>>
    /\ UNCHANGED <<osVars, up, asked, announced, desired, listed, histVars>>
    /\ Internal

(* The crash report was looked for: the crash is told.                     *)
Reported ==
    /\ up /\ searching
    /\ searching' = FALSE
    /\ Finish("crashed")
    /\ UNCHANGED <<osVars, up, asked, announced, desired, listed, histVars>>
    /\ Internal

-----------------------------------------------------------------------------
(* The watchdog.                                                           *)

(* The delay of the restart is over.                                       *)
TimerFires ==
    /\ up /\ timer
    /\ timer' = FALSE
    /\ BeginStart("watchdog")
    /\ autos' = autos + (IF IsRunning \/ starting # "no" THEN 0 ELSE 1)
    /\ UNCHANGED <<osVars, up, exitVars, stopping, restarting, restoring>>
    /\ UNCHANGED <<desired, listed, crashes, held, touched>> /\ Internal

(* A restart leaves the window; the one that is due is more recent.        *)
Expire ==
    /\ up /\ Fault
    /\ crashes > (IF timer THEN 1 ELSE 0)
    /\ crashes' = crashes - 1
    /\ autos' = IF autos = 0 THEN 0 ELSE autos - 1
    /\ UNCHANGED <<osVars, up, exitVars, callVars, timer, held, touched>>

(* onFreeze: the probe timed out three times, of a hung server or of one   *)
(* that is only slow.                                                      *)
FreezeKill ==
    /\ up /\ state = "running" /\ proc \in {"open", "hung"}
    /\ Kill("freeze")
    /\ UNCHANGED <<proc, lost, onDisk, up, announced, searching, callVars>>
    /\ UNCHANGED <<dogVars, histVars>> /\ Internal

-----------------------------------------------------------------------------
(* A restoration of the whole server.                                      *)

(* backup.restore: the watchdog is cancelled, the archive is verified.     *)
RestoreOrder ==
    /\ up /\ Ordered /\ restoring = "no"
    /\ Cancel
    /\ restoring' = "verify" /\ touched' = FALSE /\ held' = "no"
    /\ UNCHANGED <<osVars, up, exitVars, stopping, restarting, starting>>
    /\ UNCHANGED <<desired, listed>>

(* Mutant of RestoreStop: the exit is not awaited.                         *)
RestoreAtOnce ==
    /\ up /\ restoring = "verify"
    /\ Stop(TRUE)
    /\ restoring' = "files"
    /\ touched' = (touched \/ ~Quiet \/ timer)
    /\ UNCHANGED <<proc, lost, onDisk, up, announced, searching, restarting>>
    /\ UNCHANGED <<starting, desired, listed, dogVars, held, autos>> /\ Internal

(* The archive is sound: the server is stopped if it runs.                 *)
RestoreStop ==
    /\ up /\ restoring = "verify"
    /\ Stop(TRUE)
    /\ restoring' = CASE ~IsRunning -> "files"
                      [] InCharge -> "waiter"
                      [] OTHER -> "owner"
    /\ touched' = (touched \/ ~Quiet \/ timer)
    /\ UNCHANGED <<proc, lost, onDisk, up, announced, searching, restarting>>
    /\ UNCHANGED <<starting, desired, listed, dogVars, held, autos>> /\ Internal

(* Behind another's stop, the wait ends after its delay, exit or not.      *)
RestoreGivesUp ==
    /\ up /\ restoring = "waiter"
    /\ restoring' = "files" /\ touched' = TRUE
    /\ UNCHANGED <<osVars, up, exitVars, stopping, restarting, starting>>
    /\ UNCHANGED <<desired, listed, dogVars, held, autos>> /\ Internal

(* It ends, or fails at the verification or later, and restarts the server *)
(* when it was asked to.                                                   *)
RestoreEnds ==
    /\ up /\ restoring \in {"verify", "files"}
    /\ restoring' = "no"
    /\ \/ restoring = "files" /\ BeginStart("auto") /\ autos' = 0
       \/ UNCHANGED <<starting, autos>>
    /\ UNCHANGED <<osVars, up, exitVars, stopping, restarting, desired, listed>>
    /\ UNCHANGED <<dogVars, held, touched>> /\ Internal

-----------------------------------------------------------------------------
(* The agent's own process.                                                *)

(* It ends; the server goes on, recorded or not.                           *)
AgentCrash ==
    /\ up /\ Fault
    /\ proc # "none" /\ ~onDisk => lost = "none"
    /\ up' = FALSE
    /\ state' = "stopped" /\ asked' = "none"
    /\ announced' = FALSE /\ searching' = FALSE
    /\ stopping' = "none" /\ restarting' = "no" /\ starting' = "no"
    /\ restoring' = "no" /\ listed' = FALSE
    /\ crashes' = 0 /\ timer' = FALSE
    /\ IF proc # "none" /\ ~onDisk
       THEN lost' = proc /\ proc' = "none" /\ told' = "nothing"
       ELSE UNCHANGED <<lost, proc, told>>
    /\ held' = IF proc = "none" THEN held ELSE "no"
    /\ UNCHANGED <<onDisk, desired, touched, autos>>

(* Mutant of AgentBoot: the recorded process is not adopted.               *)
BootAlone ==
    /\ ~up /\ up' = TRUE
    /\ onDisk' = FALSE
    /\ starting' = IF desired THEN "auto" ELSE "no"
    /\ autos' = 0
    /\ UNCHANGED <<proc, told, lost, state, asked, announced, searching, stopping>>
    /\ UNCHANGED <<restarting, restoring, desired, listed, dogVars, held>>
    /\ UNCHANGED touched /\ Internal

(* init: the recorded process is adopted, the wished server started.       *)
AgentBoot ==
    /\ ~up /\ up' = TRUE
    /\ IF onDisk /\ proc # "none"
       THEN state' = "starting" /\ UNCHANGED <<onDisk, starting>>
       ELSE /\ onDisk' = FALSE
            /\ starting' = IF desired THEN "auto" ELSE "no"
            /\ UNCHANGED state
    /\ autos' = 0
    /\ UNCHANGED <<proc, told, lost, asked, announced, searching, stopping>>
    /\ UNCHANGED <<restarting, restoring, desired, listed, dogVars, held>>
    /\ UNCHANGED touched /\ Internal

Next ==
    \/ StartOrder \/ Connect \/ StartOnConnect \/ StartFails \/ Spawn
    \/ Persist \/ Listen \/ MarkRunning
    \/ \E force \in BOOLEAN : StopOrder(force)
    \/ KillOrder \/ RestartOrder \/ RestartGivesUp
    \/ StopTimeout \/ TermTimeout \/ PlayerStop
    \/ Obey \/ Die \/ Crash \/ Hang \/ LostEnds \/ NoticeExit \/ Reported
    \/ TimerFires \/ Expire \/ FreezeKill
    \/ RestoreOrder \/ RestoreStop \/ RestoreGivesUp \/ RestoreEnds
    \/ AgentCrash \/ AgentBoot

Spec == Init /\ [][Next]_vars

(* Timers fire, SIGKILL kills, and the promises of the agent go on: nothing *)
(* is assumed of the server's obedience, of the orders nor of the faults.   *)
FairSpec ==
    /\ Spec
    /\ WF_vars(StopTimeout) /\ WF_vars(TermTimeout) /\ WF_vars(Die)
    /\ WF_vars(NoticeExit) /\ WF_vars(Reported)

-----------------------------------------------------------------------------
(* Properties.                                                             *)

(* A server that is at rest for a living agent has no process that the     *)
(* agent's record would let it know: stop, kill and adoption                *)
(* (server-process.ts, ServerManager.init) never leave one behind.         *)
AtRestIsDead == up /\ ~IsRunning => proc = "none"

(* A server stopped or killed on order stays down, and so does the restart *)
(* that was due, when nothing else was under way at the order: a start, a  *)
(* restart, a restoration, a crash being told (server.stop and server.kill *)
(* of agent.ts, Watchdog.cancel, onExit).                                  *)
HeldStaysDown == held = "quiet" => starting = "no" /\ ~timer

(* The watchdog restarts a server at most crashLoopMax times in a window,  *)
(* and once more: the restart that is due survives a start it did not ask  *)
(* for (ServerManager.restart of a server whose crash is being told, the   *)
(* end of a restoration), a clean end and its own giving up (onCrash,      *)
(* onStateChanged).                                                        *)
AutoRestartsBounded == autos <= CrashLoopMax + 1

(* The restoration replaces the files of a server without a process, when  *)
(* no start came in its way and its stop had not to wait behind another    *)
(* (BackupService.restore, ServerProcess.stop).                            *)
FilesAtRest == restoring = "files" /\ ~touched => proc = "none"

(* A stop that may force the end reaches it, whatever the server does: it  *)
(* sends SIGTERM, then SIGKILL (ServerProcess.stop and terminate).         *)
StopEnds ==
    stopping \in {"forced", "term", "kill"}
        ~> stopping = "none" /\ (~up \/ proc = "none")

(* docs/06-minecraft.md:134: the restoration stops the server if it runs,  *)
(* the watchdog cancelled, before its files are replaced.                  *)
FilesReplacedAtRest == restoring = "files" => proc = "none"

(* What makes the first four inductive.                                    *)

(* A start is under way at rest only, a crash is told of a dead process,   *)
(* and a dead agent leaves nothing but the recorded process.               *)
ProcessKnown ==
    /\ AtRestIsDead
    /\ starting # "no" => ~IsRunning
    /\ searching => IsRunning /\ proc = "none"
    /\ restarting # "no" => IsRunning
    /\ ~up => /\ state = "stopped" /\ starting = "no" /\ ~searching
              /\ restoring = "no" /\ ~timer /\ ~listed
              /\ proc # "none" => onDisk

(* Nothing that could start a server held down is left.                    *)
HeldDown ==
    held = "quiet" =>
        /\ starting = "no" /\ restarting = "no" /\ restoring = "no"
        /\ ~timer /\ ~listed /\ ~desired /\ ~searching
        /\ IsRunning => state = "stopping" /\ asked \in {"stop", "kill"}
        /\ ~up => proc = "none"

(* Each restart but one was counted, as long as one may still come.        *)
Due == IF timer THEN 1 ELSE 0
RestartsCounted ==
    /\ restarting # "no" => autos = 0 /\ crashes = 0 /\ ~timer
    /\ timer /\ (IsRunning \/ starting # "no") => autos = 0
    /\ \/ autos + Due <= crashes + 1
       \/ /\ autos <= CrashLoopMax + 1
          /\ ~up \/ (~IsRunning /\ starting = "no" /\ ~timer)

(* The end that an undisturbed restoration waits for is that of a stop.    *)
RestoreAlone ==
    restoring \in {"owner", "waiter", "files"} /\ ~touched =>
        /\ starting = "no" /\ restarting = "no" /\ ~timer /\ ~searching
        /\ IF restoring = "files" THEN ~IsRunning
           ELSE state = "stopping" /\ asked \in {"stop", "kill"}

=============================================================================

------------------------------- MODULE Updates -------------------------------
(***************************************************************************)
(* The updates of an agent and of its runtime: update/updater.ts stages    *)
(* them, launcher/launcher.cjs applies, tries and takes them back, and the *)
(* next agent that opens a session reports the outcome.                    *)
(*                                                                         *)
(* The launcher runs to the end of each handler; its successive writes are *)
(* separate steps here, since the machine may go down between two of them  *)
(* and since the agent runs on meanwhile.  The launcher writes its files   *)
(* by rename.  The agent writes next.json and runtime-next.json in place;  *)
(* a half-written one, which the launcher ignores, is no file here.  Time  *)
(* is abstracted: the health timer may fire at any time before the         *)
(* launcher hears "healthy".                                               *)
(***************************************************************************)
EXTENDS Naturals, FiniteSets

CONSTANTS
    Versions,           \* the releases of the agent, in the order of their numbers
    First,              \* the one that was installed
    Broken,             \* those that never open a session
    Runtimes,           \* the runtimes one may push
    BrokenRuntimes,     \* those under which no agent opens a session
    Upsets,             \* "blackout", "crash" of a sound agent, a "corrupt" bundle
    MaxUpsets,          \* bound: the number of them
    Readings            \* bound: the readings of the outcome (3 in updateResultDelaysMs)

ASSUME VersionsAssumption == Versions \subseteq Nat \ {0} /\ First \in Versions \ Broken
ASSUME RuntimesAssumption == Runtimes \subseteq Nat \ {0}
ASSUME BoundsAssumption == MaxUpsets \in Nat /\ Readings \in Nat \ {0}

VARIABLES
    \* the files of the launcher's home
    bundles,    \* the versions under versions/ that have an agent.js
    current,    \* current.json
    next,       \* next.json
    trial,      \* trial.json
    runtime,    \* runtime-current.json; 0 when absent, for the embedded runtime
    rnext,      \* runtime-next.json; 0 when absent
    result,     \* update-result.json
    claimed,    \* update-result.claimed.json
    \* the launcher
    at,         \* where it stands
    armed,      \* the trial that the health timer would take back
    healthy,    \* "healthy" was heard from this child
    undo,       \* the trial that is being taken back
    doomed,     \* the child is to be killed
    \* the agent
    phase,      \* of the process
    version,    \* MMO_AGENT_VERSION
    node,       \* the runtime under it
    sent,       \* "healthy" is in the pipe
    staged,     \* the version that agent.update is installing
    reads,      \* the readings of the outcome to come
    held,       \* outcomes emitted, and not on disk yet
    over,       \* readings whose outcome is on disk, and whose claim is to be removed
    \* history
    proven,     \* the versions that opened a session
    sound,      \* the runtimes under which one did
    last,       \* the last outcome that the launcher wrote, until an agent has it in its journal
    odd,        \* what happened that the properties set aside
    upsets

home     == <<bundles, current, next, trial, runtime, rnext, result, claimed>>
launcher == <<at, armed, healthy, undo, doomed>>
agent    == <<phase, version, node, sent, staged, reads, held, over>>
history  == <<proven, sound, last, odd, upsets>>
vars     == <<home, launcher, agent, history>>

MaxTrialCrashes == 2

NoNext    == [version |-> 0, previous |-> 0]
NoTrial   == [kind |-> "none", version |-> 0, previous |-> 0, crashes |-> 0]
NoOutcome == [kind |-> "none", status |-> "none", version |-> 0, other |-> 0]

Trial(kind, v, previous) ==
    [kind |-> kind, version |-> v, previous |-> previous, crashes |-> 0]

Alive == phase \in {"boot", "up", "leaving"}

Upset(kind) ==
    /\ kind \in Upsets
    /\ upsets < MaxUpsets
    /\ upsets' = upsets + 1

-----------------------------------------------------------------------------
(* The launcher.                                                           *)

\* The service manager starts it again.
Start ==
    /\ at = "off"
    /\ at' = "pending"
    /\ UNCHANGED <<home, armed, healthy, undo, doomed, agent, history>>

\* applyPending: the trial is written before the switch, next.json removed after it.
TakeNext ==
    /\ at = "pending"
    /\ IF next.version \in bundles
       THEN /\ trial' = Trial("agent", next.version,
                              IF next.previous # 0 THEN next.previous ELSE current)
            /\ at' = "swap"
            /\ UNCHANGED next
       ELSE /\ next' = NoNext
            /\ at' = "runtime"
            /\ UNCHANGED trial
    /\ UNCHANGED <<bundles, current, runtime, rnext, result, claimed, armed, healthy, undo,
                   doomed, agent, history>>

Swap ==
    /\ at = "swap"
    /\ current' = next.version
    /\ at' = "clear"
    /\ UNCHANGED <<bundles, next, trial, runtime, rnext, result, claimed, armed, healthy, undo,
                   doomed, agent, history>>

Clear ==
    /\ at = "clear"
    /\ next' = NoNext
    /\ at' = "runtime"
    /\ UNCHANGED <<bundles, current, trial, runtime, rnext, result, claimed, armed, healthy,
                   undo, doomed, agent, history>>

\* A runtime is tried on its own only when nothing else is.
TakeRuntime ==
    /\ at = "runtime"
    /\ IF rnext # 0
       THEN /\ trial' = IF trial = NoTrial THEN Trial("runtime", rnext, runtime) ELSE trial
            /\ odd' = IF trial.kind = "agent" THEN odd \cup {"joint"} ELSE odd
            /\ at' = "rswap"
       ELSE /\ at' = "launch"
            /\ UNCHANGED <<trial, odd>>
    /\ UNCHANGED <<bundles, current, next, runtime, rnext, result, claimed, armed, healthy,
                   undo, doomed, agent, proven, sound, last, upsets>>

SwapRuntime ==
    /\ at = "rswap"
    /\ runtime' = rnext
    /\ at' = "rclear"
    /\ UNCHANGED <<bundles, current, next, trial, rnext, result, claimed, armed, healthy, undo,
                   doomed, agent, history>>

ClearRuntime ==
    /\ at = "rclear"
    /\ rnext' = 0
    /\ at' = "launch"
    /\ UNCHANGED <<bundles, current, next, trial, runtime, result, claimed, armed, healthy,
                   undo, doomed, agent, history>>

Highest(vs) == CHOOSE v \in vs : \A w \in vs : w <= v

\* runOnce: without its bundle, current.json gives way to the highest version.
Launch ==
    /\ at = "launch"
    /\ bundles # {}
    /\ current' = IF current \in bundles THEN current ELSE Highest(bundles)
    /\ version' = current'
    /\ node' = runtime
    /\ phase' = "boot"
    /\ reads' = Readings
    /\ sent' = FALSE
    /\ armed' = trial
    /\ healthy' = FALSE
    /\ at' = "watch"
    /\ UNCHANGED <<bundles, next, trial, runtime, rnext, result, claimed, undo, doomed,
                   staged, held, over, history>>

\* Mutant of HealthHeard: a process that runs is taken for healthy.
HealthHeardAtSpawn == phase = "boot"

\* The message "healthy" of the child.
HealthHeard == sent

Write(o) ==     \* reportResult
    /\ result' = o
    /\ last' = o

\* The outcome is written before the trial is forgotten.
Healthy ==
    /\ at = "watch"
    /\ HealthHeard
    /\ ~healthy
    /\ healthy' = TRUE
    /\ armed' = NoTrial
    /\ sent' = FALSE
    /\ IF trial # NoTrial
       THEN /\ Write([kind |-> trial.kind, status |-> "applied", version |-> trial.version,
                      other |-> trial.previous])
            /\ at' = "forget"
       ELSE UNCHANGED <<result, last, at>>
    /\ UNCHANGED <<bundles, current, next, trial, runtime, rnext, claimed, undo, doomed,
                   phase, version, node, staged, reads, held, over, proven, sound, odd, upsets>>

\* The timer takes back the trial it was armed with, then kills the child.
HealthTimeout ==
    /\ at = "watch"
    /\ phase # "none"
    /\ armed # NoTrial
    /\ undo' = armed
    /\ armed' = NoTrial
    /\ doomed' = TRUE
    /\ at' = "undo"
    /\ UNCHANGED <<home, healthy, agent, history>>

\* Mutant of Fallback: the highest of the other versions.
FallbackHighest(t) ==
    IF bundles \ {t.version} # {} THEN Highest(bundles \ {t.version}) ELSE 0

\* The version a trial gives way to; 0 when there is none.
Fallback(t) ==
    IF t.previous \in bundles THEN t.previous
    ELSE IF bundles \ {t.version} # {} THEN Highest(bundles \ {t.version}) ELSE 0

\* After a rollback the child is still there (the timer) or it is gone (the crashes).
Resume == at' = IF phase = "none" THEN "pending" ELSE "watch"

\* rollback: the switch back, the outcome, the end of the trial.
Undo ==
    /\ at = "undo"
    /\ IF undo.kind = "runtime"
       THEN /\ runtime' = undo.previous
            /\ at' = "report"
            /\ UNCHANGED <<current, trial>>
       ELSE IF Fallback(undo) # 0
       THEN /\ current' = Fallback(undo)
            /\ at' = "report"
            /\ UNCHANGED <<runtime, trial>>
       ELSE /\ trial' = NoTrial
            /\ Resume
            /\ UNCHANGED <<current, runtime>>
    /\ UNCHANGED <<bundles, next, rnext, result, claimed, armed, healthy, undo, doomed, agent,
                   history>>

Report ==
    /\ at = "report"
    /\ Write([kind |-> undo.kind, status |-> "rolled_back",
              version |-> IF undo.kind = "runtime" THEN undo.previous ELSE current,
              other |-> undo.version])
    /\ at' = "forget"
    /\ UNCHANGED <<bundles, current, next, trial, runtime, rnext, claimed, armed, healthy, undo,
                   doomed, agent, proven, sound, odd, upsets>>

Forget ==
    /\ at = "forget"
    /\ trial' = NoTrial
    /\ undo' = NoTrial
    /\ Resume
    /\ UNCHANGED <<bundles, current, next, runtime, rnext, result, claimed, armed, healthy,
                   doomed, agent, history>>

\* Mutant of TooMany: one crash more is forgiven.
TooManyLate(t) == t.crashes >= MaxTrialCrashes

TooMany(t) == t.crashes + 1 >= MaxTrialCrashes

\* Mutant of Crashed: the trial is written again as it was taken.
CrashedAnew(t) == [t EXCEPT !.crashes = 0]

Crashed(t) == [t EXCEPT !.crashes = @ + 1]

\* The exit of the child: code 75 is not a crash, nor is the end of a healthy one.
\* A "healthy" that is still in the pipe is lost, as if the exit were heard after all of it.
Exit ==
    /\ at = "watch"
    /\ phase \in {"exit75", "dead"}
    /\ phase' = "none"
    /\ armed' = NoTrial
    /\ doomed' = FALSE
    /\ sent' = FALSE
    /\ healthy' = FALSE
    /\ IF phase = "dead" /\ trial # NoTrial /\ ~healthy
       THEN IF TooMany(trial)
            THEN /\ undo' = trial
                 /\ at' = "undo"
                 /\ UNCHANGED trial
            ELSE /\ trial' = Crashed(trial)
                 /\ at' = "pending"
                 /\ UNCHANGED undo
       ELSE /\ at' = "pending"
            /\ UNCHANGED <<undo, trial>>
    /\ UNCHANGED <<bundles, current, next, runtime, rnext, result, claimed, version, node,
                   staged, reads, held, over, history>>

LauncherStep ==
    \/ Start \/ TakeNext \/ Swap \/ Clear \/ TakeRuntime \/ SwapRuntime \/ ClearRuntime \/ Launch
    \/ Healthy \/ HealthTimeout \/ Undo \/ Report \/ Forget \/ Exit

-----------------------------------------------------------------------------
(* The agent.                                                              *)

\* The session opens: notifyHealthy.
Connect ==
    /\ phase = "boot"
    /\ version \notin Broken /\ node \notin BrokenRuntimes
    /\ phase' = "up"
    /\ sent' = TRUE
    /\ proven' = proven \cup {version}
    /\ sound' = sound \cup {node}
    /\ UNCHANGED <<home, launcher, version, node, staged, reads, held, over, last, odd, upsets>>

\* claimUpdateResult, by one of the readings: a new outcome takes the place of a claim
\* that was left, and is emitted.
Claim ==
    /\ phase \in {"up", "leaving"}
    /\ reads > 0
    /\ reads' = reads - 1
    /\ claimed' = IF result # NoOutcome THEN result ELSE claimed
    /\ result' = NoOutcome
    /\ held' = IF claimed' # NoOutcome THEN held \cup {claimed'} ELSE held
    /\ odd' = IF claimed' # NoOutcome /\ (held # {} \/ over > 0) THEN odd \cup {"raced"} ELSE odd
    /\ UNCHANGED <<bundles, current, next, trial, runtime, rnext, launcher, phase, version,
                   node, sent, staged, over, proven, sound, last, upsets>>

\* The journal, with what was emitted, is written.
Persist ==
    /\ Alive
    /\ held # {}
    /\ last' = IF last \in held THEN NoOutcome ELSE last
    /\ over' = over + Cardinality(held)
    /\ held' = {}
    /\ UNCHANGED <<home, launcher, phase, version, node, sent, staged, reads, proven, sound,
                   odd, upsets>>

\* Mutant of Persisted: the claim is removed as soon as it is read.
PersistedOrNot == over > 0 \/ held # {}

\* emitDurable returned.
Persisted == over > 0

\* releaseUpdateResult
Release ==
    /\ Alive
    /\ Persisted
    /\ over' = IF over > 0 THEN over - 1 ELSE 0
    /\ claimed' = NoOutcome
    /\ UNCHANGED <<bundles, current, next, trial, runtime, rnext, result, launcher, phase,
                   version, node, sent, staged, reads, held, history>>

\* agent.update comes: from the panel of itself (autoUpdate) or from an administrator.
Push(v) ==
    /\ phase \in {"up", "leaving"}
    /\ staged = 0
    /\ v # version
    /\ staged' = v
    /\ UNCHANGED <<home, launcher, phase, version, node, sent, reads, held, over, history>>

\* Downloaded and verified.
Install ==
    /\ Alive
    /\ staged \in Versions \ bundles
    /\ bundles' = bundles \cup {staged}
    /\ UNCHANGED <<current, next, trial, runtime, rnext, result, claimed, launcher, agent,
                   history>>

\* The download fails, or a bundle that was there does not verify and is removed.
Refuse ==
    /\ Alive
    /\ staged # 0
    /\ staged' = 0
    /\ \/ /\ staged \notin bundles
          /\ UNCHANGED <<bundles, odd, upsets>>
       \/ /\ staged \in bundles
          /\ Upset("corrupt")
          /\ bundles' = bundles \ {staged}
          /\ odd' = IF staged \in {current, trial.previous} THEN odd \cup {"removed"} ELSE odd
    /\ UNCHANGED <<current, next, trial, runtime, rnext, result, claimed, launcher, phase,
                   version, node, sent, reads, held, over, proven, sound, last>>

\* next.json is written; the agent will leave.
Stage ==
    /\ Alive
    /\ staged \in bundles
    /\ next' = [version |-> staged, previous |-> version]
    /\ staged' = 0
    /\ phase' = "leaving"
    /\ UNCHANGED <<bundles, current, trial, runtime, rnext, result, claimed, launcher, version,
                   node, sent, reads, held, over, history>>

\* runtime.update, downloaded and extracted: it waits for the next restart.  The flag that
\* keeps it apart from agent.update is left out, so more may meet here than in the code.
StageRuntime(r) ==
    /\ phase \in {"up", "leaving"}
    /\ r # node
    /\ rnext' = r
    /\ UNCHANGED <<bundles, current, next, trial, runtime, result, claimed, launcher, agent,
                   history>>

Ended ==        \* what the process held in memory
    /\ staged' = 0
    /\ held' = {}
    /\ over' = 0
    /\ reads' = 0
    /\ UNCHANGED <<version, node>>

\* stop(), which writes the journal, then exit 75.
Leave ==
    /\ phase = "leaving"
    /\ phase' = "exit75"
    /\ last' = IF last \in held THEN NoOutcome ELSE last
    /\ Ended
    /\ UNCHANGED <<home, launcher, sent, proven, sound, odd, upsets>>

\* The agent crashes: a broken one before its session, any one in an upset.
Die ==
    /\ Alive
    /\ \/ /\ phase = "boot"
          /\ version \in Broken \/ node \in BrokenRuntimes
          /\ UNCHANGED upsets
       \/ Upset("crash")
    /\ phase' = "dead"
    /\ Ended
    /\ UNCHANGED <<home, launcher, sent, proven, sound, last, odd>>

\* SIGTERM, then SIGKILL, once the rollback is written.
Kill ==
    /\ at = "watch"
    /\ doomed
    /\ Alive
    /\ phase' = "dead"
    /\ Ended
    /\ UNCHANGED <<home, launcher, sent, history>>

AgentStep ==
    \/ Connect \/ Claim \/ Persist \/ Release \/ Install \/ Refuse \/ Stage \/ Leave \/ Die \/ Kill
    \/ \E v \in Versions : Push(v)
    \/ \E r \in Runtimes : StageRuntime(r)

\* The machine goes down, or the service manager ends the launcher with its child.
Blackout ==
    /\ Upset("blackout")
    /\ at' = "off"
    /\ phase' = "none"
    /\ armed' = NoTrial
    /\ doomed' = FALSE
    /\ sent' = FALSE
    /\ Ended
    /\ odd' = IF at \in {"report", "forget"} /\ ~healthy THEN odd \cup {"torn"} ELSE odd
    /\ healthy' = FALSE
    /\ undo' = NoTrial
    /\ UNCHANGED <<home, proven, sound, last>>

-----------------------------------------------------------------------------
Init ==
    /\ bundles = {First} /\ current = First
    /\ next = NoNext /\ trial = NoTrial
    /\ runtime = 0 /\ rnext = 0
    /\ result = NoOutcome /\ claimed = NoOutcome
    /\ at = "off" /\ armed = NoTrial /\ healthy = FALSE /\ undo = NoTrial /\ doomed = FALSE
    /\ phase = "none" /\ version = First /\ node = 0 /\ sent = FALSE /\ staged = 0
    /\ reads = 0 /\ held = {} /\ over = 0
    /\ proven = {First} /\ sound = {0}
    /\ last = NoOutcome /\ odd = {} /\ upsets = 0

Next == LauncherStep \/ AgentStep \/ Blackout

Spec == Init /\ [][Next]_vars

\* The launcher and its child are scheduled; a sound agent opens its session in the end (the
\* panel can be reached) and a broken one ends or is timed out.
Fairness ==
    /\ WF_vars(Start) /\ WF_vars(TakeNext) /\ WF_vars(Swap) /\ WF_vars(Clear)
    /\ WF_vars(TakeRuntime) /\ WF_vars(SwapRuntime) /\ WF_vars(ClearRuntime) /\ WF_vars(Launch)
    /\ WF_vars(Healthy) /\ WF_vars(HealthTimeout) /\ WF_vars(Undo) /\ WF_vars(Report)
    /\ WF_vars(Forget) /\ WF_vars(Exit) /\ WF_vars(Connect) /\ WF_vars(Leave)
    /\ WF_vars(Kill)

FairSpec == Spec /\ Fairness

-----------------------------------------------------------------------------
(* Properties.                                                             *)

Agents   == Versions \cup {0}
Nodes    == Runtimes \cup {0}
Trials   == [kind : {"none", "agent", "runtime"}, version : Agents \cup Nodes,
             previous : Agents \cup Nodes, crashes : 0..(MaxTrialCrashes - 1)]
Outcomes == [kind : {"none", "agent", "runtime"}, status : {"none", "applied", "rolled_back"},
             version : Agents \cup Nodes, other : Agents \cup Nodes]

HomeOK ==
    /\ bundles \subseteq Versions /\ current \in Versions
    /\ next \in [version : Agents, previous : Agents] /\ trial \in Trials
    /\ runtime \in Nodes /\ rnext \in Nodes
    /\ result \in Outcomes /\ claimed \in Outcomes

LauncherOK ==
    /\ at \in {"off", "pending", "swap", "clear", "runtime", "rswap", "rclear", "launch",
               "watch", "undo", "report", "forget"}
    /\ armed \in Trials /\ healthy \in BOOLEAN /\ undo \in Trials /\ doomed \in BOOLEAN

AgentOK ==
    /\ phase \in {"none", "boot", "up", "leaving", "exit75", "dead"}
    /\ version \in Versions /\ node \in Nodes /\ sent \in BOOLEAN /\ staged \in Agents
    /\ reads \in 0..Readings /\ held \subseteq Outcomes /\ over \in 0..Readings

HistoryOK ==
    /\ proven \subseteq Versions /\ sound \subseteq Nodes
    /\ last \in Outcomes
    /\ odd \subseteq {"joint", "torn", "raced", "removed"} /\ upsets \in 0..MaxUpsets

TypeOK == HomeOK /\ LauncherOK /\ AgentOK /\ HistoryOK

\* The version that the launcher runs when nothing is on trial once opened a session, as did
\* an agent under its runtime: a blackout, a crash or a late "healthy" between any two writes
\* never leaves the machine with what was not proven.  Set aside: a runtime that was swapped
\* along with an agent, and a bundle that the agent removed from under the launcher.
SettledIsProven ==
    trial = NoTrial =>
        /\ "removed" \notin odd => current \in proven
        /\ "joint" \notin odd => runtime \in sound

\* An outcome, applied or rolled back, names a version that opened a session.  Set aside:
\* a blackout between the switch back and the end of the trial, and the cases above.
OutcomeIsTrue ==
    \A o \in {result, claimed} \ {NoOutcome} :
        IF o.kind = "agent"
        THEN odd \cap {"removed", "torn"} = {} => o.version \in proven
        ELSE odd \cap {"joint", "torn"} = {} => o.version \in sound

\* The last outcome is never lost before the agent has it in its journal, whichever process
\* dies, and wherever.  Set aside: a reading that begins before the former one is over.
LastOutcomeKept ==
    "raced" \notin odd => last \in {NoOutcome, result, claimed}

\* Whatever is pushed, an agent opens a session again and again (docs/05-protocole.md:321,
\* the automatic rollback).  Set aside: a runtime swapped along with an agent, a bundle
\* removed from under the launcher.
Returns == []<>(phase = "up" \/ odd \cap {"joint", "removed"} # {})
=============================================================================

----------------------------- MODULE UpdatesProofs -----------------------------
(***************************************************************************)
(* What holds of Updates for every set of releases and runtimes, every     *)
(* choice of those that are broken, and every number of upsets and of      *)
(* readings.                                                               *)
(***************************************************************************)
EXTENDS Updates, FiniteSetTheorems, WellFoundedInduction, TLAPS

-----------------------------------------------------------------------------
(* The invariants.                                                         *)

\* The launcher's steps before there is a child.
Unlaunched == {"off", "pending", "swap", "clear", "runtime", "rswap", "rclear", "launch"}

\* Where the launcher stands tells whether there is a child; what a process holds in memory
\* goes with it.
Control ==
    /\ at \in Unlaunched => phase = "none"
    /\ at = "watch" => phase # "none"
    /\ phase = "none" => ~sent
    /\ ~Alive => held = {} /\ over = 0 /\ staged = 0

\* What is finite, and the readings of a session that are still to come or to be finished.
Counted ==
    /\ IsFiniteSet(bundles) /\ IsFiniteSet(held)
    /\ reads \in Nat /\ over \in Nat
    /\ reads + Cardinality(held) + over <= Readings

\* What is switched to is a version, or a runtime where a runtime is on trial.
Switchable ==
    /\ at = "swap" => next.version # 0
    /\ \A t \in {trial, armed, undo} : t.kind = "runtime" => t.previous \in Nodes

Typed == TypeOK /\ Switchable

\* The running version keeps its bundle, and opened a session before it pushed or staged
\* anything; what is staged names it.
Staging ==
    /\ phase # "none" => version \in bundles
    /\ phase \in {"up", "leaving"} \/ sent => version \in proven /\ node \in sound
    /\ staged # 0 => phase \in {"up", "leaving"} /\ staged # version
    /\ next # NoNext => /\ next.version \in Versions
                        /\ next.previous \in bundles \cap proven
                        /\ phase # "none" => next.previous = version
    /\ at = "swap" => next.version \in bundles
    /\ at = "clear" => next # NoNext
    /\ at \in {"runtime", "rswap", "rclear", "launch"} => next = NoNext

\* The trial that the timer or a rollback works on is the one on disk.
Trying ==
    /\ trial.kind = "none" <=> trial = NoTrial
    /\ armed # NoTrial => at = "watch" /\ armed = trial /\ ~healthy
    /\ at \in {"undo", "report"} => undo = trial /\ ~healthy
    /\ at \in {"undo", "report", "forget", "rswap"} => trial # NoTrial
    /\ at \in {"swap", "clear"} => trial.kind = "agent" /\ trial.version = next.version
    /\ trial # NoTrial /\ phase # "none" /\ (at \in {"watch", "undo"} \/ (at = "forget"
           /\ healthy))
           => version = current /\ node = runtime
    /\ at \in {"rswap", "rclear"} => trial.kind = "runtime" \/ "joint" \in odd

\* What the agent's part of a trial relies on.
AgentKept ==
    /\ trial.kind = "agent" =>
           trial.previous \in proven /\ ("removed" \notin odd => trial.previous \in bundles)
    /\ "removed" \notin odd =>
           /\ current \in bundles
           /\ \/ current \in proven
              \/ trial.kind = "agent" /\ current = trial.version /\ at \notin {"report", "forget"}
           /\ next # NoNext => current \in proven \cup {next.version}

\* The same for the runtime.
RuntimeKept ==
    "joint" \notin odd =>
        /\ trial.kind = "runtime" => trial.previous \in sound
        /\ \/ runtime \in sound
           \/ trial.kind = "runtime" /\ at \notin {"report", "forget"}
        /\ next # NoNext => runtime \in sound

\* A rollback has begun to put the former version back.
BackAgain == at \in {"report", "forget"} /\ ~healthy

\* The version on trial is the one that runs, or is about to.
AgentTried ==
    trial.kind = "agent" /\ odd \cap {"removed", "torn"} = {} =>
        \/ current = trial.version
        \/ at \in {"off", "pending", "swap"} /\ next.version = trial.version
               /\ next.version \in bundles
        \/ BackAgain

\* So is the runtime on trial, unless another one was staged once it had proved sound.
RuntimeTried ==
    /\ at = "rswap" => rnext # 0
    /\ trial.kind = "runtime" /\ odd \cap {"joint", "torn"} = {} =>
           \/ trial.version \in sound
           \/ BackAgain
           \/ runtime = trial.version /\ rnext \in {0, trial.version} /\ at # "forget"
           \/ /\ rnext = trial.version /\ rnext # 0
              /\ at \in {"off", "pending", "runtime", "rswap"}

\* An outcome is on its way from result to claimed to the journal, one at a time.
OutcomeMoves ==
    /\ result # NoOutcome => last \in {NoOutcome, result}
    /\ "raced" \notin odd =>
           /\ last \in {NoOutcome, result, claimed}
           /\ held # {} => claimed # NoOutcome /\ held = {claimed} /\ over = 0
           /\ over > 0 => last \in {NoOutcome, result}

-----------------------------------------------------------------------------
(* The highest of a finite set of versions.                                *)

\* Every nonempty finite set of versions has a highest one: a smallest set without one would
\* have one without any of its members.
LEMMA HighestIn ==
    ASSUME NEW S \in SUBSET Nat, IsFiniteSet(S), S # {}
    PROVE  Highest(S) \in S
<1> DEFINE Max(T) == \E v \in T : \A w \in T : w <= v
           Bad == {T \in FiniteSubsetsOf(S) : T # {} /\ ~Max(T)}
<1>1. ASSUME Bad # {} PROVE FALSE
  <2>1. IsWellFoundedOn(StrictSubsetOrdering(S), FiniteSubsetsOf(S))
    BY FS_StrictSubsetOrderingWellFounded
  <2>2. PICK T \in Bad : \A U \in Bad : <<U, T>> \notin StrictSubsetOrdering(S)
    BY <1>1, <2>1, WFMin
  <2>3. PICK x \in T : TRUE
    OBVIOUS
  <2>4. T \in SUBSET S /\ IsFiniteSet(T) /\ ~Max(T)
    BY DEF FiniteSubsetsOf
  <2> DEFINE U == T \ {x}
  <2>5. U \in SUBSET S /\ IsFiniteSet(U) /\ U # T
    BY <2>3, <2>4, FS_RemoveElement
  <2>6. U \notin Bad
    BY <2>2, <2>4, <2>5 DEF StrictSubsetOrdering
  <2>7. U # {}
    BY <2>3, <2>4
  <2>8. PICK v \in U : \A w \in U : w <= v
    BY <2>5, <2>6, <2>7 DEF FiniteSubsetsOf
  <2>9. Max(T)
    <3>1. v \in Nat /\ x \in Nat /\ v \in T
      BY <2>3, <2>4
    <3>2. CASE x <= v
      BY <2>8, <3>1, <3>2
    <3>3. CASE v <= x
      <4>1. \A w \in T : w <= x
        BY <2>4, <2>8, <3>1, <3>3
      <4> QED
        BY <4>1
    <3> QED
      BY <3>1, <3>2, <3>3
  <2> QED
    BY <2>4, <2>9
<1>2. Max(S)
  BY <1>1 DEF FiniteSubsetsOf
<1> QED
  BY <1>2 DEF Highest

\* The version that a trial gives way to has a bundle, when there is one.
LEMMA FallbackIn ==
    ASSUME NEW t, bundles \subseteq Versions, IsFiniteSet(bundles), Fallback(t) # 0
    PROVE  Fallback(t) \in bundles
<1>1. CASE t.previous \in bundles
  BY <1>1 DEF Fallback
<1>2. CASE t.previous \notin bundles
  <2>1. /\ bundles \ {t.version} # {} /\ Fallback(t) = Highest(bundles \ {t.version})
    BY <1>2 DEF Fallback
  <2>2. bundles \ {t.version} \in SUBSET Nat /\ IsFiniteSet(bundles \ {t.version})
    BY VersionsAssumption, FS_RemoveElement
  <2> QED
    BY <2>1, <2>2, HighestIn
<1> QED
  BY <1>1, <1>2

\* Where the launcher stands tells whether it has a child.
THEOREM ControlHolds == Spec => []Control
<1>1. Init => Control
  BY DEF Init, Control, Unlaunched, Alive
<1>2. Control /\ [Next]_vars => Control'
  <2> SUFFICES ASSUME Control, [Next]_vars
               PROVE  Control'
    OBVIOUS
  <2>1. CASE Start
    BY <2>1 DEF Start, home, agent, Control, Unlaunched, Alive
  <2>2. CASE TakeNext
    BY <2>2 DEF TakeNext, Trial, agent, NoNext, Control, Unlaunched, Alive
  <2>3. CASE Swap
    BY <2>3 DEF Swap, agent, Control, Unlaunched, Alive
  <2>4. CASE Clear
    BY <2>4 DEF Clear, NoNext, agent, Control, Unlaunched, Alive
  <2>5. CASE TakeRuntime
    BY <2>5 DEF TakeRuntime, NoTrial, Trial, agent, Control, Unlaunched, Alive
  <2>6. CASE SwapRuntime
    BY <2>6 DEF SwapRuntime, agent, Control, Unlaunched, Alive
  <2>7. CASE ClearRuntime
    BY <2>7 DEF ClearRuntime, agent, Control, Unlaunched, Alive
  <2>8. CASE Launch
    BY <2>8 DEF Launch, Control, Unlaunched, Alive
  <2>9. CASE Healthy
    BY <2>9 DEF Healthy, HealthHeard, NoTrial, Control, Unlaunched, Alive
  <2>10. CASE HealthTimeout
    BY <2>10 DEF HealthTimeout, NoTrial, home, agent, Control, Unlaunched, Alive
  <2>11. CASE Undo
    BY <2>11 DEF Undo, NoTrial, Resume, agent, Control, Unlaunched, Alive
  <2>12. CASE Report
    BY <2>12 DEF Report, agent, Control, Unlaunched, Alive
  <2>13. CASE Forget
    BY <2>13 DEF Forget, NoTrial, Resume, agent, Control, Unlaunched, Alive
  <2>14. CASE Exit
    BY <2>14 DEF Exit, NoTrial, TooMany, Crashed, MaxTrialCrashes, Control, Unlaunched,
       Alive
  <2>15. CASE Connect
    BY <2>15 DEF Connect, home, launcher, Control, Unlaunched, Alive
  <2>16. CASE Claim
    BY <2>16 DEF Claim, NoOutcome, launcher, Control, Unlaunched, Alive
  <2>17. CASE Persist
    BY <2>17 DEF Persist, Alive, NoOutcome, home, launcher, Control, Unlaunched
  <2>18. CASE Release
    BY <2>18 DEF Release, Alive, Persisted, NoOutcome, launcher, Control, Unlaunched
  <2>19. CASE Refuse
    BY <2>19 DEF Refuse, Alive, launcher, Control, Unlaunched
  <2>20. CASE Stage
    BY <2>20 DEF Stage, Alive, launcher, Control, Unlaunched
  <2>21. CASE Leave
    BY <2>21 DEF Leave, NoOutcome, Ended, home, launcher, Control, Unlaunched, Alive
  <2>22. CASE Die
    BY <2>22 DEF Die, Alive, Ended, home, launcher, Control, Unlaunched
  <2>23. CASE Kill
    BY <2>23 DEF Kill, Alive, Ended, home, launcher, Control, Unlaunched
  <2>24. ASSUME NEW v \in Versions, Push(v) PROVE Control'
    BY <2>24 DEF Push, home, launcher, Control, Unlaunched, Alive
  <2>25. CASE Blackout
    BY <2>25 DEF Blackout, NoTrial, Ended, home, Control, Unlaunched, Alive
  <2>26. CASE Install \/ (\E r \in Runtimes : StageRuntime(r))
    BY <2>26 DEF Install, launcher, agent, StageRuntime, Control, Unlaunched, Alive
  <2>27. CASE UNCHANGED vars
    BY <2>27 DEF vars, home, launcher, agent, Control, Unlaunched, Alive
  <2> QED
    BY <2>1, <2>2, <2>3, <2>4, <2>5, <2>6, <2>7, <2>8, <2>9, <2>10, <2>11, <2>12, <2>13,
       <2>14, <2>15, <2>16, <2>17, <2>18, <2>19, <2>20, <2>21, <2>22, <2>23, <2>24, <2>25,
       <2>26, <2>27 DEF Next, LauncherStep, AgentStep
<1> QED
  BY <1>1, <1>2, PTL DEF Spec

\* The bundles are finitely many, and no session reads the outcome more often than it may.
THEOREM CountedHolds == Spec => []Counted
<1>1. Init => Counted
  <2>1. IsFiniteSet({First}) /\ IsFiniteSet({}) /\ Cardinality({}) = 0
    BY FS_EmptySet, FS_Singleton
  <2> QED
    BY <2>1, BoundsAssumption DEF Init, Counted
<1>2. Control /\ Counted /\ [Next]_vars => Counted'
  <2> SUFFICES ASSUME Control, Counted, [Next]_vars
               PROVE  Counted'
    OBVIOUS
  <2>1. CASE Launch
    <3>1. held = {} /\ over = 0
      BY <2>1 DEF Launch, Control, Alive, Unlaunched
    <3> QED
      BY <2>1, <3>1, FS_EmptySet, BoundsAssumption DEF Launch, Counted
  <2>2. CASE Claim
    <3>1. PICK c : held' \in {held, held \cup {c}}
      BY <2>2 DEF Claim
    <3>2. Cardinality(held) \in Nat
      BY FS_CardinalityType DEF Counted
    <3>3. IsFiniteSet(held') /\ Cardinality(held') \in {Cardinality(held), Cardinality(held) + 1}
      <4>1. CASE held' = held
        BY <4>1 DEF Counted
      <4>2. CASE held' = held \cup {c}
        BY <4>2, FS_AddElement DEF Counted
      <4> QED
        BY <3>1, <4>1, <4>2
    <3> QED
      BY <2>2, <3>2, <3>3, BoundsAssumption DEF Claim, Counted
  <2>3. CASE Persist
    <3>1. Cardinality(held) \in Nat
      BY FS_CardinalityType DEF Counted
    <3> QED
      BY <2>3, <3>1, FS_EmptySet, BoundsAssumption DEF Persist, Counted, home
  <2>4. CASE Release
    <3>1. Cardinality(held) \in Nat
      BY FS_CardinalityType DEF Counted
    <3> QED
      BY <2>4, <3>1, BoundsAssumption DEF Release, Persisted, Counted
  <2>5. CASE Install
    <3>1. IsFiniteSet(bundles')
      BY <2>5, FS_AddElement DEF Install, Counted
    <3> QED
      BY <2>5, <3>1 DEF Install, Counted, agent
  <2>6. CASE Refuse
    <3>1. IsFiniteSet(bundles')
      BY <2>6, FS_RemoveElement DEF Refuse, Counted
    <3> QED
      BY <2>6, <3>1 DEF Refuse, Counted
  <2>7. CASE Leave
    <3>1. IsFiniteSet(bundles) /\ Cardinality({}) = 0 /\ IsFiniteSet({})
      BY FS_EmptySet DEF Counted
    <3> QED
      BY <2>7, <3>1, BoundsAssumption DEF Leave, Ended, Counted, home
  <2>8. CASE Die
    <3>1. IsFiniteSet(bundles) /\ Cardinality({}) = 0 /\ IsFiniteSet({})
      BY FS_EmptySet DEF Counted
    <3> QED
      BY <2>8, <3>1, BoundsAssumption DEF Die, Ended, Counted, home
  <2>9. CASE Kill
    <3>1. IsFiniteSet(bundles) /\ Cardinality({}) = 0 /\ IsFiniteSet({})
      BY FS_EmptySet DEF Counted
    <3> QED
      BY <2>9, <3>1, BoundsAssumption DEF Kill, Ended, Counted, home
  <2>10. CASE Blackout
    <3>1. IsFiniteSet(bundles) /\ Cardinality({}) = 0 /\ IsFiniteSet({})
      BY FS_EmptySet DEF Counted
    <3> QED
      BY <2>10, <3>1, BoundsAssumption DEF Blackout, Ended, Counted, home
  <2>11. CASE Start \/ TakeNext \/ Swap \/ Clear \/ TakeRuntime \/ SwapRuntime \/
         ClearRuntime \/ Healthy \/ HealthTimeout \/ Undo \/ Report \/ Forget \/ Exit \/
         Connect \/ Stage \/ (\E v \in Versions : Push(v)) \/ (\E r \in Runtimes :
         StageRuntime(r))
    BY <2>11 DEF Start, home, agent, TakeNext, Swap, Clear, TakeRuntime, SwapRuntime,
       ClearRuntime, Healthy, HealthTimeout, Undo, Report, Forget, Exit, Connect, Stage,
       Push, StageRuntime, Counted
  <2>12. CASE UNCHANGED vars
    BY <2>12 DEF vars, home, agent, Counted
  <2> QED
    BY <2>1, <2>2, <2>3, <2>4, <2>5, <2>6, <2>7, <2>8, <2>9, <2>10, <2>11, <2>12 DEF
       Next, LauncherStep, AgentStep
<1> QED
  BY <1>1, <1>2, ControlHolds, PTL DEF Spec

-----------------------------------------------------------------------------
(* Types.                                                                  *)

\* What stands for "none" has a type, and so has what is named.
LEMMA Nulls ==
    /\ NoNext \in [version : Agents, previous : Agents]
    /\ NoTrial \in Trials /\ NoOutcome \in Outcomes
    /\ 0 \in Agents /\ Versions \subseteq Agents
    /\ 0 \in Nodes /\ Runtimes \subseteq Nodes
    /\ 0 \notin Versions /\ 0 \notin Runtimes
    /\ Agents \subseteq Nat /\ Nodes \subseteq Nat
    /\ MaxTrialCrashes = 2
BY VersionsAssumption, RuntimesAssumption, BoundsAssumption
   DEF NoNext, NoTrial, NoOutcome, Agents, Nodes, Trials, Outcomes, MaxTrialCrashes

\* A new trial has the type of a trial.
LEMMA TrialTyped ==
    ASSUME NEW kind \in {"agent", "runtime"},
           NEW v \in Agents \cup Nodes, NEW previous \in Agents \cup Nodes
    PROVE  Trial(kind, v, previous) \in Trials
BY DEF Trial, Trials, MaxTrialCrashes

\* A group of variables that a step leaves alone keeps its types.
LEMMA GroupsKeepTypes ==
    ASSUME TypeOK
    PROVE  /\ UNCHANGED home => HomeOK'
           /\ UNCHANGED launcher => LauncherOK'
           /\ UNCHANGED agent => AgentOK'
           /\ UNCHANGED history => HistoryOK'
<1>1. UNCHANGED home => HomeOK'
  BY DEF TypeOK, HomeOK, home
<1>2. UNCHANGED launcher => LauncherOK'
  BY DEF TypeOK, LauncherOK, launcher
<1>3. UNCHANGED agent => AgentOK'
  BY DEF TypeOK, AgentOK, agent
<1>4. UNCHANGED history => HistoryOK'
  BY DEF TypeOK, HistoryOK, history
<1> QED
  BY <1>1, <1>2, <1>3, <1>4

\* Every variable of the launcher, of its files and of the agent keeps its type; the switches
\* only ever name versions and runtimes.
THEOREM TypedHolds == Spec => []Typed
<1>1. Init => Typed
  <2> SUFFICES ASSUME Init PROVE Typed
    OBVIOUS
  <2>1. HomeOK
    BY Nulls, VersionsAssumption DEF Init, HomeOK
  <2>2. LauncherOK
    BY Nulls DEF Init, LauncherOK
  <2>3. HistoryOK
    <3>1. First \in Versions /\ 0 \in 0..MaxUpsets
      BY VersionsAssumption, BoundsAssumption
    <3> QED
      BY <3>1, Nulls DEF Init, HistoryOK
  <2>4. AgentOK
    <3>1. First \in Versions /\ 0 \in 0..Readings
      BY VersionsAssumption, BoundsAssumption
    <3> QED
      BY <3>1, Nulls DEF Init, AgentOK
  <2> QED
    BY <2>1, <2>2, <2>3, <2>4 DEF Init, Typed, TypeOK, Switchable, NoTrial
<1>2. Control /\ Counted /\ Typed /\ [Next]_vars => Typed'
  <2> SUFFICES ASSUME Control, Counted, Typed, [Next]_vars
               PROVE  Typed'
    OBVIOUS
  <2>0. TypeOK /\ Switchable /\ HomeOK /\ LauncherOK /\ AgentOK /\ HistoryOK
    BY DEF Typed, TypeOK
  <2>1. CASE Start
    <3>1. LauncherOK'
      BY <2>1, <2>0, Nulls DEF Start, home, agent, LauncherOK
    <3>2. Switchable'
      BY <2>1, <2>0 DEF Start, home, agent, Switchable
    <3> QED
      BY <2>1, <3>1, <3>2, <2>0, GroupsKeepTypes DEF Typed, TypeOK, Start
  <2>2. CASE TakeNext
    <3>1. HomeOK'
      <4>1. CASE next.version \in bundles
        <5>1. next.version \in Agents /\ next.previous \in Agents /\ current \in Agents
          BY <2>0, Nulls DEF HomeOK
        <5>2. trial' \in Trials
          BY <2>2, <4>1, <5>1, TrialTyped DEF TakeNext
        <5> QED
          BY <2>2, <2>0, <4>1, <5>2 DEF TakeNext, HomeOK
      <4>2. CASE next.version \notin bundles
        BY <2>2, <2>0, <4>2, Nulls DEF TakeNext, HomeOK
      <4> QED
        BY <4>1, <4>2
    <3>2. LauncherOK'
      BY <2>2, <2>0, Nulls, TrialTyped DEF TakeNext, agent, LauncherOK
    <3>3. Switchable'
      <4>1. CASE next.version \in bundles
        <5>1. next.version # 0 /\ trial'.kind = "agent"
          BY <2>2, <2>0, <4>1, Nulls DEF TakeNext, Trial, HomeOK
        <5> QED
          BY <2>2, <2>0, <4>1, <5>1 DEF TakeNext, Switchable
      <4>2. CASE next.version \notin bundles
        BY <2>2, <2>0, <4>2 DEF TakeNext, Switchable
      <4> QED
        BY <4>1, <4>2
    <3> QED
      BY <2>2, <3>1, <3>2, <3>3, <2>0, GroupsKeepTypes DEF Typed, TypeOK, TakeNext
  <2>3. CASE Swap
    <3>1. HomeOK'
      <4>1. next.version \in Versions
        BY <2>3, <2>0 DEF Swap, Switchable, HomeOK, Agents
      <4> QED
        BY <2>3, <2>0, <4>1 DEF Swap, HomeOK
    <3>2. LauncherOK'
      BY <2>3, <2>0, Nulls DEF Swap, agent, LauncherOK
    <3>3. Switchable'
      BY <2>3, <2>0 DEF Swap, agent, Switchable
    <3> QED
      BY <2>3, <3>1, <3>2, <3>3, <2>0, GroupsKeepTypes DEF Typed, TypeOK, Swap
  <2>4. CASE Clear
    <3>1. HomeOK'
      BY <2>4, <2>0, Nulls DEF Clear, agent, HomeOK
    <3>2. LauncherOK'
      BY <2>4, <2>0, Nulls DEF Clear, agent, LauncherOK
    <3>3. Switchable'
      BY <2>4, <2>0 DEF Clear, NoNext, agent, Switchable
    <3> QED
      BY <2>4, <3>1, <3>2, <3>3, <2>0, GroupsKeepTypes DEF Typed, TypeOK, Clear
  <2>5. CASE TakeRuntime
    <3>1. HomeOK'
      BY <2>5, <2>0, Nulls, TrialTyped DEF TakeRuntime, agent, HomeOK
    <3>2. LauncherOK'
      BY <2>5, <2>0, Nulls, TrialTyped DEF TakeRuntime, agent, LauncherOK
    <3>3. HistoryOK'
      BY <2>5, <2>0, Nulls, TrialTyped DEF TakeRuntime, agent, HistoryOK
    <3>4. Switchable'
      <4>1. CASE trial' = trial
        BY <2>5, <2>0, <4>1 DEF TakeRuntime, Switchable
      <4>2. CASE trial' = Trial("runtime", rnext, runtime)
        <5>1. trial'.previous \in Nodes
          BY <2>0, <4>2 DEF Trial, HomeOK
        <5> QED
          BY <2>5, <2>0, <5>1 DEF TakeRuntime, Switchable
      <4> QED
        BY <2>5, <4>1, <4>2 DEF TakeRuntime
    <3> QED
      BY <2>5, <3>1, <3>2, <3>3, <3>4, <2>0, GroupsKeepTypes DEF Typed, TypeOK, TakeRuntime
  <2>6. CASE SwapRuntime
    <3>1. HomeOK'
      BY <2>6, <2>0, Nulls DEF SwapRuntime, agent, HomeOK
    <3>2. LauncherOK'
      BY <2>6, <2>0, Nulls DEF SwapRuntime, agent, LauncherOK
    <3>3. Switchable'
      BY <2>6, <2>0 DEF SwapRuntime, agent, Switchable
    <3> QED
      BY <2>6, <3>1, <3>2, <3>3, <2>0, GroupsKeepTypes DEF Typed, TypeOK, SwapRuntime
  <2>7. CASE ClearRuntime
    <3>1. HomeOK'
      BY <2>7, <2>0, Nulls DEF ClearRuntime, agent, HomeOK
    <3>2. LauncherOK'
      BY <2>7, <2>0, Nulls DEF ClearRuntime, agent, LauncherOK
    <3>3. Switchable'
      BY <2>7, <2>0 DEF ClearRuntime, agent, Switchable
    <3> QED
      BY <2>7, <3>1, <3>2, <3>3, <2>0, GroupsKeepTypes DEF Typed, TypeOK, ClearRuntime
  <2>8. CASE Launch
    <3>1. HomeOK'
      <4>1. current' \in Versions
        <5>1. bundles \in SUBSET Nat /\ IsFiniteSet(bundles) /\ bundles # {}
          BY <2>8, <2>0, VersionsAssumption DEF Launch, HomeOK, Counted
        <5>2. Highest(bundles) \in bundles
          BY <5>1, HighestIn
        <5> QED
          BY <2>8, <2>0, <5>2 DEF Launch, HomeOK
      <4> QED
        BY <2>8, <2>0, <4>1 DEF Launch, HomeOK
    <3>2. LauncherOK'
      BY <2>8, <2>0 DEF Launch, HomeOK, LauncherOK
    <3>3. AgentOK'
      <4>1. version' \in Versions /\ node' \in Nodes
        BY <2>8, <2>0, <3>1 DEF Launch, HomeOK
      <4>2. reads' \in 0..Readings
        BY <2>8, BoundsAssumption DEF Launch
      <4> QED
        BY <2>8, <2>0, <4>1, <4>2 DEF Launch, AgentOK
    <3>4. Switchable'
      BY <2>8, <2>0 DEF Launch, Switchable
    <3> QED
      BY <2>8, <3>1, <3>2, <3>3, <3>4, <2>0, GroupsKeepTypes DEF Typed, TypeOK, Launch
  <2>9. CASE Healthy
    <3>1. HomeOK'
      <4>1. trial \in Trials
        BY <2>0 DEF HomeOK
      <4>2. result' \in Outcomes
        BY <2>9, <2>0, <4>1 DEF Healthy, Write, HomeOK, Trials, Outcomes
      <4> QED
        BY <2>9, <2>0, <4>2 DEF Healthy, HomeOK
    <3>2. LauncherOK'
      BY <2>9, <2>0, Nulls DEF Healthy, LauncherOK
    <3>3. AgentOK'
      BY <2>9, <2>0, Nulls DEF Healthy, AgentOK
    <3>4. HistoryOK'
      <4>1. last' \in {last, result'}
        BY <2>9 DEF Healthy, Write
      <4> QED
        BY <2>9, <2>0, <3>1, <4>1 DEF Healthy, HomeOK, HistoryOK
    <3>5. Switchable'
      BY <2>9, <2>0 DEF Healthy, HealthHeard, NoTrial, Switchable
    <3> QED
      BY <2>9, <3>1, <3>2, <3>3, <3>4, <3>5, <2>0 DEF Typed, TypeOK, Healthy
  <2>10. CASE HealthTimeout
    <3>1. LauncherOK'
      BY <2>10, <2>0, Nulls DEF HealthTimeout, home, agent, LauncherOK
    <3>2. Switchable'
      BY <2>10, <2>0 DEF HealthTimeout, NoTrial, home, agent, Switchable
    <3> QED
      BY <2>10, <3>1, <3>2, <2>0, GroupsKeepTypes DEF Typed, TypeOK, HealthTimeout
  <2>11. CASE Undo
    <3>1. HomeOK'
      <4>1. CASE undo.kind = "runtime"
        BY <2>11, <2>0, <4>1 DEF Undo, HomeOK, Switchable
      <4>2. CASE undo.kind # "runtime" /\ Fallback(undo) # 0
        <5>1. Fallback(undo) \in Versions
          BY <2>0, <4>2, FallbackIn DEF HomeOK, Counted
        <5> QED
          BY <2>11, <2>0, <4>2, <5>1 DEF Undo, HomeOK
      <4>3. CASE undo.kind # "runtime" /\ Fallback(undo) = 0
        BY <2>11, <2>0, <4>3, Nulls DEF Undo, HomeOK
      <4> QED
        BY <4>1, <4>2, <4>3
    <3>2. LauncherOK'
      BY <2>11, <2>0, Nulls DEF Undo, Resume, agent, LauncherOK
    <3>3. Switchable'
      BY <2>11, <2>0 DEF Undo, NoTrial, Resume, agent, Switchable
    <3> QED
      BY <2>11, <3>1, <3>2, <3>3, <2>0, GroupsKeepTypes DEF Typed, TypeOK, Undo
  <2>12. CASE Report
    <3>1. HomeOK'
      <4>1. undo \in Trials /\ current \in Agents
        BY <2>0, Nulls DEF HomeOK, LauncherOK
      <4>2. result' \in Outcomes
        BY <2>12, <4>1 DEF Report, Write, Trials, Outcomes
      <4> QED
        BY <2>12, <2>0, <4>2 DEF Report, HomeOK
    <3>2. LauncherOK'
      BY <2>12, <2>0, Nulls DEF Report, agent, LauncherOK
    <3>3. HistoryOK'
      <4>1. last' = result'
        BY <2>12 DEF Report, Write
      <4> QED
        BY <2>12, <2>0, <3>1, <4>1 DEF Report, HomeOK, HistoryOK
    <3>4. Switchable'
      BY <2>12, <2>0 DEF Report, agent, Switchable
    <3> QED
      BY <2>12, <3>1, <3>2, <3>3, <3>4, <2>0, GroupsKeepTypes DEF Typed, TypeOK, Report
  <2>13. CASE Forget
    <3>1. HomeOK'
      BY <2>13, <2>0, Nulls DEF Forget, agent, HomeOK
    <3>2. LauncherOK'
      BY <2>13, <2>0, Nulls DEF Forget, Resume, agent, LauncherOK
    <3>3. Switchable'
      BY <2>13, <2>0 DEF Forget, NoTrial, Resume, agent, Switchable
    <3> QED
      BY <2>13, <3>1, <3>2, <3>3, <2>0, GroupsKeepTypes DEF Typed, TypeOK, Forget
  <2>14. CASE Exit
    <3>1. HomeOK'
      <4>1. CASE trial' = trial
        BY <2>14, <2>0, <4>1 DEF Exit, HomeOK
      <4>2. CASE ~TooMany(trial) /\ trial' = Crashed(trial)
        <5>1. Crashed(trial) \in Trials
          BY <2>0, <4>2 DEF HomeOK, Trials, TooMany, Crashed, MaxTrialCrashes
        <5> QED
          BY <2>14, <2>0, <4>2, <5>1 DEF Exit, HomeOK
      <4> QED
        BY <2>14, <4>1, <4>2 DEF Exit
    <3>2. LauncherOK'
      BY <2>14, <2>0, Nulls DEF Exit, HomeOK, LauncherOK
    <3>3. AgentOK'
      BY <2>14, <2>0, Nulls DEF Exit, TooMany, Crashed, AgentOK
    <3>4. Switchable'
      <4>1. trial'.kind = trial.kind /\ trial'.previous = trial.previous
        BY <2>14, <2>0 DEF Exit, Crashed, HomeOK, Trials
      <4>2. armed' = NoTrial /\ undo' \in {undo, trial} /\ at' # "swap"
        BY <2>14 DEF Exit
      <4> QED
        BY <2>0, <4>1, <4>2 DEF Switchable, NoTrial
    <3> QED
      BY <2>14, <3>1, <3>2, <3>3, <3>4, <2>0, GroupsKeepTypes DEF Typed, TypeOK, Exit
  <2>15. CASE Connect
    <3>1. AgentOK'
      BY <2>15, <2>0, Nulls DEF Connect, home, AgentOK
    <3>2. HistoryOK'
      BY <2>15, <2>0 DEF Connect, AgentOK, HistoryOK
    <3>3. Switchable'
      BY <2>15, <2>0 DEF Connect, home, launcher, Switchable
    <3> QED
      BY <2>15, <3>1, <3>2, <3>3, <2>0, GroupsKeepTypes DEF Typed, TypeOK, Connect
  <2>16. CASE Claim
    <3>1. HomeOK'
      BY <2>16, <2>0, Nulls DEF Claim, HomeOK
    <3>2. AgentOK'
      <4>1. reads' \in 0..Readings
        BY <2>16, <2>0, BoundsAssumption DEF Claim, AgentOK
      <4> QED
        BY <2>16, <2>0, <3>1, <4>1 DEF Claim, HomeOK, AgentOK
    <3>3. HistoryOK'
      BY <2>16, <2>0, Nulls DEF Claim, HistoryOK
    <3>4. Switchable'
      BY <2>16, <2>0 DEF Claim, NoOutcome, launcher, Switchable
    <3> QED
      BY <2>16, <3>1, <3>2, <3>3, <3>4, <2>0, GroupsKeepTypes DEF Typed, TypeOK, Claim
  <2>17. CASE Persist
    <3>1. AgentOK'
      <4>1. over' \in 0..Readings
        <5>1. Cardinality(held) \in Nat
          BY FS_CardinalityType DEF Counted
        <5> QED
          BY <2>17, <5>1, BoundsAssumption DEF Persist, Counted
      <4> QED
        BY <2>17, <2>0, <4>1 DEF Persist, AgentOK
    <3>2. HistoryOK'
      BY <2>17, <2>0, Nulls DEF Persist, Alive, home, HistoryOK
    <3>3. Switchable'
      BY <2>17, <2>0 DEF Persist, Alive, NoOutcome, home, launcher, Switchable
    <3> QED
      BY <2>17, <3>1, <3>2, <3>3, <2>0, GroupsKeepTypes DEF Typed, TypeOK, Persist
  <2>18. CASE Release
    <3>1. HomeOK'
      BY <2>18, <2>0, Nulls DEF Release, Alive, HomeOK
    <3>2. AgentOK'
      <4>1. over' \in 0..Readings
        BY <2>18, <2>0, BoundsAssumption DEF Release, Persisted, AgentOK
      <4> QED
        BY <2>18, <2>0, <4>1 DEF Release, AgentOK
    <3>3. Switchable'
      BY <2>18, <2>0 DEF Release, Alive, Persisted, NoOutcome, launcher, Switchable
    <3> QED
      BY <2>18, <3>1, <3>2, <3>3, <2>0, GroupsKeepTypes DEF Typed, TypeOK, Release
  <2>19. CASE Install
    <3>1. HomeOK'
      BY <2>19, <2>0, Nulls DEF Install, Alive, agent, HomeOK
    <3>2. Switchable'
      BY <2>19, <2>0 DEF Install, Alive, launcher, agent, Switchable
    <3> QED
      BY <2>19, <3>1, <3>2, <2>0, GroupsKeepTypes DEF Typed, TypeOK, Install
  <2>20. CASE Refuse
    <3>1. HomeOK'
      BY <2>20, <2>0, Nulls DEF Refuse, Alive, HomeOK
    <3>2. AgentOK'
      BY <2>20, <2>0, Nulls DEF Refuse, Alive, AgentOK
    <3>3. HistoryOK'
      <4>1. upsets' \in 0..MaxUpsets
        BY <2>20, <2>0, BoundsAssumption DEF Refuse, Upset, HistoryOK
      <4> QED
        BY <2>20, <2>0, <4>1 DEF Refuse, HistoryOK
    <3>4. Switchable'
      BY <2>20, <2>0 DEF Refuse, Alive, launcher, Switchable
    <3> QED
      BY <2>20, <3>1, <3>2, <3>3, <3>4, <2>0, GroupsKeepTypes DEF Typed, TypeOK, Refuse
  <2>21. CASE Stage
    <3>1. HomeOK'
      <4>1. next' \in [version : Agents, previous : Agents]
        BY <2>21, <2>0, Nulls DEF Stage, AgentOK
      <4> QED
        BY <2>21, <2>0, <4>1 DEF Stage, HomeOK
    <3>2. AgentOK'
      BY <2>21, <2>0, Nulls DEF Stage, Alive, AgentOK
    <3>3. Switchable'
      <4>1. next'.version # 0
        BY <2>21, <2>0, Nulls DEF Stage, HomeOK
      <4> QED
        BY <2>21, <2>0, <4>1 DEF Stage, launcher, Switchable
    <3> QED
      BY <2>21, <3>1, <3>2, <3>3, <2>0, GroupsKeepTypes DEF Typed, TypeOK, Stage
  <2>22. CASE Leave
    <3>1. AgentOK'
      <4>1. 0 \in 0..Readings
        BY BoundsAssumption
      <4>2. reads' \in 0..Readings /\ over' \in 0..Readings /\ staged' \in Agents
                /\ held' \subseteq Outcomes
        BY <2>22, <4>1, Nulls DEF Leave, Ended
      <4> QED
        BY <2>22, <2>0, <4>2 DEF Leave, Ended, AgentOK
    <3>2. HistoryOK'
      BY <2>22, <2>0, Nulls DEF Leave, Ended, home, HistoryOK
    <3>3. Switchable'
      BY <2>22, <2>0 DEF Leave, NoOutcome, Ended, home, launcher, Switchable
    <3> QED
      BY <2>22, <3>1, <3>2, <3>3, <2>0, GroupsKeepTypes DEF Typed, TypeOK, Leave, Ended
  <2>23. CASE Die
    <3>1. AgentOK'
      <4>1. 0 \in 0..Readings
        BY BoundsAssumption
      <4>2. reads' \in 0..Readings /\ over' \in 0..Readings /\ staged' \in Agents
                /\ held' \subseteq Outcomes
        BY <2>23, <4>1, Nulls DEF Die, Ended
      <4> QED
        BY <2>23, <2>0, <4>2 DEF Die, Ended, AgentOK
    <3>2. HistoryOK'
      <4>1. upsets' \in 0..MaxUpsets
        BY <2>23, <2>0, BoundsAssumption DEF Die, Upset, HistoryOK
      <4> QED
        BY <2>23, <2>0, <4>1 DEF Die, HistoryOK
    <3>3. Switchable'
      BY <2>23, <2>0 DEF Die, Alive, Ended, home, launcher, Switchable
    <3> QED
      BY <2>23, <3>1, <3>2, <3>3, <2>0, GroupsKeepTypes DEF Typed, TypeOK, Die, Ended
  <2>24. CASE Kill
    <3>1. AgentOK'
      <4>1. 0 \in 0..Readings
        BY BoundsAssumption
      <4>2. reads' \in 0..Readings /\ over' \in 0..Readings /\ staged' \in Agents
                /\ held' \subseteq Outcomes
        BY <2>24, <4>1, Nulls DEF Kill, Ended
      <4> QED
        BY <2>24, <2>0, <4>2 DEF Kill, Ended, AgentOK
    <3>2. Switchable'
      BY <2>24, <2>0 DEF Kill, Alive, Ended, home, launcher, Switchable
    <3> QED
      BY <2>24, <3>1, <3>2, <2>0, GroupsKeepTypes DEF Typed, TypeOK, Kill, Ended
  <2>25. ASSUME NEW v \in Versions, Push(v) PROVE Typed'
    <3>1. AgentOK'
      BY <2>25, <2>0, Nulls DEF Push, home, AgentOK
    <3>2. Switchable'
      BY <2>25, <2>0 DEF Push, home, launcher, Switchable
    <3> QED
      BY <2>25, <3>1, <3>2, <2>0, GroupsKeepTypes DEF Typed, TypeOK, Push
  <2>26. ASSUME NEW r \in Runtimes, StageRuntime(r) PROVE Typed'
    <3>1. HomeOK'
      BY <2>26, <2>0, Nulls DEF StageRuntime, agent, HomeOK
    <3>2. Switchable'
      BY <2>26, <2>0 DEF StageRuntime, launcher, agent, Switchable
    <3> QED
      BY <2>26, <3>1, <3>2, <2>0, GroupsKeepTypes DEF Typed, TypeOK, StageRuntime
  <2>27. CASE Blackout
    <3>1. LauncherOK'
      BY <2>27, <2>0, Nulls DEF Blackout, Ended, home, LauncherOK
    <3>2. AgentOK'
      <4>1. 0 \in 0..Readings
        BY BoundsAssumption
      <4>2. reads' \in 0..Readings /\ over' \in 0..Readings /\ staged' \in Agents
                /\ held' \subseteq Outcomes
        BY <2>27, <4>1, Nulls DEF Blackout, Ended
      <4> QED
        BY <2>27, <2>0, <4>2 DEF Blackout, Ended, AgentOK
    <3>3. HistoryOK'
      <4>1. upsets' \in 0..MaxUpsets
        BY <2>27, <2>0, BoundsAssumption DEF Blackout, Upset, HistoryOK
      <4> QED
        BY <2>27, <2>0, <4>1 DEF Blackout, HistoryOK
    <3>4. Switchable'
      BY <2>27, <2>0 DEF Blackout, NoTrial, Ended, home, Switchable
    <3> QED
      BY <2>27, <3>1, <3>2, <3>3, <3>4, <2>0, GroupsKeepTypes DEF Typed, TypeOK, Blackout,
         Ended
  <2>28. CASE UNCHANGED vars
    BY <2>28, <2>0, GroupsKeepTypes DEF vars, home, launcher, Typed, TypeOK, Switchable
  <2> QED
    BY <2>1, <2>2, <2>3, <2>4, <2>5, <2>6, <2>7, <2>8, <2>9, <2>10, <2>11, <2>12, <2>13,
       <2>14, <2>15, <2>16, <2>17, <2>18, <2>19, <2>20, <2>21, <2>22, <2>23, <2>24, <2>25,
       <2>26, <2>27, <2>28 DEF Next, LauncherStep, AgentStep
<1> QED
  BY <1>1, <1>2, ControlHolds, CountedHolds, PTL DEF Spec

\* Every variable keeps its type in every reachable state.
THEOREM TypeCorrect == Spec => []TypeOK
<1>1. Typed => TypeOK
  BY DEF Typed
<1> QED
  BY <1>1, TypedHolds, PTL

\* What is staged names the version that runs, and that version opened a session.
THEOREM StagingHolds == Spec => []Staging
<1>1. Init => Staging
  BY DEF Init, Staging, NoNext
<1>2. TypeOK /\ Counted /\ Control /\ Staging /\ [Next]_vars => Staging'
  <2> SUFFICES ASSUME TypeOK, Counted, Control, Staging, [Next]_vars
               PROVE  Staging'
    OBVIOUS
  <2>1. CASE Start
    BY <2>1, Nulls DEF Start, home, agent, history, Staging, NoNext
  <2>2. CASE TakeNext
    BY <2>2, Nulls DEF TakeNext, Trial, agent, NoNext, history, Staging
  <2>3. CASE Swap
    <3>1. next # NoNext
      BY <2>3, Nulls DEF Swap, Staging, TypeOK, HomeOK, NoNext
    <3> QED
      BY <2>3, <3>1 DEF Swap, agent, history, Staging
  <2>4. CASE Clear
    BY <2>4, Nulls DEF Clear, NoNext, agent, history, Staging
  <2>5. CASE TakeRuntime
    BY <2>5, Nulls DEF TakeRuntime, NoTrial, Trial, agent, Staging, NoNext
  <2>6. CASE SwapRuntime
    BY <2>6, Nulls DEF SwapRuntime, agent, history, Staging, NoNext
  <2>7. CASE ClearRuntime
    BY <2>7, Nulls DEF ClearRuntime, agent, history, Staging, NoNext
  <2>8. CASE Launch
    <3>1. current' \in bundles
      <4>1. bundles \in SUBSET Nat /\ IsFiniteSet(bundles) /\ bundles # {}
        BY <2>8, VersionsAssumption DEF Launch, TypeOK, HomeOK, Counted
      <4> QED
        BY <2>8, <4>1, HighestIn DEF Launch
    <3>2. next = NoNext /\ staged = 0
      BY <2>8 DEF Launch, Control, Unlaunched, Alive, Staging
    <3> QED
      BY <2>8, <3>1, <3>2 DEF Launch, history, Staging
  <2>9. CASE Healthy
    BY <2>9, Nulls DEF Healthy, HealthHeard, NoTrial, Staging, NoNext
  <2>10. CASE HealthTimeout
    BY <2>10, Nulls DEF HealthTimeout, NoTrial, home, agent, history, Staging, NoNext
  <2>11. CASE Undo
    BY <2>11, Nulls DEF Undo, NoTrial, Resume, agent, history, Staging, NoNext
  <2>12. CASE Report
    BY <2>12, Nulls DEF Report, agent, Staging, NoNext
  <2>13. CASE Forget
    BY <2>13, Nulls DEF Forget, NoTrial, Resume, agent, history, Staging, NoNext
  <2>14. CASE Exit
    BY <2>14, Nulls DEF Exit, NoTrial, TooMany, Crashed, history, MaxTrialCrashes,
       Staging, NoNext
  <2>15. CASE Connect
    BY <2>15, Nulls DEF Connect, home, launcher, Staging, NoNext
  <2>16. CASE Install
    BY <2>16, Nulls DEF Install, Alive, launcher, agent, history, Staging, NoNext
  <2>17. CASE Refuse
    <3>1. staged # version /\ phase # "none" /\ at \notin Unlaunched
      BY <2>17 DEF Refuse, Alive, Staging, Control
    <3>2. version \in bundles'
      BY <2>17, <3>1 DEF Refuse, Alive, Staging
    <3> QED
      BY <2>17, <3>1, <3>2 DEF Refuse, launcher, Staging, Unlaunched
  <2>18. CASE Stage
    <3>1. staged \in Versions /\ staged # 0 /\ at \notin Unlaunched
      BY <2>18, Nulls DEF Stage, Alive, Control, TypeOK, HomeOK
    <3>2. version \in bundles \cap proven
      BY <2>18, <3>1 DEF Stage, Alive, Staging
    <3> QED
      BY <2>18, <3>1, <3>2, Nulls DEF Stage, launcher, history, Staging, NoNext, Unlaunched
  <2>19. CASE Leave
    BY <2>19, Nulls DEF Leave, NoOutcome, Ended, home, launcher, Staging, NoNext
  <2>20. CASE Die
    BY <2>20, Nulls DEF Die, Alive, Ended, home, launcher, Staging, NoNext
  <2>21. CASE Kill
    BY <2>21, Nulls DEF Kill, Alive, Ended, home, launcher, history, Staging, NoNext
  <2>22. ASSUME NEW v \in Versions, Push(v) PROVE Staging'
    BY <2>22, Nulls DEF Push, home, launcher, history, Staging, NoNext
  <2>23. CASE Blackout
    BY <2>23, Nulls DEF Blackout, NoTrial, Ended, home, Staging, NoNext
  <2>24. CASE Claim \/ Persist \/ Release \/ (\E r \in Runtimes : StageRuntime(r))
    BY <2>24 DEF Claim, launcher, Persist, home, Release, history, StageRuntime, agent,
       Staging, NoNext
  <2>25. CASE UNCHANGED vars
    BY <2>25 DEF vars, home, launcher, agent, history, Staging, NoNext
  <2> QED
    BY <2>1, <2>2, <2>3, <2>4, <2>5, <2>6, <2>7, <2>8, <2>9, <2>10, <2>11, <2>12, <2>13,
       <2>14, <2>15, <2>16, <2>17, <2>18, <2>19, <2>20, <2>21, <2>22, <2>23, <2>24, <2>25
       DEF Next, LauncherStep, AgentStep
<1> QED
  BY <1>1, <1>2, TypeCorrect, CountedHolds, ControlHolds, PTL DEF Spec

\* The trial that the timer or a rollback works on is the one on disk.
THEOREM TryingHolds == Spec => []Trying
<1>1. Init => Trying
  BY DEF Init, Trying, NoTrial
<1>2. TypeOK /\ Control /\ Staging /\ Trying /\ [Next]_vars => Trying'
  <2> SUFFICES ASSUME TypeOK, Control, Staging, Trying, [Next]_vars
               PROVE  Trying'
    OBVIOUS
  <2>1. CASE Start
    BY <2>1 DEF Start, home, agent, history, Trying, NoTrial
  <2>2. CASE TakeNext
    BY <2>2 DEF TakeNext, Trial, agent, NoNext, history, Trying, NoTrial
  <2>3. CASE Swap
    BY <2>3 DEF Swap, agent, history, Trying, NoTrial
  <2>4. CASE Clear
    BY <2>4 DEF Clear, NoNext, agent, history, Trying, NoTrial
  <2>5. CASE TakeRuntime
    <3>1. CASE rnext # 0
      <4>1. trial'.kind \in {"agent", "runtime"} /\ (trial'.kind = "agent" => "joint" \in odd')
        BY <2>5, <3>1 DEF TakeRuntime, Trial, Trying, TypeOK, HomeOK, Trials
      <4>2. armed = NoTrial /\ at' = "rswap" /\ phase = "none"
        BY <2>5, <3>1 DEF TakeRuntime, Trying, Control, Unlaunched
      <4> QED
        BY <2>5, <4>1, <4>2 DEF TakeRuntime, agent, Trying, NoTrial
    <3>2. CASE rnext = 0
      BY <2>5, <3>2 DEF TakeRuntime, agent, Trying
    <3> QED
      BY <3>1, <3>2
  <2>6. CASE SwapRuntime
    BY <2>6 DEF SwapRuntime, agent, history, Trying, NoTrial
  <2>7. CASE ClearRuntime
    BY <2>7 DEF ClearRuntime, agent, history, Trying, NoTrial
  <2>8. CASE Launch
    BY <2>8 DEF Launch, history, Trying, NoTrial
  <2>9. CASE Healthy
    BY <2>9 DEF Healthy, HealthHeard, NoTrial, Trying
  <2>10. CASE HealthTimeout
    BY <2>10 DEF HealthTimeout, NoTrial, home, agent, history, Trying
  <2>11. CASE Undo
    BY <2>11 DEF Undo, NoTrial, Resume, agent, history, Trying
  <2>12. CASE Report
    BY <2>12 DEF Report, agent, Trying, NoTrial
  <2>13. CASE Forget
    BY <2>13 DEF Forget, NoTrial, Resume, agent, history, Trying
  <2>14. CASE Exit
    <3>1. trial'.kind = trial.kind /\ (trial' = NoTrial <=> trial = NoTrial)
      <4>1. CASE trial' = trial
        BY <4>1
      <4>2. CASE trial # NoTrial /\ trial' = Crashed(trial)
        <5>1. trial'.kind = trial.kind /\ trial.kind # "none"
          BY <4>2 DEF Crashed, Trying, TypeOK, HomeOK, Trials
        <5> QED
          BY <4>2, <5>1 DEF NoTrial
      <4> QED
        BY <2>14, <4>1, <4>2 DEF Exit
    <3> QED
      BY <2>14, <3>1 DEF Exit, history, Trying
  <2>15. CASE Connect
    BY <2>15 DEF Connect, home, launcher, Trying, NoTrial
  <2>16. CASE Claim
    BY <2>16 DEF Claim, NoOutcome, launcher, Trying, NoTrial
  <2>17. CASE Persist
    BY <2>17 DEF Persist, Alive, NoOutcome, home, launcher, Trying, NoTrial
  <2>18. CASE Release
    BY <2>18 DEF Release, Alive, Persisted, NoOutcome, launcher, history, Trying, NoTrial
  <2>19. CASE Refuse
    BY <2>19 DEF Refuse, Alive, launcher, Trying, NoTrial
  <2>20. CASE Stage
    <3>1. at \notin Unlaunched
      BY <2>20 DEF Stage, Alive, Control
    <3> QED
      BY <2>20, <3>1 DEF Stage, Alive, launcher, history, Trying, Unlaunched
  <2>21. CASE Leave
    BY <2>21 DEF Leave, NoOutcome, Ended, home, launcher, Trying, NoTrial
  <2>22. CASE Die
    BY <2>22 DEF Die, Alive, Ended, home, launcher, Trying, NoTrial
  <2>23. CASE Kill
    BY <2>23 DEF Kill, Alive, Ended, home, launcher, history, Trying, NoTrial
  <2>24. ASSUME NEW v \in Versions, Push(v) PROVE Trying'
    BY <2>24 DEF Push, home, launcher, history, Trying, NoTrial
  <2>25. CASE Blackout
    BY <2>25 DEF Blackout, NoTrial, Ended, home, Trying
  <2>26. CASE Install \/ (\E r \in Runtimes : StageRuntime(r))
    BY <2>26 DEF Install, launcher, agent, history, StageRuntime, Trying, NoTrial
  <2>27. CASE UNCHANGED vars
    BY <2>27 DEF vars, home, launcher, agent, history, Trying, NoTrial
  <2> QED
    BY <2>1, <2>2, <2>3, <2>4, <2>5, <2>6, <2>7, <2>8, <2>9, <2>10, <2>11, <2>12, <2>13,
       <2>14, <2>15, <2>16, <2>17, <2>18, <2>19, <2>20, <2>21, <2>22, <2>23, <2>24, <2>25,
       <2>26, <2>27 DEF Next, LauncherStep, AgentStep
<1> QED
  BY <1>1, <1>2, TypeCorrect, ControlHolds, StagingHolds, PTL DEF Spec

\* An outcome is in one place after another.
THEOREM OutcomeMovesHolds == Spec => []OutcomeMoves
<1>1. Init => OutcomeMoves
  BY DEF Init, OutcomeMoves, NoOutcome
<1>2. TypeOK /\ Control /\ OutcomeMoves /\ [Next]_vars => OutcomeMoves'
  <2> SUFFICES ASSUME TypeOK, Control, OutcomeMoves, [Next]_vars
               PROVE  OutcomeMoves'
    OBVIOUS
  <2>1. CASE TakeRuntime
    BY <2>1 DEF TakeRuntime, NoTrial, Trial, agent, OutcomeMoves, NoOutcome
  <2>2. CASE Launch
    BY <2>2 DEF Launch, history, OutcomeMoves, NoOutcome
  <2>3. CASE Healthy
    BY <2>3 DEF Healthy, HealthHeard, NoTrial, Write, OutcomeMoves, NoOutcome
  <2>4. CASE Report
    BY <2>4 DEF Report, Write, agent, OutcomeMoves, NoOutcome
  <2>5. CASE Claim
    <3>1. CASE "raced" \in odd'
      BY <2>5, <3>1 DEF Claim, OutcomeMoves
    <3>2. CASE "raced" \notin odd'
      <4>1. "raced" \notin odd /\ (claimed' # NoOutcome => held = {} /\ over = 0)
        BY <2>5, <3>2 DEF Claim, TypeOK, AgentOK
      <4>2. CASE result # NoOutcome
        <5>1. claimed' = result /\ last \in {NoOutcome, result} /\ held = {} /\ over = 0
          BY <2>5, <4>1, <4>2 DEF Claim, OutcomeMoves
        <5> QED
          BY <2>5, <5>1, <4>2 DEF Claim, OutcomeMoves
      <4>3. CASE result = NoOutcome
        BY <2>5, <4>1, <4>3 DEF Claim, OutcomeMoves
      <4> QED
        BY <4>2, <4>3
    <3> QED
      BY <3>1, <3>2
  <2>6. CASE Persist
    BY <2>6 DEF Persist, Alive, NoOutcome, home, OutcomeMoves
  <2>7. CASE Release
    BY <2>7 DEF Release, Alive, Persisted, NoOutcome, history, OutcomeMoves
  <2>8. CASE Refuse
    BY <2>8 DEF Refuse, Alive, OutcomeMoves, NoOutcome
  <2>9. CASE Leave
    BY <2>9 DEF Leave, NoOutcome, Ended, home, OutcomeMoves
  <2>10. CASE Die
    BY <2>10 DEF Die, Alive, Ended, home, OutcomeMoves, NoOutcome
  <2>11. CASE Kill
    BY <2>11 DEF Kill, Alive, Ended, home, history, OutcomeMoves, NoOutcome
  <2>12. CASE Blackout
    BY <2>12 DEF Blackout, NoTrial, Ended, home, OutcomeMoves, NoOutcome
  <2>13. CASE Start \/ TakeNext \/ Swap \/ Clear \/ SwapRuntime \/ ClearRuntime \/
         HealthTimeout \/ Undo \/ Forget \/ Exit \/ Connect \/ Install \/ Stage \/ (\E v \in
         Versions : Push(v)) \/ (\E r \in Runtimes : StageRuntime(r))
    BY <2>13 DEF Start, home, agent, history, TakeNext, Swap, Clear, SwapRuntime,
       ClearRuntime, HealthTimeout, Undo, Forget, Exit, Connect, Install, Stage, Push,
       StageRuntime, OutcomeMoves, NoOutcome
  <2>14. CASE UNCHANGED vars
    BY <2>14 DEF vars, home, agent, history, OutcomeMoves, NoOutcome
  <2> QED
    BY <2>1, <2>2, <2>3, <2>4, <2>5, <2>6, <2>7, <2>8, <2>9, <2>10, <2>11, <2>12, <2>13,
       <2>14 DEF Next, LauncherStep, AgentStep
<1> QED
  BY <1>1, <1>2, TypeCorrect, ControlHolds, PTL DEF Spec

\* Unless the agent removed a bundle from under it, the launcher can always go back to a
\* version that opened a session.
THEOREM AgentKeptHolds == Spec => []AgentKept
<1>1. Init => AgentKept
  BY DEF Init, AgentKept, NoTrial
<1>2. TypeOK /\ Counted /\ Control /\ Staging /\ Trying /\ AgentKept /\ [Next]_vars => AgentKept'
  <2> SUFFICES ASSUME TypeOK, Counted, Control, Staging, Trying, AgentKept, [Next]_vars
               PROVE  AgentKept'
    OBVIOUS
  <2>1. CASE Start
    BY <2>1 DEF Start, home, agent, history, AgentKept, NoNext
  <2>2. CASE TakeNext
    <3>1. CASE next.version \in bundles
      <4>1. next # NoNext /\ next.previous \in bundles \cap proven /\ next.previous # 0
        BY <3>1, Nulls DEF NoNext, Staging, TypeOK, HomeOK
      <4>2. /\ trial'.kind = "agent" /\ trial'.version = next.version
            /\ trial'.previous = next.previous
        BY <2>2, <3>1, <4>1 DEF TakeNext, Trial
      <4> QED
        BY <2>2, <3>1, <4>1, <4>2 DEF TakeNext, agent, history, AgentKept
    <3>2. CASE next.version \notin bundles
      BY <2>2, <3>2 DEF TakeNext, agent, history, AgentKept
    <3> QED
      BY <3>1, <3>2
  <2>3. CASE Swap
    <3>1. trial.kind = "agent" /\ trial.version = next.version /\ next.version \in bundles
      BY <2>3 DEF Swap, Trying, Staging
    <3> QED
      BY <2>3, <3>1 DEF Swap, agent, history, AgentKept
  <2>4. CASE Clear
    BY <2>4 DEF Clear, NoNext, agent, history, AgentKept
  <2>5. CASE TakeRuntime
    BY <2>5 DEF TakeRuntime, NoTrial, Trial, agent, AgentKept, NoNext
  <2>6. CASE SwapRuntime
    BY <2>6 DEF SwapRuntime, agent, history, AgentKept, NoNext
  <2>7. CASE ClearRuntime
    BY <2>7 DEF ClearRuntime, agent, history, AgentKept, NoNext
  <2>8. CASE Launch
    BY <2>8 DEF Launch, history, AgentKept, NoNext
  <2>9. CASE Healthy
    <3>1. version \in proven /\ phase # "none"
      BY <2>9 DEF Healthy, HealthHeard, Staging, Control
    <3>2. CASE trial = NoTrial
      BY <2>9, <3>2 DEF Healthy, AgentKept, NoTrial
    <3>3. CASE trial # NoTrial
      <4>1. version = current
        BY <2>9, <3>1, <3>3 DEF Healthy, Trying
      <4> QED
        BY <2>9, <3>1, <3>3, <4>1 DEF Healthy, AgentKept
    <3> QED
      BY <3>2, <3>3
  <2>10. CASE HealthTimeout
    BY <2>10 DEF HealthTimeout, NoTrial, home, agent, history, AgentKept, NoNext
  <2>11. CASE Undo
    <3>1. undo = trial /\ trial # NoTrial
      BY <2>11 DEF Undo, Trying
    <3>2. CASE undo.kind = "runtime"
      BY <2>11, <3>1, <3>2 DEF Undo, agent, history, AgentKept
    <3>3. CASE undo.kind # "runtime"
      <4>1. trial.kind = "agent"
        BY <3>1, <3>3 DEF Trying, TypeOK, HomeOK, Trials
      <4>2. "removed" \notin odd => Fallback(undo) = trial.previous /\ trial.previous # 0
        BY <3>1, <4>1, Nulls DEF AgentKept, Fallback, TypeOK, HomeOK
      <4>3. trial'.kind = "agent" => trial' = trial
        BY <2>11, <3>3 DEF Undo, NoTrial
      <4> QED
        BY <2>11, <3>1, <3>3, <4>1, <4>2, <4>3 DEF Undo, agent, history, AgentKept
    <3> QED
      BY <3>2, <3>3
  <2>12. CASE Report
    BY <2>12 DEF Report, agent, AgentKept, NoNext
  <2>13. CASE Forget
    BY <2>13 DEF Forget, NoTrial, Resume, agent, history, AgentKept, NoNext
  <2>14. CASE Exit
    <3>1. trial'.kind = trial.kind /\ trial'.version = trial.version /\ trial'.previous =
              trial.previous
      BY <2>14 DEF Exit, Crashed, TypeOK, HomeOK, Trials
    <3> QED
      BY <2>14, <3>1 DEF Exit, history, AgentKept
  <2>15. CASE Connect
    BY <2>15 DEF Connect, home, launcher, AgentKept, NoNext
  <2>16. CASE Claim
    BY <2>16 DEF Claim, NoOutcome, launcher, AgentKept, NoNext
  <2>17. CASE Persist
    BY <2>17 DEF Persist, Alive, NoOutcome, home, launcher, AgentKept, NoNext
  <2>18. CASE Release
    BY <2>18 DEF Release, Alive, Persisted, NoOutcome, launcher, history, AgentKept,
       NoNext
  <2>19. CASE Install
    BY <2>19 DEF Install, Alive, launcher, agent, history, AgentKept, NoNext
  <2>20. CASE Refuse
    BY <2>20 DEF Refuse, Alive, launcher, AgentKept, NoNext
  <2>21. CASE Stage
    <3>1. version \in proven /\ phase # "none" /\ at \notin Unlaunched
      BY <2>21, Nulls DEF Stage, Alive, Staging, Control, TypeOK, HomeOK
    <3>2. "removed" \notin odd => current \in proven
      <4>1. at \in {"watch", "undo", "report", "forget"}
        BY <3>1 DEF Unlaunched, TypeOK, LauncherOK
      <4>2. CASE trial.kind # "agent"
        BY <4>2 DEF AgentKept
      <4>3. CASE trial.kind = "agent"
        <5>1. at \in {"watch", "undo"} => version = current
          BY <3>1, <4>3 DEF Trying, NoTrial
        <5> QED
          BY <3>1, <4>1, <5>1 DEF AgentKept
      <4> QED
        BY <4>2, <4>3
    <3> QED
      BY <2>21, <3>2 DEF Stage, launcher, history, AgentKept
  <2>22. CASE Leave
    BY <2>22 DEF Leave, NoOutcome, Ended, home, launcher, AgentKept, NoNext
  <2>23. CASE Die
    BY <2>23 DEF Die, Alive, Ended, home, launcher, AgentKept, NoNext
  <2>24. CASE Kill
    BY <2>24 DEF Kill, Alive, Ended, home, launcher, history, AgentKept, NoNext
  <2>25. ASSUME NEW v \in Versions, Push(v) PROVE AgentKept'
    BY <2>25 DEF Push, home, launcher, history, AgentKept, NoNext
  <2>26. CASE Blackout
    BY <2>26 DEF Blackout, NoTrial, Ended, home, AgentKept, NoNext
  <2>27. CASE (\E r \in Runtimes : StageRuntime(r))
    BY <2>27 DEF StageRuntime, launcher, agent, history, AgentKept, NoNext
  <2>28. CASE UNCHANGED vars
    BY <2>28 DEF vars, home, launcher, agent, history, AgentKept, NoNext
  <2> QED
    BY <2>1, <2>2, <2>3, <2>4, <2>5, <2>6, <2>7, <2>8, <2>9, <2>10, <2>11, <2>12, <2>13,
       <2>14, <2>15, <2>16, <2>17, <2>18, <2>19, <2>20, <2>21, <2>22, <2>23, <2>24, <2>25,
       <2>26, <2>27, <2>28 DEF Next, LauncherStep, AgentStep
<1> QED
  BY <1>1, <1>2, TypeCorrect, CountedHolds, ControlHolds, StagingHolds, TryingHolds, PTL
     DEF Spec

\* Unless it was swapped along with an agent, a runtime on trial gives way to one that was
\* proved sound.
THEOREM RuntimeKeptHolds == Spec => []RuntimeKept
<1>1. Init => RuntimeKept
  BY DEF Init, RuntimeKept, NoTrial
<1>2. TypeOK /\ Control /\ Staging /\ Trying /\ RuntimeKept /\ [Next]_vars => RuntimeKept'
  <2> SUFFICES ASSUME TypeOK, Control, Staging, Trying, RuntimeKept, [Next]_vars
               PROVE  RuntimeKept'
    OBVIOUS
  <2>1. CASE Start
    BY <2>1 DEF Start, home, agent, history, RuntimeKept, NoNext
  <2>2. CASE TakeNext
    <3>1. CASE next.version \in bundles
      <4>1. next # NoNext /\ trial'.kind = "agent"
        BY <2>2, <3>1, Nulls DEF TakeNext, Trial, NoNext, TypeOK, HomeOK
      <4> QED
        BY <2>2, <3>1, <4>1 DEF TakeNext, agent, history, RuntimeKept
    <3>2. CASE next.version \notin bundles
      BY <2>2, <3>2 DEF TakeNext, agent, history, RuntimeKept
    <3> QED
      BY <3>1, <3>2
  <2>3. CASE Swap
    BY <2>3 DEF Swap, agent, history, RuntimeKept, NoNext
  <2>4. CASE Clear
    BY <2>4 DEF Clear, NoNext, agent, history, RuntimeKept
  <2>5. CASE TakeRuntime
    BY <2>5 DEF TakeRuntime, NoTrial, Trial, agent, RuntimeKept, NoNext
  <2>6. CASE SwapRuntime
    <3>1. next = NoNext /\ (trial.kind = "runtime" \/ "joint" \in odd)
      BY <2>6 DEF SwapRuntime, Staging, Trying
    <3> QED
      BY <2>6, <3>1 DEF SwapRuntime, agent, history, RuntimeKept
  <2>7. CASE ClearRuntime
    BY <2>7 DEF ClearRuntime, agent, history, RuntimeKept, NoNext
  <2>8. CASE Launch
    BY <2>8 DEF Launch, history, RuntimeKept, NoNext
  <2>9. CASE Healthy
    <3>1. node \in sound /\ phase # "none"
      BY <2>9 DEF Healthy, HealthHeard, Staging, Control
    <3>2. CASE trial = NoTrial
      BY <2>9, <3>2 DEF Healthy, RuntimeKept, NoTrial
    <3>3. CASE trial # NoTrial
      <4>1. node = runtime
        BY <2>9, <3>1, <3>3 DEF Healthy, Trying
      <4> QED
        BY <2>9, <3>1, <3>3, <4>1 DEF Healthy, RuntimeKept
    <3> QED
      BY <3>2, <3>3
  <2>10. CASE HealthTimeout
    BY <2>10 DEF HealthTimeout, NoTrial, home, agent, history, RuntimeKept, NoNext
  <2>11. CASE Undo
    <3>1. undo = trial /\ NoTrial.kind # "runtime"
      BY <2>11 DEF Undo, Trying, NoTrial
    <3>2. trial'.kind = "runtime" => trial' = trial
      BY <2>11, <3>1 DEF Undo
    <3> QED
      BY <2>11, <3>1, <3>2 DEF Undo, agent, history, RuntimeKept
  <2>12. CASE Report
    BY <2>12 DEF Report, agent, RuntimeKept, NoNext
  <2>13. CASE Forget
    BY <2>13 DEF Forget, NoTrial, Resume, agent, history, RuntimeKept, NoNext
  <2>14. CASE Exit
    <3>1. trial'.kind = trial.kind /\ trial'.version = trial.version /\ trial'.previous =
              trial.previous
      BY <2>14 DEF Exit, Crashed, TypeOK, HomeOK, Trials
    <3> QED
      BY <2>14, <3>1 DEF Exit, history, RuntimeKept
  <2>15. CASE Connect
    BY <2>15 DEF Connect, home, launcher, RuntimeKept, NoNext
  <2>16. CASE Claim
    BY <2>16 DEF Claim, NoOutcome, launcher, RuntimeKept, NoNext
  <2>17. CASE Refuse
    BY <2>17 DEF Refuse, Alive, launcher, RuntimeKept, NoNext
  <2>18. CASE Stage
    <3>1. node \in sound /\ phase # "none" /\ at \notin Unlaunched
      BY <2>18, Nulls DEF Stage, Alive, Staging, Control, TypeOK, HomeOK
    <3>2. "joint" \notin odd => runtime \in sound
      <4>1. at \in {"watch", "undo", "report", "forget"}
        BY <3>1 DEF Unlaunched, TypeOK, LauncherOK
      <4>2. CASE trial.kind # "runtime"
        BY <4>2 DEF RuntimeKept
      <4>3. CASE trial.kind = "runtime"
        <5>1. at \in {"watch", "undo"} => node = runtime
          BY <3>1, <4>3 DEF Trying, NoTrial
        <5> QED
          BY <3>1, <4>1, <5>1 DEF RuntimeKept
      <4> QED
        BY <4>2, <4>3
    <3> QED
      BY <2>18, <3>2 DEF Stage, launcher, history, RuntimeKept
  <2>19. CASE Blackout
    BY <2>19 DEF Blackout, NoTrial, Ended, home, RuntimeKept, NoNext
  <2>20. CASE Persist \/ Release \/ Install \/ Leave \/ Die \/ Kill \/ (\E v \in
         Versions : Push(v)) \/ (\E r \in Runtimes : StageRuntime(r))
    BY <2>20 DEF Persist, home, launcher, Release, history, Install, agent, Leave, Ended,
       Die, Kill, Push, StageRuntime, RuntimeKept, NoNext
  <2>21. CASE UNCHANGED vars
    BY <2>21 DEF vars, home, launcher, agent, history, RuntimeKept, NoNext
  <2> QED
    BY <2>1, <2>2, <2>3, <2>4, <2>5, <2>6, <2>7, <2>8, <2>9, <2>10, <2>11, <2>12, <2>13,
       <2>14, <2>15, <2>16, <2>17, <2>18, <2>19, <2>20, <2>21 DEF Next, LauncherStep,
       AgentStep
<1> QED
  BY <1>1, <1>2, TypeCorrect, ControlHolds, StagingHolds, TryingHolds, PTL DEF Spec

\* The version on trial is the one that runs, or the one that is about to.
THEOREM AgentTriedHolds == Spec => []AgentTried
<1>1. Init => AgentTried
  BY DEF Init, AgentTried, NoTrial
<1>2. TypeOK /\ Control /\ Staging /\ Trying /\ AgentKept /\ AgentTried /\ [Next]_vars =>
          AgentTried'
  <2> SUFFICES ASSUME TypeOK, Control, Staging, Trying, AgentKept, AgentTried, [Next]_vars
               PROVE  AgentTried'
    OBVIOUS
  <2>1. CASE Start
    BY <2>1 DEF Start, home, agent, history, AgentTried, BackAgain
  <2>2. CASE TakeNext
    BY <2>2 DEF TakeNext, Trial, agent, NoNext, history, AgentTried, BackAgain
  <2>3. CASE Swap
    <3>1. trial.version = next.version
      BY <2>3 DEF Swap, Trying
    <3> QED
      BY <2>3, <3>1 DEF Swap, agent, history, AgentTried
  <2>4. CASE Clear
    BY <2>4 DEF Clear, NoNext, agent, history, AgentTried, BackAgain
  <2>5. CASE TakeRuntime
    BY <2>5 DEF TakeRuntime, NoTrial, Trial, agent, AgentTried, BackAgain
  <2>6. CASE SwapRuntime
    BY <2>6 DEF SwapRuntime, agent, history, AgentTried, BackAgain
  <2>7. CASE ClearRuntime
    BY <2>7 DEF ClearRuntime, agent, history, AgentTried, BackAgain
  <2>8. CASE Launch
    <3>1. trial.kind = "agent" /\ odd \cap {"removed", "torn"} = {} =>
              current = trial.version /\ current \in bundles
      BY <2>8 DEF Launch, AgentTried, BackAgain, AgentKept
    <3> QED
      BY <2>8, <3>1 DEF Launch, history, AgentTried
  <2>9. CASE Healthy
    BY <2>9 DEF Healthy, HealthHeard, NoTrial, AgentTried, BackAgain
  <2>10. CASE HealthTimeout
    BY <2>10 DEF HealthTimeout, NoTrial, home, agent, history, AgentTried, BackAgain
  <2>11. CASE Undo
    <3>1. ~healthy
      BY <2>11 DEF Undo, Trying
    <3>2. at' = "report" \/ trial' = NoTrial
      BY <2>11 DEF Undo
    <3> QED
      BY <2>11, <3>1, <3>2 DEF Undo, AgentTried, BackAgain, NoTrial
  <2>12. CASE Report
    BY <2>12 DEF Report, agent, AgentTried, BackAgain
  <2>13. CASE Forget
    BY <2>13 DEF Forget, NoTrial, Resume, agent, history, AgentTried, BackAgain
  <2>14. CASE Exit
    <3>1. trial'.kind = trial.kind /\ trial'.version = trial.version /\ trial'.previous =
              trial.previous
      BY <2>14 DEF Exit, Crashed, TypeOK, HomeOK, Trials
    <3>2. trial.kind = "agent" /\ odd \cap {"removed", "torn"} = {} => current = trial.version
      BY <2>14 DEF Exit, AgentTried, BackAgain
    <3> QED
      BY <2>14, <3>1, <3>2 DEF Exit, history, AgentTried
  <2>15. CASE Connect
    BY <2>15 DEF Connect, home, launcher, AgentTried, BackAgain
  <2>16. CASE Claim
    BY <2>16 DEF Claim, NoOutcome, launcher, AgentTried, BackAgain
  <2>17. CASE Persist
    BY <2>17 DEF Persist, Alive, NoOutcome, home, launcher, AgentTried, BackAgain
  <2>18. CASE Release
    BY <2>18 DEF Release, Alive, Persisted, NoOutcome, launcher, history, AgentTried,
       BackAgain
  <2>19. CASE Install
    BY <2>19 DEF Install, Alive, launcher, agent, history, AgentTried, BackAgain
  <2>20. CASE Refuse
    <3>1. at \notin Unlaunched
      BY <2>20 DEF Refuse, Alive, Control
    <3>2. odd \subseteq odd'
      BY <2>20 DEF Refuse
    <3> QED
      BY <2>20, <3>1, <3>2 DEF Refuse, launcher, AgentTried, BackAgain, Unlaunched
  <2>21. CASE Stage
    <3>1. at \notin Unlaunched
      BY <2>21 DEF Stage, Alive, Control
    <3> QED
      BY <2>21, <3>1 DEF Stage, launcher, history, AgentTried, BackAgain, Unlaunched
  <2>22. CASE Leave
    BY <2>22 DEF Leave, NoOutcome, Ended, home, launcher, AgentTried, BackAgain
  <2>23. CASE Die
    BY <2>23 DEF Die, Alive, Ended, home, launcher, AgentTried, BackAgain
  <2>24. CASE Kill
    BY <2>24 DEF Kill, Alive, Ended, home, launcher, history, AgentTried, BackAgain
  <2>25. ASSUME NEW v \in Versions, Push(v) PROVE AgentTried'
    BY <2>25 DEF Push, home, launcher, history, AgentTried, BackAgain
  <2>26. CASE Blackout
    BY <2>26 DEF Blackout, NoTrial, Ended, home, AgentTried, BackAgain
  <2>27. CASE (\E r \in Runtimes : StageRuntime(r))
    BY <2>27 DEF StageRuntime, launcher, agent, history, AgentTried, BackAgain
  <2>28. CASE UNCHANGED vars
    BY <2>28 DEF vars, home, launcher, agent, history, AgentTried, BackAgain
  <2> QED
    BY <2>1, <2>2, <2>3, <2>4, <2>5, <2>6, <2>7, <2>8, <2>9, <2>10, <2>11, <2>12, <2>13,
       <2>14, <2>15, <2>16, <2>17, <2>18, <2>19, <2>20, <2>21, <2>22, <2>23, <2>24, <2>25,
       <2>26, <2>27, <2>28 DEF Next, LauncherStep, AgentStep
<1> QED
  BY <1>1, <1>2, TypeCorrect, ControlHolds, StagingHolds, TryingHolds, AgentKeptHolds,
     PTL DEF Spec

\* The runtime on trial is the one that runs, or is about to, unless it is known to be sound.
THEOREM RuntimeTriedHolds == Spec => []RuntimeTried
<1>1. Init => RuntimeTried
  BY DEF Init, RuntimeTried, NoTrial
<1>2. TypeOK /\ Control /\ Staging /\ Trying /\ RuntimeKept /\ RuntimeTried /\ [Next]_vars =>
          RuntimeTried'
  <2> SUFFICES ASSUME TypeOK, Control, Staging, Trying, RuntimeKept, RuntimeTried, [Next]_vars
               PROVE  RuntimeTried'
    OBVIOUS
  <2>1. CASE Start
    BY <2>1 DEF Start, home, agent, history, RuntimeTried, BackAgain
  <2>2. CASE TakeNext
    BY <2>2 DEF TakeNext, Trial, agent, NoNext, history, RuntimeTried, BackAgain
  <2>3. CASE Swap
    BY <2>3 DEF Swap, agent, history, RuntimeTried, BackAgain
  <2>4. CASE Clear
    BY <2>4 DEF Clear, NoNext, agent, history, RuntimeTried, BackAgain
  <2>5. CASE TakeRuntime
    <3>1. CASE trial' = trial
      BY <2>5, <3>1 DEF TakeRuntime, agent, RuntimeTried, BackAgain
    <3>2. CASE rnext # 0 /\ trial' = Trial("runtime", rnext, runtime)
      BY <2>5, <3>2 DEF TakeRuntime, Trial, RuntimeTried
    <3> QED
      BY <2>5, <3>1, <3>2 DEF TakeRuntime
  <2>6. CASE SwapRuntime
    BY <2>6 DEF SwapRuntime, agent, history, RuntimeTried, BackAgain
  <2>7. CASE ClearRuntime
    BY <2>7 DEF ClearRuntime, agent, history, RuntimeTried, BackAgain
  <2>8. CASE Launch
    BY <2>8 DEF Launch, history, RuntimeTried, BackAgain
  <2>9. CASE Healthy
    <3>1. node \in sound /\ phase # "none"
      BY <2>9 DEF Healthy, HealthHeard, Staging, Control
    <3>2. CASE trial = NoTrial
      BY <2>9, <3>2 DEF Healthy, RuntimeTried, NoTrial
    <3>3. CASE trial # NoTrial
      <4>1. node = runtime
        BY <2>9, <3>1, <3>3 DEF Healthy, Trying
      <4> QED
        BY <2>9, <3>1, <3>3, <4>1 DEF Healthy, RuntimeTried, BackAgain
    <3> QED
      BY <3>2, <3>3
  <2>10. CASE HealthTimeout
    BY <2>10 DEF HealthTimeout, NoTrial, home, agent, history, RuntimeTried, BackAgain
  <2>11. CASE Undo
    <3>1. ~healthy
      BY <2>11 DEF Undo, Trying
    <3>2. at' = "report" \/ trial' = NoTrial
      BY <2>11 DEF Undo
    <3>3. at' # "rswap"
      BY <2>11 DEF Undo, Resume
    <3> QED
      BY <2>11, <3>1, <3>2, <3>3 DEF Undo, RuntimeTried, BackAgain, NoTrial
  <2>12. CASE Report
    <3>1. ~healthy
      BY <2>12 DEF Report, Trying
    <3> QED
      BY <2>12, <3>1 DEF Report, agent, RuntimeTried, BackAgain
  <2>13. CASE Forget
    BY <2>13 DEF Forget, NoTrial, Resume, agent, history, RuntimeTried, BackAgain
  <2>14. CASE Exit
    <3>1. trial'.kind = trial.kind /\ trial'.version = trial.version /\ trial'.previous =
              trial.previous
      BY <2>14 DEF Exit, Crashed, TypeOK, HomeOK, Trials
    <3> QED
      BY <2>14, <3>1 DEF Exit, history, RuntimeTried, BackAgain
  <2>15. CASE Connect
    BY <2>15 DEF Connect, home, launcher, RuntimeTried, BackAgain
  <2>16. CASE Claim
    BY <2>16 DEF Claim, NoOutcome, launcher, RuntimeTried, BackAgain
  <2>17. CASE Refuse
    BY <2>17 DEF Refuse, Alive, launcher, RuntimeTried, BackAgain
  <2>18. ASSUME NEW r \in Runtimes, StageRuntime(r) PROVE RuntimeTried'
    <3>1. node \in sound /\ phase # "none" /\ at \notin Unlaunched
      BY <2>18 DEF StageRuntime, Alive, Staging, Control
    <3>2. r # 0 /\ at # "rswap"
      BY <3>1, RuntimesAssumption DEF Unlaunched
    <3>3. at \in {"watch", "undo", "report", "forget"}
      BY <3>1 DEF Unlaunched, TypeOK, LauncherOK
    <3>4. trial.kind = "runtime" /\ at \in {"watch", "undo"} => node = runtime
      BY <3>1 DEF Trying, NoTrial
    <3>5. at = "report" => ~healthy
      BY DEF Trying
    <3> QED
      BY <2>18, <3>1, <3>2, <3>3, <3>4, <3>5
         DEF StageRuntime, launcher, agent, history, RuntimeTried, BackAgain
  <2>19. CASE Blackout
    BY <2>19 DEF Blackout, NoTrial, Ended, home, RuntimeTried, BackAgain
  <2>20. CASE Persist \/ Release \/ Install \/ Stage \/ Leave \/ Die \/ Kill \/ (\E v
         \in Versions : Push(v))
    BY <2>20 DEF Persist, home, launcher, Release, history, Install, agent, Stage, Leave,
       Ended, Die, Kill, Push, RuntimeTried, BackAgain
  <2>21. CASE UNCHANGED vars
    BY <2>21 DEF vars, home, launcher, agent, history, RuntimeTried, BackAgain
  <2> QED
    BY <2>1, <2>2, <2>3, <2>4, <2>5, <2>6, <2>7, <2>8, <2>9, <2>10, <2>11, <2>12, <2>13,
       <2>14, <2>15, <2>16, <2>17, <2>18, <2>19, <2>20, <2>21 DEF Next, LauncherStep,
       AgentStep
<1> QED
  BY <1>1, <1>2, TypeCorrect, ControlHolds, StagingHolds, TryingHolds, RuntimeKeptHolds,
     PTL DEF Spec

\* No outcome is false: an applied one names what opened a session, a rolled back one what
\* had opened one before. It holds unless the machine went down inside a rollback, a bundle
\* was removed from under the launcher, or a runtime was swapped along with an agent.
THEOREM OutcomeIsTrueHolds == Spec => []OutcomeIsTrue
<1>1. Init => OutcomeIsTrue
  BY DEF Init, OutcomeIsTrue
<1>2. TypeOK /\ Control /\ Staging /\ Trying /\ AgentKept /\ RuntimeKept /\ AgentTried
          /\ RuntimeTried /\ OutcomeIsTrue /\ [Next]_vars => OutcomeIsTrue'
  <2> SUFFICES ASSUME TypeOK, Control, Staging, Trying, AgentKept, RuntimeKept, AgentTried,
                      RuntimeTried, OutcomeIsTrue, [Next]_vars
               PROVE  OutcomeIsTrue'
    OBVIOUS
  <2>1. CASE TakeRuntime
    BY <2>1 DEF TakeRuntime, NoTrial, Trial, agent, OutcomeIsTrue, NoOutcome
  <2>2. CASE Launch
    BY <2>2 DEF Launch, history, OutcomeIsTrue, NoOutcome
  <2>3. CASE Healthy
    <3>1. version \in proven /\ node \in sound /\ phase # "none"
      BY <2>3 DEF Healthy, HealthHeard, Staging, Control
    <3>2. CASE trial = NoTrial
      BY <2>3, <3>2 DEF Healthy, OutcomeIsTrue
    <3>3. CASE trial # NoTrial
      <4>1. version = current /\ node = runtime /\ trial.kind \in {"agent", "runtime"}
        BY <2>3, <3>1, <3>3 DEF Healthy, Trying, TypeOK, HomeOK, Trials
      <4>2. trial.kind = "agent" /\ odd \cap {"removed", "torn"} = {} => trial.version \in proven
        BY <2>3, <3>1, <4>1 DEF Healthy, AgentTried, BackAgain
      <4>3. trial.kind = "runtime" /\ odd \cap {"joint", "torn"} = {} => trial.version \in sound
        BY <2>3, <3>1, <4>1 DEF Healthy, RuntimeTried, BackAgain
      <4> QED
        BY <2>3, <3>3, <4>1, <4>2, <4>3 DEF Healthy, Write, OutcomeIsTrue
    <3> QED
      BY <3>2, <3>3
  <2>4. CASE Report
    <3>1. undo = trial /\ trial.kind \in {"agent", "runtime"}
      BY <2>4 DEF Report, Trying, TypeOK, HomeOK, Trials
    <3>2. trial.kind = "agent" /\ "removed" \notin odd => current \in proven
      BY <2>4 DEF Report, AgentKept
    <3>3. trial.kind = "runtime" /\ "joint" \notin odd => trial.previous \in sound
      BY DEF RuntimeKept
    <3> QED
      BY <2>4, <3>1, <3>2, <3>3 DEF Report, Write, agent, OutcomeIsTrue
  <2>5. CASE Exit
    BY <2>5 DEF Exit, NoTrial, TooMany, Crashed, history, MaxTrialCrashes, OutcomeIsTrue,
       NoOutcome
  <2>6. CASE Connect
    BY <2>6 DEF Connect, home, OutcomeIsTrue, NoOutcome
  <2>7. CASE Claim
    BY <2>7 DEF Claim, NoOutcome, OutcomeIsTrue
  <2>8. CASE Persist
    BY <2>8 DEF Persist, Alive, NoOutcome, home, OutcomeIsTrue
  <2>9. CASE Release
    BY <2>9 DEF Release, Alive, Persisted, NoOutcome, history, OutcomeIsTrue
  <2>10. CASE Refuse
    BY <2>10 DEF Refuse, Alive, OutcomeIsTrue, NoOutcome
  <2>11. CASE Stage
    BY <2>11 DEF Stage, Alive, history, OutcomeIsTrue, NoOutcome
  <2>12. CASE Leave
    BY <2>12 DEF Leave, NoOutcome, Ended, home, OutcomeIsTrue
  <2>13. CASE Die
    BY <2>13 DEF Die, Alive, Ended, home, OutcomeIsTrue, NoOutcome
  <2>14. CASE Kill
    BY <2>14 DEF Kill, Alive, Ended, home, history, OutcomeIsTrue, NoOutcome
  <2>15. ASSUME NEW v \in Versions, Push(v) PROVE OutcomeIsTrue'
    BY <2>15 DEF Push, home, history, OutcomeIsTrue, NoOutcome
  <2>16. CASE Blackout
    BY <2>16 DEF Blackout, NoTrial, Ended, home, OutcomeIsTrue, NoOutcome
  <2>17. CASE Start \/ TakeNext \/ Swap \/ Clear \/ SwapRuntime \/ ClearRuntime \/
         HealthTimeout \/ Undo \/ Forget \/ Install \/ (\E r \in Runtimes : StageRuntime(r))
    BY <2>17 DEF Start, home, agent, history, TakeNext, Swap, Clear, SwapRuntime,
       ClearRuntime, HealthTimeout, Undo, Forget, Install, StageRuntime, OutcomeIsTrue,
       NoOutcome
  <2>18. CASE UNCHANGED vars
    BY <2>18 DEF vars, home, agent, history, OutcomeIsTrue, NoOutcome
  <2> QED
    BY <2>1, <2>2, <2>3, <2>4, <2>5, <2>6, <2>7, <2>8, <2>9, <2>10, <2>11, <2>12, <2>13,
       <2>14, <2>15, <2>16, <2>17, <2>18 DEF Next, LauncherStep, AgentStep
<1> QED
  BY <1>1, <1>2, TypeCorrect, ControlHolds, StagingHolds, TryingHolds, AgentKeptHolds,
     RuntimeKeptHolds, AgentTriedHolds, RuntimeTriedHolds, PTL DEF Spec

-----------------------------------------------------------------------------
(* What they come to.                                                      *)

\* With nothing on trial, the version and the runtime that the launcher runs both opened a
\* session, whatever stopped between whichever writes.
THEOREM SettledIsProvenHolds == Spec => []SettledIsProven
<1>1. AgentKept /\ RuntimeKept => SettledIsProven
  BY DEF AgentKept, RuntimeKept, SettledIsProven, NoTrial
<1> QED
  BY <1>1, AgentKeptHolds, RuntimeKeptHolds, PTL

\* Until an agent has it in its journal, the last outcome is in one of its two files.
THEOREM LastOutcomeKeptHolds == Spec => []LastOutcomeKept
<1>1. OutcomeMoves => LastOutcomeKept
  BY DEF OutcomeMoves, LastOutcomeKept
<1> QED
  BY <1>1, OutcomeMovesHolds, PTL

=============================================================================

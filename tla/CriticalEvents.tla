---------------------------- MODULE CriticalEvents ----------------------------
(***************************************************************************)
(* Delivery of critical events from an agent to the panel.                 *)
(*                                                                         *)
(* The agent (apps/agent/src/connection/connection.ts) journals a critical *)
(* event in its state file, sends it if a session is up, and replays its   *)
(* whole journal at the start of every session until the panel's event.ack *)
(* removes the event.  The panel (apps/panel/src/agents/session.ts) claims *)
(* the event id in the table processed_events, applies the event in a later*)
(* microtask, and acknowledges in batches, also for an id it already knows.*)
(*                                                                         *)
(* An event is its number in emission order, and the journal a set of them:*)
(* pushes go to its end and acknowledgements only remove, so its order is  *)
(* the order of the numbers.  A session is the number of the connection the*)
(* agent dialled; each has a FIFO channel per direction.                   *)
(* Crashes, disconnections and failed disk writes are faults, at most      *)
(* MaxFaults of them.                                                      *)
(***************************************************************************)
EXTENDS Integers, Sequences, FiniteSets, SequencesExt

CONSTANTS N,            \* number of critical events the agent emits
          MaxFaults,    \* number of crashes, cuts and failed writes
          MaxPending,   \* cap on the journal (10 000 in the code)
          AckBatch      \* acknowledgements flushed at once (50 in the code)

ASSUME CriticalEventsAssumption ==
    /\ N \in Nat
    /\ MaxFaults \in Nat
    /\ MaxPending \in Nat \ {0}
    /\ AckBatch \in Nat \ {0}

Events == 1..N

(* A late auth.hello of an abandoned connection can supersede a newer      *)
(* session once, hence two connections per fault and a last one.           *)
Sessions == 1..(2 * MaxFaults + 1)

(* What the journal can hold under its cap.                                *)
Journals == {j \in SUBSET Events : Cardinality(j) <= MaxPending}

(* A connection at the panel: its auth.hello not yet handled, attached,     *)
(* closing (superseded or timed out, the socket may still deliver), gone.  *)
SessStates == {"none", "hello", "open", "closing", "gone"}

VARIABLES
    emitted,    \* number of events emitted so far
    mem,        \* the agent's pendingEvents, in memory
    disk,       \* pendingEvents in agent-state.json
    wanted,     \* a write is chained that has not taken its snapshot yet
    writing,    \* a write is under way
    snapshot,   \* what that write will leave on disk
    rejected,   \* a write failed: the promise chain stays rejected
    phase,      \* the agent's connection loop
    cur,        \* the connection the agent dialled last
    sess,       \* the panel's view of each connection
    up, down,   \* the two channels of each connection
    claimed,    \* the table processed_events
    applying,   \* <<session, event>>: claimed, its handler has not ended
    acks,       \* pendingAcks of each panel session
    applied,    \* how many times the handler of an event took effect
    failed,     \* events whose handler threw
    dropped,    \* events the cap pushed out of the journal
    durable,    \* events that have been on the agent's disk
    faults      \* faults so far

agentVars == <<emitted, mem, disk, wanted, writing, snapshot, rejected, phase,
               cur, dropped, durable>>
panelVars == <<sess, claimed, applying, acks, applied, failed>>
vars == <<agentVars, panelVars, up, down, faults>>

TypeOK ==
    /\ emitted \in 0..N
    /\ mem \in Journals /\ disk \in Journals /\ snapshot \in Journals
    /\ wanted \in BOOLEAN /\ writing \in BOOLEAN /\ rejected \in BOOLEAN
    /\ phase \in {"offline", "dialing", "online"}
    /\ cur \in {0} \cup Sessions
    /\ sess \in [Sessions -> SessStates]
    /\ up \in [Sessions -> Seq(Events)]
    /\ down \in [Sessions -> Seq(SUBSET Events)]
    /\ claimed \in SUBSET Events
    /\ applying \in SUBSET (Sessions \X Events)
    /\ acks \in [Sessions -> Seq(Events)]
    /\ applied \in [Events -> Nat]
    /\ failed \in SUBSET Events
    /\ dropped \in SUBSET Events
    /\ durable \in SUBSET Events
    /\ faults \in 0..MaxFaults

Init ==
    /\ emitted = 0
    /\ mem = {} /\ disk = {} /\ snapshot = {}
    /\ wanted = FALSE /\ writing = FALSE /\ rejected = FALSE
    /\ phase = "offline" /\ cur = 0
    /\ sess = [s \in Sessions |-> "none"]
    /\ up = [s \in Sessions |-> <<>>]
    /\ down = [s \in Sessions |-> <<>>]
    /\ claimed = {} /\ applying = {}
    /\ acks = [s \in Sessions |-> <<>>]
    /\ applied = [e \in Events |-> 0]
    /\ failed = {} /\ dropped = {} /\ durable = {}
    /\ faults = 0

-----------------------------------------------------------------------------
(* The agent's journal and its connection.                                 *)

(* Mutant of Pushed: the cap is not enforced.                              *)
PushedUncapped(j, e) == {j \cup {e}}

(* pendingEvents with e pushed: over the cap, the oldest entry falls out.  *)
Pushed(j, e) ==
    LET q == j \cup {e}
    IN  IF Cardinality(q) <= MaxPending
        THEN {q}
        ELSE {q \ {o} : o \in {x \in q : \A y \in q : x <= y}}

(* Mutant of Sent: the frame leaves as soon as the socket is open, before   *)
(* the session is set and the journal replayed.                            *)
SentBeforeSession(e) ==
    IF phase # "offline" THEN [up EXCEPT ![cur] = Append(@, e)] ELSE up

(* The frame of e, if a session is up.                                     *)
Sent(e) == IF phase = "online" THEN [up EXCEPT ![cur] = Append(@, e)] ELSE up

(* A journal read in its order.                                            *)
InOrder(j) ==
    {q \in [1..Cardinality(j) -> j] :
        /\ ToSet(q) = j
        /\ \A i, k \in 1..Cardinality(j) : i < k => q[i] < q[k]}

(* emit of a critical event: journalled, a write chained, and the frame    *)
(* sent if a session is up.                                                *)
Emit ==
    /\ emitted < N
    /\ emitted' = emitted + 1
    /\ mem' \in Pushed(mem, emitted + 1)
    /\ dropped' = dropped \cup ((mem \cup {emitted + 1}) \ mem')
    /\ up' = Sent(emitted + 1)
    /\ wanted' = TRUE
    /\ UNCHANGED <<disk, writing, snapshot, rejected, phase, cur, durable,
                   panelVars, down, faults>>

(* Mutant of Acknowledge: any acknowledgement empties the journal.         *)
AcknowledgeAll(s) ==
    /\ down[s] # <<>>
    /\ mem' = {}
    /\ down' = [down EXCEPT ![s] = Tail(@)]
    /\ wanted' = TRUE
    /\ UNCHANGED <<emitted, disk, writing, snapshot, rejected, phase, cur,
                   dropped, durable, panelVars, up, faults>>

(* event.ack: the acknowledged events leave the journal.                   *)
Acknowledge(s) ==
    /\ down[s] # <<>>
    /\ mem' = mem \ Head(down[s])
    /\ down' = [down EXCEPT ![s] = Tail(@)]
    /\ wanted' = TRUE
    /\ UNCHANGED <<emitted, disk, writing, snapshot, rejected, phase, cur,
                   dropped, durable, panelVars, up, faults>>

(* The chained writeNow starts: it copies the state as it is now.          *)
StartWrite ==
    /\ wanted /\ ~writing /\ ~rejected
    /\ wanted' = FALSE
    /\ writing' = TRUE
    /\ snapshot' = mem
    /\ UNCHANGED <<emitted, mem, disk, rejected, phase, cur, dropped, durable,
                   panelVars, up, down, faults>>

(* The rename that makes the snapshot the state file.                      *)
FinishWrite ==
    /\ writing
    /\ writing' = FALSE
    /\ disk' = snapshot
    /\ durable' = durable \cup snapshot
    /\ UNCHANGED <<emitted, mem, wanted, snapshot, rejected, phase, cur,
                   dropped, panelVars, up, down, faults>>

(* The write throws: later saves chain on a rejected promise and never run.*)
(* If the error is ENOENT it is swallowed and later saves do run, but what *)
(* this one was to write is not marked dirty again.                        *)
FailWrite ==
    /\ writing /\ faults < MaxFaults
    /\ writing' = FALSE
    /\ rejected' \in BOOLEAN
    /\ faults' = faults + 1
    /\ UNCHANGED <<emitted, mem, disk, wanted, snapshot, phase, cur, dropped,
                   durable, panelVars, up, down>>

(* runSession: the socket opens and auth.hello is sent.                    *)
Dial ==
    /\ phase = "offline"
    /\ cur + 1 \in Sessions
    /\ phase' = "dialing"
    /\ cur' = cur + 1
    /\ sess' = [sess EXCEPT ![cur + 1] = "hello"]
    /\ UNCHANGED <<emitted, mem, disk, wanted, writing, snapshot, rejected,
                   dropped, durable, claimed, applying, acks, applied, failed,
                   up, down, faults>>

(* Mutant of Establish: the journal is not replayed.                       *)
EstablishWithoutReplay ==
    /\ phase = "dialing"
    /\ sess[cur] \in {"open", "closing"}
    /\ phase' = "online"
    /\ UNCHANGED <<emitted, mem, disk, wanted, writing, snapshot, rejected, cur,
                   dropped, durable, panelVars, up, down, faults>>

(* The answers to auth.hello and sync.state are in: the session is set and *)
(* the whole journal replayed, in order, before anything else runs.        *)
Establish ==
    /\ phase = "dialing"
    /\ sess[cur] \in {"open", "closing"}
    /\ phase' = "online"
    /\ \E q \in InOrder(mem) : up' = [up EXCEPT ![cur] = @ \o q]
    /\ UNCHANGED <<emitted, mem, disk, wanted, writing, snapshot, rejected, cur,
                   dropped, durable, panelVars, down, faults>>

(* The agent sees its socket closed, because the panel closed it ...       *)
NoticeClose ==
    /\ phase # "offline"
    /\ sess[cur] \in {"closing", "gone"}
    /\ phase' = "offline"
    /\ UNCHANGED <<emitted, mem, disk, wanted, writing, snapshot, rejected, cur,
                   dropped, durable, panelVars, up, down, faults>>

(* ... or because the network cut it; the panel may not know yet.          *)
CutAtAgent ==
    /\ phase # "offline" /\ faults < MaxFaults
    /\ phase' = "offline"
    /\ faults' = faults + 1
    /\ UNCHANGED <<emitted, mem, disk, wanted, writing, snapshot, rejected, cur,
                   dropped, durable, panelVars, up, down>>

(* The agent process dies and starts again: its memory is what load() finds*)
(* on disk.                                                                *)
AgentRestart ==
    /\ faults < MaxFaults
    /\ mem' = disk
    /\ wanted' = FALSE /\ writing' = FALSE /\ rejected' = FALSE
    /\ phase' = "offline"
    /\ down' = [s \in Sessions |-> <<>>]
    /\ faults' = faults + 1
    /\ UNCHANGED <<emitted, disk, snapshot, cur, dropped, durable, panelVars, up>>

-----------------------------------------------------------------------------
(* The panel's session.                                                    *)

(* auth.hello: the registry keeps the newest session and closes the other. *)
Attach(s) ==
    /\ sess[s] = "hello"
    /\ sess' = [t \in Sessions |-> IF t = s THEN "open"
                                   ELSE IF sess[t] = "open" THEN "closing"
                                   ELSE sess[t]]
    /\ UNCHANGED <<agentVars, claimed, applying, acks, applied, failed, up,
                   down, faults>>

(* flushAcks: one event.ack with everything queued.                        *)
SendAcks(s, q) ==
    /\ acks' = [acks EXCEPT ![s] = <<>>]
    /\ down' = IF sess[s] = "open"
               THEN [down EXCEPT ![s] = Append(@, ToSet(q))] ELSE down

(* queueAck: a full batch leaves at once, a smaller one waits for the timer*)
QueueAck(s, e) ==
    LET q == Append(acks[s], e)
    IN  IF Len(q) >= AckBatch
        THEN SendAcks(s, q)
        ELSE /\ acks' = [acks EXCEPT ![s] = q]
             /\ UNCHANGED down

(* Mutant of Receive: the handler runs without looking at the claim.       *)
ReceiveWithoutClaim(s) ==
    /\ up[s] # <<>>
    /\ sess[s] \in {"open", "closing"}
    /\ up' = [up EXCEPT ![s] = Tail(@)]
    /\ claimed' = claimed \cup {Head(up[s])}
    /\ applying' = applying \cup {<<s, Head(up[s])>>}
    /\ UNCHANGED <<agentVars, sess, acks, down, applied, failed, faults>>

(* Mutant of Receive: a duplicate is ignored, not acknowledged again.      *)
ReceiveWithoutReack(s) ==
    /\ up[s] # <<>>
    /\ sess[s] \in {"open", "closing"}
    /\ up' = [up EXCEPT ![s] = Tail(@)]
    /\ LET e == Head(up[s])
       IN  \/ /\ e \in claimed
              /\ UNCHANGED <<claimed, applying>>
           \/ /\ e \notin claimed
              /\ claimed' = claimed \cup {e}
              /\ applying' = applying \cup {<<s, e>>}
    /\ UNCHANGED <<agentVars, sess, acks, down, applied, failed, faults>>

(* critical(): an id already claimed is only acknowledged again; a new one *)
(* is claimed before its handler runs.  A closing socket still delivers.   *)
Receive(s) ==
    /\ up[s] # <<>>
    /\ sess[s] \in {"open", "closing"}
    /\ up' = [up EXCEPT ![s] = Tail(@)]
    /\ LET e == Head(up[s])
       IN  \/ /\ e \in claimed
              /\ QueueAck(s, e)
              /\ UNCHANGED <<claimed, applying>>
           \/ /\ e \notin claimed
              /\ claimed' = claimed \cup {e}
              /\ applying' = applying \cup {<<s, e>>}
              /\ UNCHANGED <<acks, down>>
    /\ UNCHANGED <<agentVars, sess, applied, failed, faults>>

(* The handler ends, with its effect or by throwing; acknowledged anyway.  *)
Apply(s, e) ==
    /\ <<s, e>> \in applying
    /\ applying' = applying \ {<<s, e>>}
    /\ \/ /\ applied' = [applied EXCEPT ![e] = @ + 1]
          /\ UNCHANGED failed
       \/ /\ failed' = failed \cup {e}
          /\ UNCHANGED applied
    /\ QueueAck(s, e)
    /\ UNCHANGED <<agentVars, sess, claimed, up, faults>>

(* The 50 ms timer; closing the session clears it.                         *)
FlushAcks(s) ==
    /\ sess[s] = "open" /\ acks[s] # <<>>
    /\ SendAcks(s, acks[s])
    /\ UNCHANGED <<agentVars, sess, claimed, applying, applied, failed, up,
                   faults>>

(* The panel loses the connection, or its heartbeat watchdog closes it.    *)
CutAtPanel(s) ==
    /\ sess[s] \in {"hello", "open"} /\ faults < MaxFaults
    /\ sess' = [sess EXCEPT ![s] = IF @ = "hello" THEN "gone" ELSE "closing"]
    /\ faults' = faults + 1
    /\ UNCHANGED <<agentVars, claimed, applying, acks, applied, failed, up,
                   down>>

(* Mutant of PanelRestart: the claims were only in memory.                 *)
PanelRestartForgetsClaims ==
    /\ faults < MaxFaults
    /\ sess' = [s \in Sessions |-> IF sess[s] = "none" THEN "none" ELSE "gone"]
    /\ claimed' = {}
    /\ applying' = {}
    /\ acks' = [s \in Sessions |-> <<>>]
    /\ up' = [s \in Sessions |-> <<>>]
    /\ faults' = faults + 1
    /\ UNCHANGED <<agentVars, applied, failed, down>>

(* The panel process dies: only its database survives.                     *)
PanelRestart ==
    /\ faults < MaxFaults
    /\ sess' = [s \in Sessions |-> IF sess[s] = "none" THEN "none" ELSE "gone"]
    /\ applying' = {}
    /\ acks' = [s \in Sessions |-> <<>>]
    /\ up' = [s \in Sessions |-> <<>>]
    /\ faults' = faults + 1
    /\ UNCHANGED <<agentVars, claimed, applied, failed, down>>

AgentNext ==
    \/ Emit \/ StartWrite \/ FinishWrite \/ FailWrite
    \/ Dial \/ Establish \/ NoticeClose \/ CutAtAgent \/ AgentRestart
    \/ \E s \in Sessions : Acknowledge(s)

PanelNext ==
    \/ \E s \in Sessions : Attach(s) \/ Receive(s) \/ FlushAcks(s) \/ CutAtPanel(s)
    \/ \E s \in Sessions, e \in Events : Apply(s, e)
    \/ PanelRestart

Next == AgentNext \/ PanelNext

Spec == Init /\ [][Next]_vars

(* What the event loops and timers of the two processes guarantee: chained *)
(* writes run, the connection loop redials, the panel handles what arrives *)
(* on the agent's last connection, handlers end, the ack timer fires.      *)
Fairness ==
    /\ WF_vars(StartWrite) /\ WF_vars(FinishWrite)
    /\ WF_vars(Dial) /\ WF_vars(Establish) /\ WF_vars(NoticeClose)
    /\ \A s \in Sessions :
          /\ WF_vars(cur = s /\ Attach(s))
          /\ WF_vars(sess[s] = "open" /\ Receive(s))
          /\ WF_vars(FlushAcks(s))
          /\ WF_vars(cur = s /\ Acknowledge(s))
          /\ \A e \in Events : WF_vars(Apply(s, e))

FairSpec == Spec /\ Fairness

-----------------------------------------------------------------------------
(* Safety.                                                                 *)

(* The handler of a critical event takes effect at most once, whatever the *)
(* replays, the superseded sessions and the crashes of both processes.     *)
AtMostOnce == \A e \in Events : applied[e] <= 1

(* An event.ack, queued or under way, only names events the panel claimed: *)
(* acknowledging one makes the agent forget it for good.                   *)
AckedOnlyIfClaimed ==
    \A s \in Sessions :
        /\ ToSet(acks[s]) \subseteq claimed
        /\ \A i \in 1..Len(down[s]) : down[s][i] \subseteq claimed

(* An event that reached the agent's disk stays in its journal, in memory  *)
(* and on disk, until the panel claimed it or the cap dropped it.          *)
NothingForgotten ==
    durable \subseteq claimed \cup dropped \cup (mem \cap disk)

(* Nothing is missed: an event that was on the agent's disk is still in its*)
(* journal, or its handler is running, or it ran (docs/05-protocole.md,    *)
(* section 6, on event.ack).                                               *)
NothingMissed ==
    \A e \in durable \ dropped :
        \/ e \in mem \/ applied[e] > 0 \/ e \in failed
        \/ \E s \in Sessions : <<s, e>> \in applying

(* Events are claimed in emission order: none is claimed while an earlier  *)
(* one, still in the journal and never dropped by the cap, is unclaimed.   *)
ClaimedInOrder ==
    [][\A e \in claimed' \ claimed : \A f \in mem \ (claimed \cup dropped) :
          f >= e]_vars

(* What makes the four of them inductive.                                  *)

(* A handler runs for a claimed event only, in one session, and never for  *)
(* an event that was already applied.                                      *)
ClaimsExact ==
    \A e \in Events :
        /\ applied[e] <= 1
        /\ applied[e] > 0 => e \in claimed
        /\ \A s \in Sessions : <<s, e>> \in applying => e \in claimed /\ applied[e] = 0
        /\ \A s, t \in Sessions :
              <<s, e>> \in applying /\ <<t, e>> \in applying => s = t

(* The snapshot of a write under way misses nothing that is durable.       *)
JournalCovers ==
    /\ NothingForgotten
    /\ disk \subseteq durable
    /\ writing => /\ snapshot \subseteq mem \cup claimed \cup dropped
                  /\ durable \subseteq claimed \cup dropped \cup snapshot

(* The events still to be claimed.                                         *)
Unclaimed == mem \ (claimed \cup dropped)

(* In the channel q every event of P comes before the later ones.          *)
Precede(q, P) ==
    \A i \in 1..Len(q), f \in P : f < q[i] => \E j \in 1..(i - 1) : q[j] = f

(* The channel q carries every event of P.                                 *)
Carries(q, P) == \A f \in P : \E j \in 1..Len(q) : q[j] = f

(* On a socket that can still deliver, every unclaimed event precedes the  *)
(* later ones; a session that is up has sent all of them.                  *)
ChannelsInOrder ==
    /\ mem \cup disk \cup snapshot \subseteq 1..emitted
    /\ \A s \in Sessions : \A i \in 1..Len(up[s]) : up[s][i] <= emitted
    /\ phase # "offline" => cur \in Sessions
    /\ phase = "online" => sess[cur] # "none"
    /\ phase = "dialing" => up[cur] = <<>>
    /\ \A s \in Sessions : s > cur => up[s] = <<>> /\ sess[s] = "none"
    /\ \A s \in Sessions : sess[s] # "gone" => Precede(up[s], Unclaimed)
    /\ phase = "online" /\ sess[cur] # "gone" => Carries(up[cur], Unclaimed)

-----------------------------------------------------------------------------
(* The refinement of Delivery.                                             *)

(* What became of an event: its number is drawn, the panel claimed it, its *)
(* handler runs, ended, or died with the panel.                            *)
StatusOf(e) ==
    IF e > emitted THEN "unborn"
    ELSE IF e \notin claimed THEN "waiting"
    ELSE IF applied[e] > 0 THEN "handled"
    ELSE IF e \in failed THEN "failed"
    ELSE IF \E s \in Sessions : <<s, e>> \in applying THEN "taken"
    ELSE "missed"

Mailbox == INSTANCE Delivery WITH
    status <- [e \in Events |-> StatusOf(e)],
    owed   <- Unclaimed,
    safe   <- durable \ (claimed \cup dropped)

(* The two processes, with their sessions, channels, disks and crashes,    *)
(* implement the mailbox: a replay, a duplicate, a write or an             *)
(* acknowledgement is invisible to it, a crash of the agent gives up only  *)
(* what was never on its disk.                                             *)
Implements == Mailbox!Spec

(* What the implementation needs besides the invariants above.             *)
NumbersDrawn ==
    /\ claimed \cup dropped \cup durable \subseteq 1..emitted
    /\ failed \subseteq claimed
    /\ \A e \in failed, s \in Sessions : <<s, e>> \notin applying

(* Liveness, under FairSpec.                                               *)

(* Once on disk, an event reaches the panel unless the cap dropped it.     *)
DurableIsClaimed ==
    \A e \in Events : (e \in durable) ~> (e \in claimed \cup dropped)

(* The journal empties once faults stop: a claimed event is acknowledged   *)
(* again at every replay until an acknowledgement gets through.            *)
JournalDrains == <>[](mem = {})
=============================================================================

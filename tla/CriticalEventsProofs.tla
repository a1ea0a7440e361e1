------------------------- MODULE CriticalEventsProofs -------------------------
(***************************************************************************)
(* Proofs about CriticalEvents for every number of events, every number of *)
(* faults, every cap and every batch size.                                 *)
(***************************************************************************)
EXTENDS CriticalEvents, FiniteSetTheorems, TLAPS

(* What a chain of sends, a cut of a head and a batch do to the channels.  *)

(* Appending adds one element to the elements of a sequence.               *)
LEMMA AppendElements ==
    ASSUME NEW S, NEW q \in Seq(S), NEW e \in S
    PROVE  /\ Append(q, e) \in Seq(S)
           /\ ToSet(Append(q, e)) = ToSet(q) \cup {e}
<1>1. DOMAIN Append(q, e) = 1..(Len(q) + 1) /\ DOMAIN q = 1..Len(q)
  OBVIOUS
<1>2. \A i \in 1..Len(q) : Append(q, e)[i] = q[i]
  OBVIOUS
<1>3. Append(q, e)[Len(q) + 1] = e
  OBVIOUS
<1>4. ToSet(Append(q, e)) \subseteq ToSet(q) \cup {e}
  BY <1>1, <1>2, <1>3 DEF ToSet
<1>5. ToSet(q) \cup {e} \subseteq ToSet(Append(q, e))
  BY <1>1, <1>2, <1>3 DEF ToSet
<1> QED
  BY <1>4, <1>5

(* The elements of a sequence over S are in S.                             *)
LEMMA ElementsIn ==
    ASSUME NEW S, NEW q \in Seq(S)
    PROVE  ToSet(q) \subseteq S
BY DEF ToSet

(* Replacing the channel of one session by a channel.                      *)
LEMMA ChannelUpdate ==
    ASSUME NEW S, NEW f \in [Sessions -> Seq(S)], NEW s, NEW q \in Seq(S)
    PROVE  [f EXCEPT ![s] = q] \in [Sessions -> Seq(S)]
OBVIOUS

(* All channels emptied.                                                   *)
LEMMA EmptyChannels ==
    ASSUME NEW S
    PROVE  [s \in Sessions |-> <<>>] \in [Sessions -> Seq(S)]
<1>1. <<>> \in Seq(S)
  OBVIOUS
<1> QED
  BY <1>1

(* A journal is finite, and so is what an acknowledgement leaves of it.    *)
LEMMA JournalSubset ==
    ASSUME NEW j \in Journals, NEW k \in SUBSET j
    PROVE  k \in Journals /\ IsFiniteSet(j)
<1>1. IsFiniteSet(Events)
  BY FS_Interval, CriticalEventsAssumption DEF Events
<1>2. j \in SUBSET Events /\ Cardinality(j) <= MaxPending
  BY DEF Journals
<1>3. IsFiniteSet(j)
  BY <1>1, <1>2, FS_Subset
<1>4. IsFiniteSet(k) /\ Cardinality(k) <= Cardinality(j)
  BY <1>3, FS_Subset
<1>5. Cardinality(k) \in Nat /\ Cardinality(j) \in Nat
  BY <1>3, <1>4, FS_CardinalityType
<1> QED
  BY <1>2, <1>3, <1>4, <1>5, CriticalEventsAssumption DEF Journals

(* A push keeps the journal under its cap.                                 *)
LEMMA PushedIsJournal ==
    ASSUME NEW j \in Journals, NEW e \in Events, NEW p \in Pushed(j, e)
    PROVE  p \in Journals /\ p \subseteq j \cup {e}
<1> DEFINE q == j \cup {e}
<1>1. IsFiniteSet(j) /\ Cardinality(j) <= MaxPending /\ q \in SUBSET Events
  BY JournalSubset DEF Journals
<1>2. /\ IsFiniteSet(q)
      /\ Cardinality(q) = IF e \in j THEN Cardinality(j) ELSE Cardinality(j) + 1
  BY <1>1, FS_AddElement
<1>3. Cardinality(q) \in Nat /\ Cardinality(j) \in Nat
  BY <1>1, <1>2, FS_CardinalityType
<1>4. CASE Cardinality(q) <= MaxPending
  BY <1>1, <1>4 DEF Pushed, Journals
<1>5. CASE ~(Cardinality(q) <= MaxPending)
  <2>1. PICK o \in q : p = q \ {o}
    BY <1>5 DEF Pushed
  <2>2. Cardinality(p) = Cardinality(q) - 1
    BY <1>2, <2>1, FS_RemoveElement
  <2> QED
    BY <1>1, <1>2, <1>3, <2>1, <2>2, CriticalEventsAssumption DEF Journals
<1> QED
  BY <1>4, <1>5

(* The type invariant is inductive.                                        *)
THEOREM TypeCorrect == Spec => []TypeOK
<1>1. Init => TypeOK
  <2> SUFFICES ASSUME Init PROVE TypeOK
    OBVIOUS
  <2>1. {} \in Journals
    BY FS_EmptySet, CriticalEventsAssumption DEF Journals
  <2>2. /\ up \in [Sessions -> Seq(Events)]
        /\ acks \in [Sessions -> Seq(Events)]
        /\ down \in [Sessions -> Seq(SUBSET Events)]
    BY EmptyChannels DEF Init
  <2>3. /\ emitted \in 0..N /\ faults \in 0..MaxFaults
        /\ applied \in [Events -> Nat] /\ sess \in [Sessions -> SessStates]
    BY CriticalEventsAssumption DEF Init, SessStates
  <2> QED
    BY <2>1, <2>2, <2>3 DEF Init, TypeOK
<1>2. TypeOK /\ [Next]_vars => TypeOK'
  <2> SUFFICES ASSUME TypeOK, [Next]_vars PROVE TypeOK'
    OBVIOUS
  <2> USE CriticalEventsAssumption
  <2>1. CASE Emit
    <3>1. emitted + 1 \in Events /\ emitted' \in 0..N
      BY <2>1 DEF Emit, TypeOK, Events
    <3>2. mem' \in Journals
      BY <2>1, <3>1, PushedIsJournal DEF Emit, TypeOK
    <3>3. up' \in [Sessions -> Seq(Events)]
      <4>1. CASE phase = "online" /\ cur \in Sessions
        <5>1. Append(up[cur], emitted + 1) \in Seq(Events)
          BY <3>1, <4>1, AppendElements DEF TypeOK
        <5> QED
          BY <2>1, <4>1, <5>1, ChannelUpdate DEF Emit, Sent, TypeOK
      <4>2. CASE ~(phase = "online" /\ cur \in Sessions)
        BY <2>1, <4>2 DEF Emit, Sent, TypeOK
      <4> QED
        BY <4>1, <4>2
    <3>4. dropped' \in SUBSET Events
      BY <2>1, <3>1 DEF Emit, TypeOK, Journals
    <3> QED
      BY <2>1, <3>1, <3>2, <3>3, <3>4 DEF Emit, TypeOK, panelVars
  <2>2. CASE StartWrite
    BY <2>2 DEF StartWrite, TypeOK, panelVars
  <2>3. CASE FinishWrite
    BY <2>3 DEF FinishWrite, TypeOK, panelVars, Journals
  <2>4. CASE FailWrite
    <3>1. faults' \in 0..MaxFaults
      BY <2>4 DEF FailWrite, TypeOK
    <3> QED
      BY <2>4, <3>1 DEF FailWrite, TypeOK, panelVars
  <2>5. CASE Dial
    BY <2>5 DEF Dial, TypeOK, SessStates
  <2>6. CASE Establish
    <3>1. PICK q \in InOrder(mem) : up' = [up EXCEPT ![cur] = @ \o q]
      BY <2>6 DEF Establish
    <3>2. Cardinality(mem) \in Nat
      BY JournalSubset, FS_CardinalityType DEF TypeOK
    <3>3. q \in Seq(Events)
      <4>1. q \in [1..Cardinality(mem) -> Events]
        BY <3>1 DEF InOrder, TypeOK, Journals
      <4> QED
        BY <3>2, <4>1
    <3>4. up' \in [Sessions -> Seq(Events)]
      <4>1. CASE cur \in Sessions
        <5>1. up[cur] \o q \in Seq(Events)
          BY <3>3, <4>1 DEF TypeOK
        <5> QED
          BY <3>1, <4>1, <5>1, ChannelUpdate DEF TypeOK
      <4>2. CASE cur \notin Sessions
        BY <3>1, <4>2 DEF TypeOK
      <4> QED
        BY <4>1, <4>2
    <3> QED
      BY <2>6, <3>4 DEF Establish, TypeOK, panelVars
  <2>7. CASE NoticeClose
    BY <2>7 DEF NoticeClose, TypeOK, panelVars
  <2>8. CASE CutAtAgent
    BY <2>8 DEF CutAtAgent, TypeOK, panelVars
  <2>9. CASE AgentRestart
    <3>1. down' \in [Sessions -> Seq(SUBSET Events)]
      BY <2>9, EmptyChannels DEF AgentRestart
    <3>2. faults' \in 0..MaxFaults
      BY <2>9 DEF AgentRestart, TypeOK
    <3> QED
      BY <2>9, <3>1, <3>2 DEF AgentRestart, TypeOK, panelVars
  <2>10. ASSUME NEW s \in Sessions, Acknowledge(s) PROVE TypeOK'
    <3>1. mem' \in Journals
      BY <2>10, JournalSubset DEF Acknowledge, TypeOK
    <3>2. down' \in [Sessions -> Seq(SUBSET Events)]
      BY <2>10 DEF Acknowledge, TypeOK
    <3> QED
      BY <2>10, <3>1, <3>2 DEF Acknowledge, TypeOK, panelVars
  <2>11. ASSUME NEW s \in Sessions, Attach(s) PROVE TypeOK'
    BY <2>11 DEF Attach, TypeOK, agentVars, SessStates
  <2>12. ASSUME NEW s \in Sessions, NEW e \in Events, QueueAck(s, e)
         PROVE  /\ acks' \in [Sessions -> Seq(Events)]
                /\ down' \in [Sessions -> Seq(SUBSET Events)]
    <3>1. Append(acks[s], e) \in Seq(Events) /\ ToSet(Append(acks[s], e)) \in SUBSET Events
      BY AppendElements, ElementsIn DEF TypeOK
    <3>2. <<>> \in Seq(Events)
      OBVIOUS
    <3>3. Append(down[s], ToSet(Append(acks[s], e))) \in Seq(SUBSET Events)
      BY <3>1, AppendElements DEF TypeOK
    <3> QED
      BY <2>12, <3>1, <3>2, <3>3, ChannelUpdate DEF QueueAck, SendAcks, TypeOK
  <2>13. ASSUME NEW s \in Sessions, Receive(s) PROVE TypeOK'
    <3>1. Head(up[s]) \in Events /\ up' \in [Sessions -> Seq(Events)]
      BY <2>13 DEF Receive, TypeOK
    <3>2. CASE Head(up[s]) \in claimed
      <4>1. QueueAck(s, Head(up[s])) /\ UNCHANGED <<claimed, applying>>
        BY <2>13, <3>2 DEF Receive
      <4> QED
        BY <2>12, <2>13, <3>1, <4>1 DEF Receive, TypeOK, agentVars
    <3>3. CASE Head(up[s]) \notin claimed
      BY <2>13, <3>1, <3>3 DEF Receive, TypeOK, agentVars
    <3> QED
      BY <3>2, <3>3
  <2>14. ASSUME NEW s \in Sessions, FlushAcks(s) PROVE TypeOK'
    <3>1. ToSet(acks[s]) \in SUBSET Events
      BY ElementsIn DEF TypeOK
    <3> QED
      BY <2>14, <3>1 DEF FlushAcks, SendAcks, TypeOK, agentVars
  <2>15. ASSUME NEW s \in Sessions, CutAtPanel(s) PROVE TypeOK'
    BY <2>15 DEF CutAtPanel, TypeOK, agentVars, SessStates
  <2>16. ASSUME NEW s \in Sessions, NEW e \in Events, Apply(s, e) PROVE TypeOK'
    <3>1. QueueAck(s, e)
      BY <2>16 DEF Apply
    <3>2. applied' \in [Events -> Nat]
      <4>1. applied[e] + 1 \in Nat
        BY DEF TypeOK
      <4>2. \/ applied' = [applied EXCEPT ![e] = @ + 1]
            \/ applied' = applied
        BY <2>16 DEF Apply
      <4> QED
        BY <4>1, <4>2 DEF TypeOK
    <3>3. failed' \in SUBSET Events
      BY <2>16 DEF Apply, TypeOK
    <3> QED
      BY <2>12, <2>16, <3>1, <3>2, <3>3 DEF Apply, TypeOK, agentVars
  <2>17. CASE PanelRestart
    BY <2>17 DEF PanelRestart, TypeOK, agentVars, SessStates
  <2>18. CASE UNCHANGED vars
    BY <2>18 DEF vars, agentVars, panelVars, TypeOK
  <2> QED
    BY <2>1, <2>2, <2>3, <2>4, <2>5, <2>6, <2>7, <2>8, <2>9, <2>10, <2>11,
       <2>13, <2>14, <2>15, <2>16, <2>17, <2>18 DEF Next, AgentNext, PanelNext
<1> QED
  BY <1>1, <1>2, PTL DEF Spec

-----------------------------------------------------------------------------
(* Claims.                                                                 *)

(* A handler that runs belongs to one claim.                               *)
THEOREM ClaimsExactHolds == Spec => []ClaimsExact
<1>1. Init => ClaimsExact
  BY DEF Init, ClaimsExact
<1>2. TypeOK /\ ClaimsExact /\ [Next]_vars => ClaimsExact'
  <2> SUFFICES ASSUME TypeOK, ClaimsExact, [Next]_vars PROVE ClaimsExact'
    OBVIOUS
  <2>1. ASSUME NEW s \in Sessions, Receive(s) PROVE ClaimsExact'
    <3> DEFINE e == Head(up[s])
    <3>1. e \in Events /\ UNCHANGED applied
      BY <2>1 DEF Receive, TypeOK
    <3>2. CASE UNCHANGED <<claimed, applying>>
      BY <3>1, <3>2 DEF ClaimsExact
    <3>3. CASE /\ e \notin claimed
               /\ claimed' = claimed \cup {e}
               /\ applying' = applying \cup {<<s, e>>}
      <4>1. applied[e] = 0 /\ \A t \in Sessions : <<t, e>> \notin applying
        <5>1. applied[e] \in Nat /\ ~(applied[e] > 0)
          BY <3>1, <3>3 DEF ClaimsExact, TypeOK
        <5> QED
          BY <3>1, <3>3, <5>1 DEF ClaimsExact
      <4> QED
        BY <3>1, <3>3, <4>1 DEF ClaimsExact
    <3> QED
      BY <2>1, <3>2, <3>3 DEF Receive
  <2>2. ASSUME NEW s \in Sessions, NEW e \in Events, Apply(s, e)
        PROVE  ClaimsExact'
    <3>1. /\ <<s, e>> \in applying
          /\ applying' = applying \ {<<s, e>>}
          /\ UNCHANGED claimed
      BY <2>2 DEF Apply
    <3>2. /\ e \in claimed /\ applied[e] = 0
          /\ \A t \in Sessions : <<t, e>> \notin applying'
      BY <3>1 DEF ClaimsExact
    <3>3. CASE applied' = [applied EXCEPT ![e] = @ + 1]
      <4>1. applied'[e] = 1 /\ \A f \in Events : f # e => applied'[f] = applied[f]
        BY <3>2, <3>3 DEF TypeOK
      <4> QED
        BY <3>1, <3>2, <4>1 DEF ClaimsExact
    <3>4. CASE UNCHANGED applied
      BY <3>1, <3>4 DEF ClaimsExact
    <3> QED
      BY <2>2, <3>3, <3>4 DEF Apply
  <2>3. CASE PanelRestart
    BY <2>3 DEF PanelRestart, ClaimsExact
  <2>4. CASE UNCHANGED <<claimed, applying, applied>>
    BY <2>4 DEF ClaimsExact
  <2>5. ASSUME NEW s \in Sessions,
               Attach(s) \/ FlushAcks(s) \/ CutAtPanel(s) \/ Acknowledge(s)
        PROVE  UNCHANGED <<claimed, applying, applied>>
    BY <2>5 DEF Attach, FlushAcks, CutAtPanel, Acknowledge, panelVars
  <2>6. CASE Emit \/ StartWrite \/ FinishWrite \/ FailWrite \/ Dial \/ Establish
             \/ NoticeClose \/ CutAtAgent \/ AgentRestart \/ UNCHANGED vars
    BY <2>4, <2>6 DEF Emit, StartWrite, FinishWrite, FailWrite, Dial, Establish,
       NoticeClose, CutAtAgent, AgentRestart, vars, panelVars
  <2> QED
    BY <2>1, <2>2, <2>3, <2>4, <2>5, <2>6 DEF Next, AgentNext, PanelNext
<1> QED
  BY <1>1, <1>2, TypeCorrect, PTL DEF Spec

(* No interleaving of replays, superseded sessions and crashes makes the   *)
(* panel apply a critical event twice.                                     *)
THEOREM AtMostOnceHolds == Spec => []AtMostOnce
<1>1. ClaimsExact => AtMostOnce
  BY DEF ClaimsExact, AtMostOnce
<1> QED
  BY <1>1, ClaimsExactHolds, PTL

(* The panel never acknowledges an event it has not claimed.               *)
THEOREM AckedOnlyIfClaimedHolds == Spec => []AckedOnlyIfClaimed
<1>1. Init => AckedOnlyIfClaimed
  BY DEF Init, AckedOnlyIfClaimed, ToSet
<1>2. TypeOK /\ ClaimsExact /\ AckedOnlyIfClaimed /\ [Next]_vars
        => AckedOnlyIfClaimed'
  <2> SUFFICES ASSUME TypeOK, ClaimsExact, AckedOnlyIfClaimed, [Next]_vars
               PROVE  AckedOnlyIfClaimed'
    OBVIOUS
  <2>1. ASSUME NEW s \in Sessions, NEW q \in Seq(Events), SendAcks(s, q),
               ToSet(q) \subseteq claimed, UNCHANGED claimed
        PROVE  AckedOnlyIfClaimed'
    <3>1. \A t \in Sessions : ToSet(acks'[t]) \subseteq claimed
      BY <2>1 DEF SendAcks, AckedOnlyIfClaimed, TypeOK, ToSet
    <3>2. ASSUME NEW t \in Sessions, NEW i \in 1..Len(down'[t])
          PROVE  down'[t][i] \subseteq claimed
      <4>1. CASE t = s /\ sess[s] = "open"
        <5>1. down'[s] = Append(down[s], ToSet(q)) /\ down[s] \in Seq(SUBSET Events)
          BY <2>1, <4>1 DEF SendAcks, TypeOK
        <5>2. ToSet(q) \in SUBSET Events
          BY ElementsIn
        <5>3. CASE i = Len(down[s]) + 1
          BY <2>1, <4>1, <5>1, <5>2, <5>3
        <5>4. CASE i # Len(down[s]) + 1
          <6>1. i \in 1..Len(down[s]) /\ down'[s][i] = down[s][i]
            BY <3>2, <4>1, <5>1, <5>2, <5>4
          <6> QED
            BY <4>1, <6>1 DEF AckedOnlyIfClaimed
        <5> QED
          BY <5>3, <5>4
      <4>2. CASE ~(t = s /\ sess[s] = "open")
        <5>1. down'[t] = down[t]
          BY <2>1, <4>2 DEF SendAcks, TypeOK
        <5> QED
          BY <3>2, <5>1 DEF AckedOnlyIfClaimed
      <4> QED
        BY <4>1, <4>2
    <3> QED
      BY <2>1, <3>1, <3>2 DEF AckedOnlyIfClaimed
  <2>2. ASSUME NEW s \in Sessions, NEW e \in claimed, QueueAck(s, e),
               UNCHANGED claimed
        PROVE  AckedOnlyIfClaimed'
    <3> DEFINE q == Append(acks[s], e)
    <3>1. e \in Events /\ acks[s] \in Seq(Events)
      BY <2>2 DEF TypeOK
    <3>2. q \in Seq(Events) /\ ToSet(q) \subseteq claimed
      BY <2>2, <3>1, AppendElements DEF AckedOnlyIfClaimed
    <3>3. CASE Len(q) >= AckBatch
      BY <2>1, <2>2, <3>2, <3>3 DEF QueueAck
    <3>4. CASE ~(Len(q) >= AckBatch)
      <4>1. acks' = [acks EXCEPT ![s] = q] /\ UNCHANGED down
        BY <2>2, <3>4 DEF QueueAck
      <4> QED
        BY <2>2, <3>2, <4>1 DEF AckedOnlyIfClaimed, TypeOK
    <3> QED
      BY <3>3, <3>4
  <2>3. ASSUME NEW s \in Sessions, Receive(s) PROVE AckedOnlyIfClaimed'
    <3>1. CASE /\ Head(up[s]) \in claimed
               /\ QueueAck(s, Head(up[s]))
               /\ UNCHANGED <<claimed, applying>>
      BY <2>2, <3>1
    <3>2. CASE claimed \subseteq claimed' /\ UNCHANGED <<acks, down>>
      BY <3>2 DEF AckedOnlyIfClaimed
    <3> QED
      BY <2>3, <3>1, <3>2 DEF Receive
  <2>4. ASSUME NEW s \in Sessions, NEW e \in Events, Apply(s, e)
        PROVE  AckedOnlyIfClaimed'
    <3>1. e \in claimed
      BY <2>4 DEF Apply, ClaimsExact
    <3> QED
      BY <2>2, <2>4, <3>1 DEF Apply
  <2>5. ASSUME NEW s \in Sessions, FlushAcks(s) PROVE AckedOnlyIfClaimed'
    <3>1. acks[s] \in Seq(Events) /\ ToSet(acks[s]) \subseteq claimed
      BY DEF TypeOK, AckedOnlyIfClaimed
    <3> QED
      BY <2>1, <2>5, <3>1 DEF FlushAcks
  <2>6. ASSUME NEW s \in Sessions, Acknowledge(s) PROVE AckedOnlyIfClaimed'
    <3>1. down[s] \in Seq(SUBSET Events) /\ down[s] # <<>>
      BY <2>6 DEF Acknowledge, TypeOK
    <3>2. \A i \in 1..Len(Tail(down[s])) :
             i + 1 \in 1..Len(down[s]) /\ Tail(down[s])[i] = down[s][i + 1]
      BY <3>1
    <3>3. down' = [down EXCEPT ![s] = Tail(@)] /\ UNCHANGED <<acks, claimed>>
      BY <2>6 DEF Acknowledge, panelVars
    <3> QED
      BY <3>2, <3>3 DEF AckedOnlyIfClaimed, TypeOK
  <2>7. CASE AgentRestart
    <3>1. \A t \in Sessions : Len(down'[t]) = 0
      BY <2>7 DEF AgentRestart
    <3>2. UNCHANGED <<acks, claimed>>
      BY <2>7 DEF AgentRestart, panelVars
    <3> QED
      BY <3>1, <3>2 DEF AckedOnlyIfClaimed
  <2>8. CASE PanelRestart
    <3>1. \A t \in Sessions : ToSet(acks'[t]) = {}
      BY <2>8 DEF PanelRestart, ToSet
    <3>2. UNCHANGED <<down, claimed>>
      BY <2>8 DEF PanelRestart
    <3> QED
      BY <3>1, <3>2 DEF AckedOnlyIfClaimed
  <2>9. CASE UNCHANGED <<acks, down, claimed>>
    BY <2>9 DEF AckedOnlyIfClaimed
  <2>10. ASSUME NEW s \in Sessions, Attach(s) \/ CutAtPanel(s)
         PROVE  UNCHANGED <<acks, down, claimed>>
    BY <2>10 DEF Attach, CutAtPanel
  <2>11. CASE Emit \/ StartWrite \/ FinishWrite \/ FailWrite \/ Dial \/ Establish
              \/ NoticeClose \/ CutAtAgent \/ UNCHANGED vars
    BY <2>9, <2>11 DEF Emit, StartWrite, FinishWrite, FailWrite, Dial, Establish,
       NoticeClose, CutAtAgent, vars, panelVars
  <2> QED
    BY <2>3, <2>4, <2>5, <2>6, <2>7, <2>8, <2>9, <2>10, <2>11
       DEF Next, AgentNext, PanelNext
<1> QED
  BY <1>1, <1>2, TypeCorrect, ClaimsExactHolds, PTL DEF Spec

-----------------------------------------------------------------------------
(* The journal.                                                            *)

(* What a write in flight will leave on disk covers every durable event.   *)
THEOREM JournalCoversHolds == Spec => []JournalCovers
<1> USE DEF JournalCovers, NothingForgotten
<1>1. Init => JournalCovers
  BY DEF Init
<1>2. TypeOK /\ AckedOnlyIfClaimed /\ JournalCovers /\ [Next]_vars => JournalCovers'
  <2> SUFFICES ASSUME TypeOK, AckedOnlyIfClaimed, JournalCovers, [Next]_vars
               PROVE  JournalCovers'
    OBVIOUS
  <2>1. CASE Emit
    <3>1. mem \subseteq mem' \cup dropped' /\ dropped \subseteq dropped'
      BY <2>1 DEF Emit
    <3> QED
      BY <2>1, <3>1 DEF Emit, panelVars
  <2>2. ASSUME NEW s \in Sessions, Acknowledge(s) PROVE JournalCovers'
    <3>1. Head(down[s]) \subseteq claimed
      <4>1. down[s] \in Seq(SUBSET Events) /\ down[s] # <<>>
        BY <2>2 DEF Acknowledge, TypeOK
      <4>2. 1 \in 1..Len(down[s]) /\ Head(down[s]) = down[s][1]
        BY <4>1
      <4> QED
        BY <4>2 DEF AckedOnlyIfClaimed
    <3> QED
      BY <2>2, <3>1 DEF Acknowledge, panelVars
  <2>3. CASE StartWrite
    BY <2>3 DEF StartWrite, panelVars
  <2>4. CASE FinishWrite
    BY <2>4 DEF FinishWrite, panelVars
  <2>5. CASE FailWrite
    BY <2>5 DEF FailWrite, panelVars
  <2>6. CASE AgentRestart
    BY <2>6 DEF AgentRestart, panelVars
  <2>7. ASSUME NEW s \in Sessions, Receive(s) PROVE JournalCovers'
    <3>1. claimed \subseteq claimed'
      BY <2>7 DEF Receive
    <3> QED
      BY <2>7, <3>1 DEF Receive, agentVars
  <2>8. CASE UNCHANGED <<agentVars, claimed>>
    BY <2>8 DEF agentVars
  <2>9. ASSUME NEW s \in Sessions, Attach(s) \/ FlushAcks(s) \/ CutAtPanel(s)
        PROVE  UNCHANGED <<agentVars, claimed>>
    BY <2>9 DEF Attach, FlushAcks, CutAtPanel
  <2>10. ASSUME NEW s \in Sessions, NEW e \in Events, Apply(s, e)
         PROVE  UNCHANGED <<agentVars, claimed>>
    BY <2>10 DEF Apply
  <2>11. CASE PanelRestart
    BY <2>8, <2>11 DEF PanelRestart
  <2>12. CASE Dial \/ Establish \/ NoticeClose \/ CutAtAgent \/ UNCHANGED vars
    BY <2>12 DEF Dial, Establish, NoticeClose, CutAtAgent, vars, agentVars, panelVars
  <2> QED
    BY <2>1, <2>2, <2>3, <2>4, <2>5, <2>6, <2>7, <2>8, <2>9, <2>10, <2>11, <2>12
       DEF Next, AgentNext, PanelNext
<1> QED
  BY <1>1, <1>2, TypeCorrect, AckedOnlyIfClaimedHolds, PTL DEF Spec

(* A critical event that reached the disk is never forgotten unclaimed.    *)
THEOREM NothingForgottenHolds == Spec => []NothingForgotten
<1>1. JournalCovers => NothingForgotten
  BY DEF JournalCovers
<1> QED
  BY <1>1, JournalCoversHolds, PTL

-----------------------------------------------------------------------------
(* Order.                                                                  *)

(* What a channel carries are numbers.                                     *)
LEMMA ChannelElements ==
    ASSUME NEW q \in Seq(Events)
    PROVE  Len(q) \in Nat /\ \A i \in 1..Len(q) : q[i] \in Events /\ q[i] \in Int
<1>1. Len(q) \in Nat /\ \A i \in 1..Len(q) : q[i] \in Events
  OBVIOUS
<1>2. Events \subseteq Int
  BY CriticalEventsAssumption DEF Events
<1> QED
  BY <1>1, <1>2

(* What a channel in order is stays true for fewer events.                 *)
LEMMA OrderMonotone ==
    ASSUME NEW q, NEW P, NEW Q \in SUBSET P
    PROVE  (Precede(q, P) => Precede(q, Q)) /\ (Carries(q, P) => Carries(q, Q))
BY DEF Precede, Carries

(* Sending an event later than all the others.                             *)
LEMMA OrderAppend ==
    ASSUME NEW q \in Seq(Events), NEW P, NEW e \in Events, Precede(q, P),
           Carries(q, P), NEW Q \in SUBSET (P \cup {e}),
           \A i \in 1..Len(q) : q[i] < e
    PROVE  Precede(Append(q, e), Q) /\ Carries(Append(q, e), Q)
<1> DEFINE r == Append(q, e)
<1>1. /\ Len(r) = Len(q) + 1 /\ r[Len(q) + 1] = e /\ Len(q) \in Nat
      /\ \A i \in 1..Len(q) : r[i] = q[i]
  OBVIOUS
<1>2. Events \subseteq Int
  BY CriticalEventsAssumption DEF Events
<1>3. \A i \in 1..Len(q) : q[i] \in Int
  BY ChannelElements
<1> HIDE DEF r
<1>4. ASSUME NEW i \in 1..Len(r), NEW f \in Q, f < r[i]
      PROVE  \E j \in 1..(i - 1) : r[j] = f
  <2>1. CASE i = Len(q) + 1
    <3>1. f \in P
      BY <1>1, <1>2, <1>4, <2>1
    <3>2. PICK j \in 1..Len(q) : q[j] = f
      BY <3>1 DEF Carries
    <3> QED
      BY <1>1, <2>1, <3>2
  <2>2. CASE i \in 1..Len(q)
    <3>1. f \in P
      BY <1>1, <1>2, <1>3, <1>4, <2>2
    <3>2. PICK j \in 1..(i - 1) : q[j] = f
      BY <1>1, <1>4, <2>2, <3>1 DEF Precede
    <3> QED
      BY <1>1, <2>2, <3>2
  <2> QED
    BY <1>1, <2>1, <2>2
<1>5. ASSUME NEW f \in Q PROVE \E j \in 1..Len(r) : r[j] = f
  <2>1. CASE f = e
    BY <1>1, <2>1
  <2>2. CASE f \in P
    <3>1. PICK j \in 1..Len(q) : q[j] = f
      BY <2>2 DEF Carries
    <3> QED
      BY <1>1, <3>1
  <2> QED
    BY <2>1, <2>2
<1> QED
  BY <1>4, <1>5 DEF Precede, Carries, r

(* Handling the head of a channel.                                         *)
LEMMA OrderTail ==
    ASSUME NEW q \in Seq(Events), q # <<>>, NEW P, NEW Q \in SUBSET P, Head(q) \notin Q
    PROVE  /\ Precede(q, P) => Precede(Tail(q), Q)
           /\ Carries(q, P) => Carries(Tail(q), Q)
<1> DEFINE r == Tail(q)
<1>1. /\ Len(q) \in Nat /\ Len(q) = Len(r) + 1 /\ Len(r) \in Nat
      /\ q[1] = Head(q)
      /\ \A i \in 1..Len(r) : r[i] = q[i + 1]
  OBVIOUS
<1> HIDE DEF r
<1>2. ASSUME Precede(q, P), NEW i \in 1..Len(r), NEW f \in Q, f < r[i]
      PROVE  \E j \in 1..(i - 1) : r[j] = f
  <2>1. i + 1 \in 1..Len(q) /\ f \in P /\ f < q[i + 1]
    BY <1>1, <1>2
  <2>2. PICK k \in 1..((i + 1) - 1) : q[k] = f
    BY <1>2, <2>1 DEF Precede
  <2>3. k # 1 /\ k \in Int
    BY <1>1, <1>2, <2>2
  <2>4. k - 1 \in 1..(i - 1) /\ k - 1 \in 1..Len(r) /\ (k - 1) + 1 = k
    BY <1>1, <1>2, <2>2, <2>3
  <2> QED
    BY <1>1, <2>2, <2>4
<1>3. ASSUME Carries(q, P), NEW f \in Q PROVE \E j \in 1..Len(r) : r[j] = f
  <2>1. PICK k \in 1..Len(q) : q[k] = f
    BY <1>3 DEF Carries
  <2>2. k # 1 /\ k \in Int
    BY <1>1, <1>3, <2>1
  <2>3. k - 1 \in 1..Len(r) /\ (k - 1) + 1 = k
    BY <1>1, <2>1, <2>2
  <2> QED
    BY <1>1, <2>1, <2>3
<1> QED
  BY <1>2, <1>3 DEF Precede, Carries, r

(* Replaying a journal on a new channel.                                   *)
LEMMA OrderReplay ==
    ASSUME NEW j \in Journals, NEW q \in InOrder(j)
    PROVE  /\ q \in Seq(Events)
           /\ \A i \in 1..Len(q) : q[i] \in j
           /\ Precede(q, j) /\ Carries(q, j)
<1>1. Cardinality(j) \in Nat
  BY JournalSubset, FS_CardinalityType
<1>2. q \in [1..Cardinality(j) -> j] /\ j \subseteq Events
  BY DEF InOrder, Journals
<1>3. q \in Seq(Events) /\ Len(q) = Cardinality(j) /\ DOMAIN q = 1..Len(q)
  <2>1. q \in [1..Cardinality(j) -> Events]
    BY <1>2
  <2> QED
    BY <1>1, <2>1
<1>4. \A f \in j : \E k \in 1..Len(q) : q[k] = f
  BY <1>3 DEF InOrder, ToSet
<1>5. ASSUME NEW i \in 1..Len(q), NEW f \in j, f < q[i]
      PROVE  \E k \in 1..(i - 1) : q[k] = f
  <2>1. PICK k \in 1..Len(q) : q[k] = f
    BY <1>4
  <2>2. q[i] \in Int /\ f \in Int
    BY <1>2, <1>3, CriticalEventsAssumption DEF Events
  <2>3. i < k => q[i] < q[k]
    BY <1>3, <2>1 DEF InOrder
  <2>4. k < i
    BY <1>1, <1>3, <1>5, <2>1, <2>2, <2>3
  <2> QED
    BY <1>1, <1>3, <2>1, <2>4
<1> QED
  BY <1>2, <1>3, <1>4, <1>5 DEF Precede, Carries

(* A step of anything but the channels keeps them in order if no event     *)
(* becomes unclaimed.                                                      *)
LEMMA FewerUnclaimed ==
    ASSUME TypeOK, ChannelsInOrder,
           Unclaimed' \subseteq Unclaimed,
           mem' \cup disk' \cup snapshot' \subseteq 1..emitted',
           UNCHANGED <<emitted, phase, cur, sess, up>>
    PROVE  ChannelsInOrder'
<1>1. \A s \in Sessions : Precede(up[s], Unclaimed) => Precede(up[s], Unclaimed')
  BY OrderMonotone
<1>2. Carries(up[cur], Unclaimed) => Carries(up[cur], Unclaimed')
  BY OrderMonotone
<1> QED
  BY <1>1, <1>2 DEF ChannelsInOrder

(* Every socket that can still deliver holds the unclaimed events in order.*)
THEOREM ChannelsInOrderHolds == Spec => []ChannelsInOrder
<1>1. Init => ChannelsInOrder
  BY DEF Init, ChannelsInOrder, Unclaimed, Precede
<1>2. TypeOK /\ JournalCovers /\ ChannelsInOrder /\ [Next]_vars => ChannelsInOrder'
  <2> SUFFICES ASSUME TypeOK, JournalCovers, ChannelsInOrder, [Next]_vars
               PROVE  ChannelsInOrder'
    OBVIOUS
  <2>0. Sessions \subseteq Int /\ cur \in Int /\ Events \subseteq Int
    BY CriticalEventsAssumption DEF Sessions, TypeOK, Events
  <2>1. CASE Emit
    <3> DEFINE e == emitted + 1
    <3>1. e \in Events /\ emitted \in Nat /\ emitted' = e
      BY <2>1, CriticalEventsAssumption DEF Emit, TypeOK, Events
    <3>2. mem' \subseteq mem \cup {e} /\ Unclaimed' \subseteq Unclaimed \cup {e}
      BY <2>1 DEF Emit, Pushed, Unclaimed, panelVars
    <3>3. mem' \cup disk' \cup snapshot' \subseteq 1..emitted'
      BY <2>1, <3>1, <3>2 DEF Emit, ChannelsInOrder
    <3>4. UNCHANGED <<phase, cur, sess>>
      BY <2>1 DEF Emit, panelVars
    <3>5. ASSUME NEW s \in Sessions
          PROVE  /\ up[s] \in Seq(Events)
                 /\ \A i \in 1..Len(up[s]) : up[s][i] < e /\ up[s][i] <= e
      <4>1. up[s] \in Seq(Events)
        BY DEF TypeOK
      <4>2. \A i \in 1..Len(up[s]) : up[s][i] <= emitted /\ up[s][i] \in Int
        BY <4>1, ChannelElements DEF ChannelsInOrder
      <4> QED
        BY <3>1, <4>1, <4>2
    <3>6. ASSUME NEW s \in Sessions, sess[s] # "gone"
          PROVE  Precede(up[s], Unclaimed')
      <4>1. Precede(up[s], Unclaimed)
        BY <3>6 DEF ChannelsInOrder
      <4>2. \A i \in 1..Len(up[s]) : up[s][i] \in Int /\ ~(e < up[s][i])
        BY <3>1, <3>5, ChannelElements
      <4> QED
        BY <3>2, <4>1, <4>2 DEF Precede
    <3>7. CASE phase # "online"
      <4>1. UNCHANGED up
        BY <2>1, <3>7 DEF Emit, Sent
      <4>2. \A s \in Sessions : \A i \in 1..Len(up[s]) : up[s][i] <= emitted'
        BY <3>1, <3>5
      <4> QED
        BY <3>3, <3>4, <3>6, <3>7, <4>1, <4>2 DEF ChannelsInOrder
    <3>8. CASE phase = "online"
      <4>1. cur \in Sessions /\ up' = [up EXCEPT ![cur] = Append(@, e)]
        BY <2>1, <3>8 DEF Emit, Sent, ChannelsInOrder
      <4>2. /\ up'[cur] = Append(up[cur], e)
            /\ \A s \in Sessions : s # cur => up'[s] = up[s]
        BY <4>1 DEF TypeOK
      <4>3. sess[cur] # "gone" =>
               Precede(up'[cur], Unclaimed') /\ Carries(up'[cur], Unclaimed')
        <5>1. ASSUME sess[cur] # "gone"
              PROVE  Precede(up[cur], Unclaimed) /\ Carries(up[cur], Unclaimed)
          BY <3>8, <4>1, <5>1 DEF ChannelsInOrder
        <5>2. up[cur] \in Seq(Events) /\ \A i \in 1..Len(up[cur]) : up[cur][i] < e
          BY <3>5, <4>1
        <5>3. Unclaimed' \in SUBSET (Unclaimed \cup {e})
          BY <3>2
        <5> HIDE DEF e
        <5> QED
          BY <3>1, <4>2, <5>1, <5>2, <5>3, OrderAppend
      <4>4. \A s \in Sessions : \A i \in 1..Len(up'[s]) : up'[s][i] <= emitted'
        <5>1. up[cur] \in Seq(Events) /\ e \in Int /\ e <= e
          BY <3>1, <3>5, <4>1
        <5>2. \A i \in 1..Len(up'[cur]) : up'[cur][i] = e
                                         \/ (i \in 1..Len(up[cur]) /\ up'[cur][i] = up[cur][i])
          BY <4>2, <5>1
        <5>3. \A i \in 1..Len(up'[cur]) : up'[cur][i] <= e
          BY <3>5, <4>1, <5>1, <5>2
        <5> QED
          BY <3>1, <3>5, <4>2, <5>3
      <4>5. \A s \in Sessions : s > cur => s # cur
        BY <2>0
      <4> QED
        BY <3>3, <3>4, <3>6, <3>8, <4>1, <4>2, <4>3, <4>4, <4>5 DEF ChannelsInOrder
    <3> QED
      BY <3>7, <3>8
  <2>2. ASSUME NEW s \in Sessions, Acknowledge(s) PROVE ChannelsInOrder'
    BY <2>2, FewerUnclaimed DEF Acknowledge, panelVars, Unclaimed, ChannelsInOrder
  <2>3. CASE StartWrite \/ FinishWrite \/ FailWrite \/ UNCHANGED vars
    BY <2>3, FewerUnclaimed DEF StartWrite, FinishWrite, FailWrite, vars,
       agentVars, panelVars, Unclaimed, ChannelsInOrder
  <2>4. CASE Dial
    <3>1. /\ cur' = cur + 1 /\ cur' \in Sessions
          /\ sess' = [sess EXCEPT ![cur + 1] = "hello"]
          /\ UNCHANGED <<mem, disk, snapshot, claimed, dropped, emitted, up>>
          /\ phase' = "dialing"
      BY <2>4 DEF Dial
    <3>2. up[cur + 1] = <<>>
      BY <2>0, <3>1 DEF ChannelsInOrder
    <3>3. \A s \in Sessions : s > cur' => up[s] = <<>> /\ sess'[s] = "none"
      BY <2>0, <3>1 DEF ChannelsInOrder, TypeOK
    <3>4. UNCHANGED Unclaimed
      BY <3>1 DEF Unclaimed
    <3>5. \A s \in Sessions : sess'[s] # "gone" => Precede(up[s], Unclaimed)
      <4>1. Precede(<<>>, Unclaimed)
        BY DEF Precede
      <4>2. \A s \in Sessions : s # cur + 1 => sess'[s] = sess[s]
        BY <3>1 DEF TypeOK
      <4> QED
        BY <3>2, <4>1, <4>2 DEF ChannelsInOrder
    <3> QED
      BY <3>1, <3>2, <3>3, <3>4, <3>5 DEF ChannelsInOrder
  <2>5. CASE Establish
    <3>1. PICK q \in InOrder(mem) : up' = [up EXCEPT ![cur] = @ \o q]
      BY <2>5 DEF Establish
    <3>2. phase = "dialing" /\ cur \in Sessions /\ up[cur] = <<>> /\ sess[cur] # "none"
      BY <2>5 DEF Establish, ChannelsInOrder
    <3>3. /\ q \in Seq(Events) /\ \A i \in 1..Len(q) : q[i] \in mem
          /\ Precede(q, mem) /\ Carries(q, mem)
      BY OrderReplay DEF TypeOK
    <3>4. up'[cur] = q /\ \A s \in Sessions : s # cur => up'[s] = up[s]
      BY <3>1, <3>2, <3>3 DEF TypeOK
    <3>5. /\ UNCHANGED <<mem, disk, snapshot, claimed, dropped, emitted, sess, cur>>
          /\ phase' = "online"
      BY <2>5 DEF Establish, panelVars
    <3>6. Unclaimed' = Unclaimed /\ Unclaimed \subseteq mem
      BY <3>5 DEF Unclaimed
    <3>7. Precede(q, Unclaimed) /\ Carries(q, Unclaimed)
      BY <3>3, <3>6, OrderMonotone
    <3>8. \A i \in 1..Len(q) : q[i] <= emitted
      BY <3>3 DEF ChannelsInOrder
    <3>9. \A s \in Sessions : s > cur => s # cur
      BY <2>0
    <3> QED
      BY <3>2, <3>4, <3>5, <3>6, <3>7, <3>8, <3>9 DEF ChannelsInOrder
  <2>6. CASE NoticeClose \/ CutAtAgent
    <3>1. /\ UNCHANGED <<mem, disk, snapshot, claimed, dropped, emitted, sess, cur, up>>
          /\ phase' = "offline"
      BY <2>6 DEF NoticeClose, CutAtAgent, panelVars
    <3>2. UNCHANGED Unclaimed
      BY <3>1 DEF Unclaimed
    <3> QED
      BY <3>1, <3>2 DEF ChannelsInOrder
  <2>7. CASE AgentRestart
    <3>1. UNCHANGED <<claimed, dropped, emitted, sess, cur, up>> /\ phase' = "offline"
      BY <2>7 DEF AgentRestart, panelVars
    <3>2. Unclaimed' \subseteq Unclaimed
      BY <2>7, <3>1 DEF AgentRestart, Unclaimed, JournalCovers, NothingForgotten
    <3>3. mem' \cup disk' \cup snapshot' \subseteq 1..emitted
      BY <2>7 DEF AgentRestart, ChannelsInOrder
    <3>4. \A s \in Sessions : Precede(up[s], Unclaimed) => Precede(up[s], Unclaimed')
      BY <3>2, OrderMonotone
    <3> QED
      BY <3>1, <3>3, <3>4 DEF ChannelsInOrder
  <2>8. ASSUME NEW s \in Sessions, Attach(s) \/ CutAtPanel(s) PROVE ChannelsInOrder'
    <3>1. UNCHANGED <<mem, disk, snapshot, claimed, dropped, emitted, cur, up, phase>>
      BY <2>8 DEF Attach, CutAtPanel, agentVars
    <3>2. \A t \in Sessions : /\ sess'[t] = "none" <=> sess[t] = "none"
                              /\ sess'[t] # "gone" => sess[t] # "gone"
      BY <2>8 DEF Attach, CutAtPanel, TypeOK
    <3>3. UNCHANGED Unclaimed
      BY <3>1 DEF Unclaimed
    <3>4. ASSUME NEW t \in Sessions, sess'[t] # "gone"
          PROVE  Precede(up[t], Unclaimed)
      BY <3>2, <3>4 DEF ChannelsInOrder
    <3>5. ASSUME NEW t \in Sessions, t > cur
          PROVE  up[t] = <<>> /\ sess'[t] = "none"
      BY <3>2, <3>5 DEF ChannelsInOrder
    <3>6. ASSUME phase = "online"
          PROVE  /\ cur \in Sessions /\ sess'[cur] # "none"
                 /\ sess'[cur] # "gone" => Carries(up[cur], Unclaimed)
      BY <3>2, <3>6 DEF ChannelsInOrder
    <3> QED
      BY <3>1, <3>3, <3>4, <3>5, <3>6 DEF ChannelsInOrder
  <2>9. CASE PanelRestart
    <3>1. UNCHANGED <<mem, disk, snapshot, claimed, dropped, emitted, cur, phase>>
      BY <2>9 DEF PanelRestart, agentVars
    <3>2. \A t \in Sessions : /\ up'[t] = <<>>
                              /\ sess'[t] = IF sess[t] = "none" THEN "none" ELSE "gone"
      BY <2>9 DEF PanelRestart
    <3>3. Precede(<<>>, Unclaimed') /\ Len(<<>>) = 0
      BY DEF Precede
    <3> QED
      BY <3>1, <3>2, <3>3 DEF ChannelsInOrder
  <2>10. ASSUME NEW s \in Sessions, Receive(s) PROVE ChannelsInOrder'
    <3> DEFINE e == Head(up[s])
    <3>1. up[s] \in Seq(Events) /\ up[s] # <<>>
      BY <2>10 DEF Receive, TypeOK
    <3>2. /\ up'[s] = Tail(up[s]) /\ \A t \in Sessions : t # s => up'[t] = up[t]
          /\ claimed' = claimed \cup {e}
          /\ UNCHANGED <<mem, disk, snapshot, dropped, emitted, sess, cur, phase>>
      BY <2>10 DEF Receive, agentVars, TypeOK
    <3>3. Unclaimed' \subseteq Unclaimed /\ e \notin Unclaimed'
      BY <3>2 DEF Unclaimed
    <3>4. /\ \A t \in Sessions : sess[t] # "gone" => Precede(up'[t], Unclaimed')
          /\ phase = "online" /\ sess[cur] # "gone" => Carries(up'[cur], Unclaimed')
      <4>1. /\ Precede(up[s], Unclaimed) => Precede(up'[s], Unclaimed')
            /\ Carries(up[s], Unclaimed) => Carries(up'[s], Unclaimed')
        BY <3>1, <3>2, <3>3, OrderTail
      <4>2. \A t \in Sessions : t # s =>
               /\ Precede(up[t], Unclaimed) => Precede(up'[t], Unclaimed')
               /\ Carries(up[t], Unclaimed) => Carries(up'[t], Unclaimed')
        BY <3>2, <3>3, OrderMonotone
      <4> QED
        BY <4>1, <4>2 DEF ChannelsInOrder
    <3>5. \A i \in 1..Len(up'[s]) : i + 1 \in 1..Len(up[s]) /\ up'[s][i] = up[s][i + 1]
      BY <3>1, <3>2
    <3>6. \A t \in Sessions : \A i \in 1..Len(up'[t]) : up'[t][i] <= emitted
      <4>1. \A i \in 1..Len(up'[s]) : up'[s][i] <= emitted
        BY <3>5 DEF ChannelsInOrder
      <4> QED
        BY <3>2, <4>1 DEF ChannelsInOrder
    <3>7. /\ \A t \in Sessions : t > cur => t # s
          /\ phase = "dialing" => cur # s
      BY <3>1 DEF ChannelsInOrder
    <3> QED
      BY <3>2, <3>4, <3>6, <3>7 DEF ChannelsInOrder
  <2>11. ASSUME NEW s \in Sessions, NEW e \in Events, Apply(s, e)
         PROVE  ChannelsInOrder'
    BY <2>11, FewerUnclaimed DEF Apply, agentVars, Unclaimed, ChannelsInOrder
  <2>12. ASSUME NEW s \in Sessions, FlushAcks(s) PROVE ChannelsInOrder'
    BY <2>12, FewerUnclaimed DEF FlushAcks, agentVars, Unclaimed, ChannelsInOrder
  <2> QED
    BY <2>1, <2>2, <2>3, <2>4, <2>5, <2>6, <2>7, <2>8, <2>9, <2>10, <2>11, <2>12
       DEF Next, AgentNext, PanelNext
<1> QED
  BY <1>1, <1>2, TypeCorrect, JournalCoversHolds, PTL DEF Spec

(* The panel claims the events of an agent in the order of their emission. *)
THEOREM ClaimedInOrderHolds == Spec => ClaimedInOrder
<1>1. TypeOK /\ ChannelsInOrder /\ [Next]_vars
        => [\A e \in claimed' \ claimed : \A f \in mem \ (claimed \cup dropped) :
              f >= e]_vars
  <2> SUFFICES ASSUME TypeOK, ChannelsInOrder, Next,
                      NEW e \in claimed' \ claimed,
                      NEW f \in mem \ (claimed \cup dropped)
               PROVE  f >= e
    BY DEF vars, agentVars, panelVars
  <2>1. PICK s \in Sessions : Receive(s)
    BY DEF Next, AgentNext, PanelNext, Emit, StartWrite, FinishWrite, FailWrite,
       Dial, Establish, NoticeClose, CutAtAgent, AgentRestart, Acknowledge, Attach,
       FlushAcks, CutAtPanel, Apply, PanelRestart, agentVars, panelVars
  <2>2. up[s] \in Seq(Events) /\ up[s] # <<>> /\ sess[s] # "gone" /\ e = Head(up[s])
    BY <2>1 DEF Receive, TypeOK
  <2>3. 1 \in 1..Len(up[s]) /\ up[s][1] = e
    BY <2>2
  <2>4. e \in Int /\ f \in Int
    BY <2>2, CriticalEventsAssumption DEF Events, ChannelsInOrder, TypeOK
  <2>5. ~(f < e)
    BY <2>2, <2>3 DEF ChannelsInOrder, Unclaimed, Precede
  <2> QED
    BY <2>4, <2>5
<1> QED
  BY <1>1, TypeCorrect, ChannelsInOrderHolds, PTL DEF Spec, ClaimedInOrder
=============================================================================

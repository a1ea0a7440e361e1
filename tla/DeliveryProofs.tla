--------------------------- MODULE DeliveryProofs ---------------------------
(***************************************************************************)
(* CriticalEvents implements Delivery, for every number of events, every   *)
(* number of faults, every cap and every batch size.                       *)
(***************************************************************************)
EXTENDS CriticalEventsProofs

(* Only drawn numbers are claimed, dropped or on disk, and the handler of  *)
(* an event that failed is over.                                           *)
THEOREM NumbersDrawnHolds == Spec => []NumbersDrawn
<1>1. Init => NumbersDrawn
  BY DEF Init, NumbersDrawn
<1>2. /\ TypeOK /\ ClaimsExact /\ ChannelsInOrder /\ NumbersDrawn
      /\ [Next]_vars
      => NumbersDrawn'
  <2> SUFFICES ASSUME TypeOK, ClaimsExact, ChannelsInOrder, NumbersDrawn, [Next]_vars
               PROVE  NumbersDrawn'
    OBVIOUS
  <2>0. emitted \in Nat /\ Events \subseteq Int
    BY CriticalEventsAssumption DEF TypeOK, Events
  <2>1. CASE Emit
    <3>1. emitted' = emitted + 1 /\ dropped' \subseteq dropped \cup mem \cup {emitted + 1}
      BY <2>1 DEF Emit
    <3>2. UNCHANGED <<claimed, durable, failed, applying>>
      BY <2>1 DEF Emit, panelVars
    <3>3. mem \subseteq 1..emitted /\ 1..emitted \subseteq 1..emitted' /\ emitted' \in 1..emitted'
      BY <2>0, <3>1 DEF ChannelsInOrder
    <3> QED
      BY <3>1, <3>2, <3>3 DEF NumbersDrawn
  <2>2. CASE FinishWrite
    BY <2>2 DEF FinishWrite, NumbersDrawn, ChannelsInOrder, panelVars
  <2>3. ASSUME NEW s \in Sessions, Receive(s) PROVE NumbersDrawn'
    <3> DEFINE e == Head(up[s])
    <3>1. up[s] \in Seq(Events) /\ up[s] # <<>>
      BY <2>3 DEF Receive, TypeOK
    <3>2. 1 \in 1..Len(up[s]) /\ up[s][1] = e /\ e \in Events
      BY <3>1
    <3>3. e \in 1..emitted
      BY <2>0, <3>2 DEF ChannelsInOrder, Events
    <3>4. /\ claimed' = claimed \cup {e}
          /\ UNCHANGED <<emitted, dropped, durable, failed>>
          /\ applying' = applying \/ (e \notin claimed /\ applying' = applying \cup {<<s, e>>})
      BY <2>3 DEF Receive, agentVars
    <3> HIDE DEF e
    <3> QED
      BY <3>3, <3>4 DEF NumbersDrawn
  <2>4. ASSUME NEW s \in Sessions, NEW e \in Events, Apply(s, e) PROVE NumbersDrawn'
    <3>1. /\ <<s, e>> \in applying /\ applying' = applying \ {<<s, e>>}
          /\ failed' \in {failed, failed \cup {e}}
          /\ UNCHANGED <<emitted, claimed, dropped, durable>>
      BY <2>4 DEF Apply, agentVars
    <3>2. e \in claimed /\ \A t \in Sessions : <<t, e>> \notin applying'
      BY <3>1 DEF ClaimsExact
    <3> QED
      BY <3>1, <3>2 DEF NumbersDrawn
  <2>5. CASE PanelRestart
    BY <2>5 DEF PanelRestart, NumbersDrawn, agentVars
  <2>6. CASE UNCHANGED <<emitted, claimed, dropped, durable, failed, applying>>
    BY <2>6 DEF NumbersDrawn
  <2>7. ASSUME NEW s \in Sessions,
               Attach(s) \/ FlushAcks(s) \/ CutAtPanel(s) \/ Acknowledge(s)
        PROVE  UNCHANGED <<emitted, claimed, dropped, durable, failed, applying>>
    BY <2>7 DEF Attach, FlushAcks, CutAtPanel, Acknowledge, agentVars, panelVars
  <2>8. CASE StartWrite \/ FailWrite \/ Dial \/ Establish \/ NoticeClose \/ CutAtAgent
             \/ AgentRestart \/ UNCHANGED vars
    BY <2>6, <2>8 DEF StartWrite, FailWrite, Dial, Establish, NoticeClose, CutAtAgent,
       AgentRestart, vars, agentVars, panelVars
  <2> QED
    BY <2>1, <2>2, <2>3, <2>4, <2>5, <2>6, <2>7, <2>8 DEF Next, AgentNext, PanelNext
<1> QED
  BY <1>1, <1>2, TypeCorrect, ClaimsExactHolds, ChannelsInOrderHolds, PTL DEF Spec

-----------------------------------------------------------------------------
(* The mailbox seen through the mapping.                                   *)

Kept == durable \ (claimed \cup dropped)

(* What is kept is owed: the mailbox holds what it made safe.              *)
LEMMA KeptIsOwed ==
    ASSUME NothingForgotten
    PROVE  Kept \subseteq Unclaimed
BY DEF NothingForgotten, Kept, Unclaimed

(* A step that touches none of what the mapping reads leaves the mailbox.  *)
LEMMA MailboxStutters ==
    ASSUME UNCHANGED <<emitted, claimed, applied, failed, applying>>,
           Unclaimed' = Unclaimed, Kept' = Kept
    PROVE  UNCHANGED Mailbox!vars
<1>1. \A e \in Events : StatusOf(e)' = StatusOf(e)
  BY DEF StatusOf
<1> QED
  BY <1>1 DEF Mailbox!vars, Kept

(* The emission of an event is its post.                                   *)
LEMMA EmitPosts ==
    ASSUME TypeOK, ChannelsInOrder, NumbersDrawn, JournalCovers, Emit
    PROVE  Mailbox!Post(emitted + 1)
<1> DEFINE e == emitted + 1
<1>1. e \in Events /\ emitted \in Nat /\ emitted' = e /\ Events \subseteq Int
  BY CriticalEventsAssumption DEF Emit, TypeOK, Events
<1>2. UNCHANGED <<claimed, applied, failed, applying, durable>>
  BY DEF Emit, panelVars
<1>3. /\ e \notin claimed \cup dropped \cup durable \cup mem
      /\ mem \subseteq Int
  BY <1>1 DEF NumbersDrawn, ChannelsInOrder
<1>4. /\ \A f \in Events : StatusOf(f)' = IF f = e THEN "waiting" ELSE StatusOf(f)
      /\ StatusOf(e) = "unborn"
      /\ \A f \in Events : f < e => StatusOf(f) # "unborn"
  <2>1. \A f \in Events : f # e => (f > emitted' <=> f > emitted)
    BY <1>1
  <2>2. ~(e > emitted') /\ e > emitted /\ \A f \in Events : f < e => ~(f > emitted)
    BY <1>1
  <2> HIDE DEF e
  <2> QED
    BY <1>2, <1>3, <2>1, <2>2 DEF StatusOf
<1>5. \/ mem' = mem \cup {e} /\ dropped' = dropped
      \/ \E o \in mem \cup {e} : /\ \A y \in mem \cup {e} : o <= y
                                 /\ mem' = (mem \cup {e}) \ {o}
                                 /\ dropped' = dropped \cup {o}
  BY DEF Emit, Pushed
<1>6. \/ Unclaimed' = Unclaimed \cup {e}
      \/ \E o \in Unclaimed \cup {e} : /\ \A f \in Unclaimed \cup {e} : o <= f
                                       /\ Unclaimed' = (Unclaimed \cup {e}) \ {o}
  <2> HIDE DEF e
  <2>1. CASE mem' = mem \cup {e} /\ dropped' = dropped
    BY <1>2, <1>3, <2>1 DEF Unclaimed
  <2>2. ASSUME NEW o \in mem \cup {e}, \A y \in mem \cup {e} : o <= y,
               mem' = (mem \cup {e}) \ {o}, dropped' = dropped \cup {o}
        PROVE  \/ Unclaimed' = Unclaimed \cup {e}
               \/ /\ o \in Unclaimed \cup {e}
                  /\ \A f \in Unclaimed \cup {e} : o <= f
                  /\ Unclaimed' = (Unclaimed \cup {e}) \ {o}
    BY <1>2, <1>3, <2>2 DEF Unclaimed
  <2> QED
    BY <1>5, <2>1, <2>2
<1>7. Kept' = Kept \cap Unclaimed'
  <2>1. durable \subseteq claimed \cup dropped \cup mem
    BY DEF JournalCovers, NothingForgotten
  <2> HIDE DEF e
  <2> QED
    BY <1>2, <1>3, <1>5, <2>1 DEF Kept, Unclaimed
<1>8. e \in Mailbox!Events /\ Mailbox!Events = Events
  BY <1>1 DEF Mailbox!Events, Events
<1> HIDE DEF e
<1>9. [f \in Events |-> StatusOf(f)]' = [[f \in Events |-> StatusOf(f)] EXCEPT ![e] = "waiting"]
  BY <1>4
<1> QED
  BY <1>1, <1>4, <1>6, <1>7, <1>8, <1>9 DEF Mailbox!Post, Kept, e
(* A new claim is a taking.                                                *)
LEMMA ReceiveTakes ==
    ASSUME TypeOK, ClaimsExact, ChannelsInOrder, NumbersDrawn,
           NEW s \in Sessions, NEW e, e = Head(up[s]), Receive(s), e \notin claimed
    PROVE  Mailbox!Take(e)
<1>1. up[s] \in Seq(Events) /\ up[s] # <<>> /\ sess[s] # "gone"
  BY DEF Receive, TypeOK
<1>2. 1 \in 1..Len(up[s]) /\ up[s][1] = e /\ e \in Events
  BY <1>1
<1>3. e \in 1..emitted /\ Events \subseteq Int /\ emitted \in Nat
  BY <1>2, CriticalEventsAssumption DEF ChannelsInOrder, Events, TypeOK
<1>4. \A f \in Unclaimed : e <= f
  <2> SUFFICES ASSUME NEW f \in Unclaimed PROVE ~(f < e) /\ f \in Int
    BY <1>2, <1>3
  <2>1. Precede(up[s], Unclaimed)
    BY <1>1 DEF ChannelsInOrder
  <2>2. ~(f < up[s][1])
    BY <1>2, <2>1 DEF Precede
  <2> QED
    BY <1>2, <1>3, <2>2 DEF Unclaimed, ChannelsInOrder
<1>5. /\ claimed' = claimed \cup {e}
      /\ applying' = applying \cup {<<s, e>>}
      /\ UNCHANGED <<mem, dropped, durable, emitted, failed, applied>>
  BY DEF Receive, agentVars
<1>6. ~(applied[e] > 0) /\ e \notin failed
  BY <1>2 DEF ClaimsExact, NumbersDrawn
<1>7. /\ \A f \in Events : StatusOf(f)' = IF f = e THEN "taken" ELSE StatusOf(f)
      /\ StatusOf(e) = "waiting"
  <2>1. ~(e > emitted) /\ e \notin claimed
    BY <1>3
  <2>2. \A f \in Events : f # e => /\ f \in claimed' <=> f \in claimed
                                 /\ \A t \in Sessions : <<t, f>> \in applying' <=> <<t, f>> \in applying
    BY <1>5
  <2>3. StatusOf(e)' = "taken"
    <3>1. /\ ~(e > emitted') /\ e \in claimed' /\ ~(applied'[e] > 0) /\ e \notin failed'
          /\ <<s, e>> \in applying'
      BY <1>5, <1>6, <2>1
    <3>2. \E t \in Sessions : <<t, e>> \in applying'
      BY <3>1
    <3> QED
      BY <3>1, <3>2 DEF StatusOf
  <2>4. \A f \in Events : f # e => StatusOf(f)' = StatusOf(f)
    BY <1>5, <2>2 DEF StatusOf
  <2>5. StatusOf(e) = "waiting"
    BY <2>1 DEF StatusOf
  <2> QED
    BY <2>3, <2>4, <2>5
<1>8. [f \in Events |-> StatusOf(f)]' = [[f \in Events |-> StatusOf(f)] EXCEPT ![e] = "taken"]
  BY <1>7
<1>9. Unclaimed' = Unclaimed \ {e} /\ Kept' = Kept \ {e}
  BY <1>5 DEF Unclaimed, Kept
<1> QED
  BY <1>2, <1>4, <1>7, <1>8, <1>9 DEF Mailbox!Take, Kept

(* The end of a handler finishes its event.                                *)
LEMMA ApplyFinishes ==
    ASSUME TypeOK, ClaimsExact, NumbersDrawn,
           NEW s \in Sessions, NEW e \in Events, Apply(s, e)
    PROVE  Mailbox!Finish(e)
<1>1. /\ <<s, e>> \in applying /\ applying' = applying \ {<<s, e>>}
      /\ \/ applied' = [applied EXCEPT ![e] = @ + 1] /\ failed' = failed
         \/ applied' = applied /\ failed' = failed \cup {e}
      /\ UNCHANGED <<mem, dropped, durable, emitted, claimed>>
  BY DEF Apply, agentVars
<1>2. e \in claimed /\ applied[e] = 0 /\ e \notin failed
  BY <1>1 DEF ClaimsExact, NumbersDrawn
<1>3. ~(e > emitted)
  BY <1>2, CriticalEventsAssumption DEF NumbersDrawn, TypeOK, Events
<1>4. StatusOf(e) = "taken"
  BY <1>1, <1>2, <1>3 DEF StatusOf
<1>5. \A f \in Events : f # e => StatusOf(f)' = StatusOf(f)
  <2> SUFFICES ASSUME NEW f \in Events, f # e PROVE StatusOf(f)' = StatusOf(f)
    OBVIOUS
  <2>1. applied'[f] = applied[f] /\ (f \in failed' <=> f \in failed)
    BY <1>1 DEF TypeOK
  <2>2. (\E t \in Sessions : <<t, f>> \in applying') <=> (\E t \in Sessions : <<t, f>> \in applying)
    BY <1>1
  <2>3. emitted' = emitted /\ claimed' = claimed
    BY <1>1
  <2> QED
    BY <2>1, <2>2, <2>3 DEF StatusOf
<1>6. StatusOf(e)' \in {"handled", "failed"}
  <2>1. applied'[e] > 0 \/ e \in failed'
    BY <1>1, <1>2 DEF TypeOK
  <2> QED
    BY <1>1, <1>2, <1>3, <2>1 DEF StatusOf
<1>7. [f \in Events |-> StatusOf(f)]'
        = [[f \in Events |-> StatusOf(f)] EXCEPT ![e] = StatusOf(e)']
  BY <1>5
<1>8. Unclaimed' = Unclaimed /\ Kept' = Kept
  BY <1>1 DEF Unclaimed, Kept
<1> QED
  BY <1>4, <1>6, <1>7, <1>8 DEF Mailbox!Finish, Kept

(* The death of the panel abandons what it was handling.                   *)
LEMMA PanelRestartAbandons ==
    ASSUME PanelRestart
    PROVE  Mailbox!Abandon
<1>1. /\ applying' = {}
      /\ UNCHANGED <<mem, dropped, durable, emitted, claimed, applied, failed>>
  BY DEF PanelRestart, agentVars
<1>2. \A e \in Events : StatusOf(e)' = IF StatusOf(e) = "taken" THEN "missed" ELSE StatusOf(e)
  BY <1>1 DEF StatusOf
<1>3. Unclaimed' = Unclaimed /\ Kept' = Kept
  BY <1>1 DEF Unclaimed, Kept
<1>4. Mailbox!Events = Events
  BY DEF Mailbox!Events, Events
<1> QED
  BY <1>2, <1>3, <1>4 DEF Mailbox!Abandon, Kept

(* A write that ends secures, a death of the agent forgets.                *)
LEMMA AgentSteps ==
    ASSUME JournalCovers
    PROVE  /\ FinishWrite => Mailbox!Secure
           /\ AgentRestart => Mailbox!Forget
<1>1. ASSUME UNCHANGED <<emitted, claimed, applied, failed, applying>>
      PROVE  [e \in Events |-> StatusOf(e)]' = [e \in Events |-> StatusOf(e)]
  <2>1. \A e \in Events : StatusOf(e)' = StatusOf(e)
    BY <1>1 DEF StatusOf
  <2> QED
    BY <2>1
<1>2. ASSUME FinishWrite PROVE Mailbox!Secure
  <2>1. /\ durable' = durable \cup snapshot /\ writing
        /\ UNCHANGED <<mem, dropped, emitted, claimed, applied, failed, applying>>
    BY <1>2 DEF FinishWrite, panelVars
  <2>2. Unclaimed' = Unclaimed /\ Kept \subseteq Kept' /\ Kept' \subseteq Unclaimed
    BY <2>1 DEF Unclaimed, Kept, JournalCovers, NothingForgotten
  <2> QED
    BY <1>1, <2>1, <2>2 DEF Mailbox!Secure, Kept
<1>3. ASSUME AgentRestart PROVE Mailbox!Forget
  <2>1. /\ mem' = disk
        /\ UNCHANGED <<durable, dropped, emitted, claimed, applied, failed, applying>>
    BY <1>3 DEF AgentRestart, panelVars
  <2>2. Kept' = Kept /\ Kept \subseteq Unclaimed' /\ Unclaimed' \subseteq Unclaimed
    BY <2>1 DEF Unclaimed, Kept, JournalCovers, NothingForgotten
  <2> QED
    BY <1>1, <2>1, <2>2 DEF Mailbox!Forget, Kept
<1> QED
  BY <1>2, <1>3

-----------------------------------------------------------------------------
(* Every step of the two processes is a step of the mailbox or a stutter.  *)
LEMMA StepImplements ==
    ASSUME TypeOK, ClaimsExact, AckedOnlyIfClaimed, JournalCovers, ChannelsInOrder,
           NumbersDrawn, [Next]_vars
    PROVE  [Mailbox!Next]_(Mailbox!vars)
<1>0. Mailbox!Events = Events
  BY DEF Mailbox!Events, Events
<1>1. CASE Emit
  <2>1. emitted + 1 \in Events
    BY <1>1, CriticalEventsAssumption DEF Emit, TypeOK, Events
  <2> QED
    BY <1>0, <1>1, <2>1, EmitPosts DEF Mailbox!Next
<1>2. CASE FinishWrite \/ AgentRestart
  BY <1>2, AgentSteps DEF Mailbox!Next
<1>3. CASE PanelRestart
  BY <1>3, PanelRestartAbandons DEF Mailbox!Next
<1>4. ASSUME NEW s \in Sessions, NEW e \in Events, Apply(s, e) PROVE Mailbox!Finish(e)
  BY <1>4, ApplyFinishes
<1>5. CASE UNCHANGED <<mem, dropped, durable, emitted, claimed, applied, failed, applying>>
  <2>1. Unclaimed' = Unclaimed /\ Kept' = Kept
    BY <1>5 DEF Unclaimed, Kept
  <2> QED
    BY <1>5, <2>1, MailboxStutters
<1>6. ASSUME NEW s \in Sessions, Receive(s) PROVE [Mailbox!Next]_(Mailbox!vars)
  <2>1. Head(up[s]) \in Events
    BY <1>6 DEF Receive, TypeOK
  <2>2. CASE Head(up[s]) \in claimed
    BY <1>5, <1>6, <2>2 DEF Receive, agentVars
  <2>3. CASE Head(up[s]) \notin claimed
    <3>1. PICK e \in Events : e = Head(up[s])
      BY <2>1
    <3> QED
      BY <1>0, <1>6, <2>3, <3>1, ReceiveTakes DEF Mailbox!Next
  <2> QED
    BY <2>2, <2>3
<1>7. ASSUME NEW s \in Sessions, Acknowledge(s) PROVE UNCHANGED Mailbox!vars
  <2>1. down[s] \in Seq(SUBSET Events) /\ down[s] # <<>>
    BY <1>7 DEF Acknowledge, TypeOK
  <2>2. 1 \in 1..Len(down[s]) /\ Head(down[s]) = down[s][1]
    BY <2>1
  <2>3. Head(down[s]) \subseteq claimed
    BY <2>2 DEF AckedOnlyIfClaimed
  <2>4. /\ mem' = mem \ Head(down[s])
        /\ UNCHANGED <<dropped, durable, emitted, claimed, applied, failed, applying>>
    BY <1>7 DEF Acknowledge, panelVars
  <2>5. Unclaimed' = Unclaimed /\ Kept' = Kept
    BY <2>3, <2>4 DEF Unclaimed, Kept
  <2> QED
    BY <2>4, <2>5, MailboxStutters
<1>8. ASSUME NEW s \in Sessions, Attach(s) \/ FlushAcks(s) \/ CutAtPanel(s)
      PROVE  UNCHANGED <<mem, dropped, durable, emitted, claimed, applied, failed, applying>>
  BY <1>8 DEF Attach, FlushAcks, CutAtPanel, agentVars
<1>9. CASE StartWrite \/ FailWrite \/ Dial \/ Establish \/ NoticeClose \/ CutAtAgent
           \/ UNCHANGED vars
  BY <1>5, <1>9 DEF StartWrite, FailWrite, Dial, Establish, NoticeClose, CutAtAgent, vars,
     agentVars, panelVars
<1> QED
  BY <1>0, <1>1, <1>2, <1>3, <1>4, <1>5, <1>6, <1>7, <1>8, <1>9
     DEF Next, AgentNext, PanelNext, Mailbox!Next

(* The agent and the panel implement the mailbox: events are handed over in*)
(* the order of their emission, once, and one that was on the disk of the  *)
(* agent is never given up, whatever crashes, cuts and failed writes.      *)
THEOREM ImplementsHolds == Spec => Implements
<1>1. Init => Mailbox!Init
  <2> SUFFICES ASSUME Init PROVE Mailbox!Init
    OBVIOUS
  <2>1. \A e \in Events : StatusOf(e) = "unborn"
    BY CriticalEventsAssumption DEF Init, StatusOf, Events
  <2>2. Unclaimed = {} /\ Kept = {} /\ Mailbox!Events = Events
    BY DEF Init, Unclaimed, Kept, Mailbox!Events, Events
  <2> QED
    BY <2>1, <2>2 DEF Mailbox!Init, Kept
<1>2. /\ TypeOK /\ ClaimsExact /\ AckedOnlyIfClaimed /\ JournalCovers
      /\ ChannelsInOrder /\ NumbersDrawn /\ [Next]_vars
      => [Mailbox!Next]_(Mailbox!vars)
  BY StepImplements
<1> QED
  BY <1>1, <1>2, TypeCorrect, ClaimsExactHolds, AckedOnlyIfClaimedHolds, JournalCoversHolds,
     ChannelsInOrderHolds, NumbersDrawnHolds, PTL DEF Spec, Implements, Mailbox!Spec
=============================================================================

------------------------------ MODULE UploadProofs ------------------------------
(***************************************************************************)
(* What holds of Upload for every size of the body, announced or real,     *)
(* every window, and every number and kind of faults.                      *)
(***************************************************************************)
EXTENDS Upload, FiniteSetTheorems, SequenceTheorems, TLAPS

-----------------------------------------------------------------------------
(* The invariants.                                                         *)

\* No byte was reported stored that is not on the disk.
Honest == struck \cap {"crash", "short"} = {}

\* A write under way is that of an accepted chunk, by the receiver of the entry.
Writing ==
    /\ writing => entry /\ stored < expected
    /\ handler = "opening" => ~entry
    /\ stored <= expected

Typed == TypeOK /\ Writing

\* What goes over a connection, and what a session stands for, goes with it.
Wired ==
    /\ registry # "live" => frames = <<>> /\ acks = <<>> /\ started = {} /\ ~live /\ ~heard
    /\ registry = "none" => ~attached
    /\ asked # "none" => ~attached
    /\ asked = "sent" => registry = "live"

\* A sender that is detached has nothing on the wire and hears nothing, until the one answer
\* of startUpload to come.
Detached ==
    /\ ~attached => frames = <<>> /\ acks = <<>> /\ (live => stored = expected /\ ~writing)
    /\ handler # "none" => registry # "live" \/ ~attached
    /\ started # {} => started = {startOff} /\ ~attached /\ heard /\ handler = "none"

\* The agent has nothing that was not emitted, and nothing beyond the announced size that it
\* reported.
Emitted ==
    /\ next <= length /\ acked <= next
    /\ \A i \in 1..Len(frames) : frames[i] <= next
    /\ expected <= next
    /\ good \cup torn \subseteq 1..next
    /\ startOff.off <= next /\ startOff.off <= Declared
    /\ stored <= Declared

\* An upload that is under way was neither cancelled nor finished.
UnderWay == cancelling \/ finishing # "none" => status # "sending"

\* The offsets up to which the agent said, or is saying, that it has everything.
Reported == {acked} \cup {acks[i] : i \in 1..Len(acks)} \cup {o.off : o \in started}

\* The .part file has no hole, and holds whatever was reported.
Contiguous ==
    /\ \A c \in good \cup torn : 1..c \subseteq good \cup torn
    /\ entry => 1..stored \subseteq good \cup torn
    /\ handler = "opening" => 1..startOff.off \subseteq good \cup torn
    /\ status = "sending" => \A a \in Reported : a <= Declared /\ 1..a \subseteq good \cup torn

\* What was emitted and not acknowledged is retained.
Retained == (acked + 1)..next \subseteq retained

\* What was hashed is on the disk, but for a short write.
Hashed == "short" \notin struck /\ entry /\ hashOk => 1..stored \subseteq good

\* With no torn chunk, the receiver is never inside one.
Untorn == Honest => torn = {} /\ ~mid /\ ~startOff.mid

\* The frames on the wire continue what the receiver expects, and the next one continues them.
InOrder ==
    /\ \A o \in started : entry => expected = o.off
    /\ attached /\ registry = "live" /\ entry /\ rfail = "none" /\ ~mid =>
           /\ frames = <<>> => next <= expected
           /\ frames # <<>> => frames[1] <= expected + 1 /\ next <= frames[Len(frames)]
           /\ \A i \in 1..(Len(frames) - 1) : frames[i + 1] <= frames[i] + 1

\* The offset that the agent resumes at is not before the last one it acknowledged.
Resumable ==
    Honest /\ status = "sending" /\ (handler = "opening" \/ started # {})
        => acked <= startOff.off

-----------------------------------------------------------------------------
(* Types.                                                                  *)

\* The sizes are numbers; nothing written, and nothing on the wire, has a type.
LEMMA Sizes ==
    /\ N \in Nat /\ Declared \in Nat /\ Window \in Nat /\ MaxFaults \in Nat
    /\ 0 \in 0..N /\ 0 \in 0..MaxFaults
    /\ <<>> \in Seq(Chunks)
    /\ [off |-> 0, mid |-> FALSE] \in Offsets
<1>1. N \in Nat /\ Declared \in Nat /\ Window \in Nat /\ MaxFaults \in Nat
  BY UploadAssumption
<1>2. 0 \in 0..N /\ 0 \in 0..MaxFaults
  BY <1>1
<1>3. <<>> \in Seq(Chunks)
  OBVIOUS
<1>4. [off |-> 0, mid |-> FALSE] \in Offsets
  BY <1>2 DEF Offsets
<1> QED
  BY <1>1, <1>2, <1>3, <1>4

\* A group of variables that a step leaves alone keeps its types.
LEMMA GroupsKeepTypes ==
    ASSUME TypeOK
    PROVE  /\ UNCHANGED senderVars => SenderOK'
           /\ UNCHANGED uploadVars => UploadOK'
           /\ UNCHANGED wireVars => WireOK'
           /\ UNCHANGED handlerVars => HandlerOK'
           /\ UNCHANGED receiverVars => ReceiverOK'
           /\ UNCHANGED diskVars => DiskOK'
           /\ UNCHANGED envVars => EnvOK'
<1>1. UNCHANGED senderVars => SenderOK'
  BY DEF TypeOK, SenderOK, senderVars
<1>2. UNCHANGED uploadVars => UploadOK'
  BY DEF TypeOK, UploadOK, uploadVars
<1>3. UNCHANGED wireVars => WireOK'
  BY DEF TypeOK, WireOK, wireVars
<1>4. UNCHANGED handlerVars => HandlerOK'
  BY DEF TypeOK, HandlerOK, handlerVars
<1>5. UNCHANGED receiverVars => ReceiverOK'
  BY DEF TypeOK, ReceiverOK, receiverVars
<1>6. UNCHANGED diskVars => DiskOK'
  BY DEF TypeOK, DiskOK, diskVars
<1>7. UNCHANGED envVars => EnvOK'
  BY DEF TypeOK, EnvOK, envVars
<1> QED
  BY <1>1, <1>2, <1>3, <1>4, <1>5, <1>6, <1>7

\* Every variable keeps its type; a write under way is that of an accepted chunk, by the
\* receiver of the entry.
THEOREM TypedHolds == Spec => []Typed
<1>1. Init => Typed
  <2> SUFFICES ASSUME Init PROVE Typed
    OBVIOUS
  <2>1. SenderOK
    BY Sizes DEF Init, SenderOK, Chunks
  <2>2. UploadOK
    BY Sizes DEF Init, UploadOK
  <2>3. WireOK
    BY Sizes DEF Init, WireOK
  <2>4. HandlerOK
    BY Sizes DEF Init, HandlerOK
  <2>5. ReceiverOK
    BY Sizes DEF Init, ReceiverOK
  <2>6. DiskOK
    BY Sizes DEF Init, DiskOK
  <2>7. EnvOK
    BY Sizes DEF Init, EnvOK
  <2> QED
    BY <2>1, <2>2, <2>3, <2>4, <2>5, <2>6, <2>7 DEF Init, Typed, TypeOK, Writing
<1>2. Typed /\ [Next]_vars => Typed'
  <2> SUFFICES ASSUME Typed, [Next]_vars
               PROVE  Typed'
    OBVIOUS
  <2>0. TypeOK /\ Writing /\ SenderOK /\ UploadOK /\ WireOK /\ HandlerOK
        /\ ReceiverOK /\ DiskOK /\ EnvOK
    BY DEF Typed, TypeOK
  <2>1. CASE EmitChunk
    <3>1. SenderOK'
      <4>1. next + 1 \in Chunks
        BY <2>1, <2>0, Sizes DEF EmitChunk, SenderOK, EnvOK, Chunks
      <4> QED
        <5>1. next + 1 \in 0..N
          BY Sizes, <4>1 DEF Chunks
        <5> QED
          BY <2>1, <2>0, <4>1, <5>1 DEF EmitChunk, SenderOK
    <3>2. WireOK'
      <4>1. next + 1 \in Chunks
        BY <2>1, <2>0, Sizes DEF EmitChunk, SenderOK, EnvOK, Chunks
      <4>2. frames' \in Seq(Chunks)
        <5>1. frames' \in {frames, Append(frames, next + 1)} /\ frames \in Seq(Chunks)
          BY <2>1, <2>0 DEF EmitChunk, WireOK
        <5> QED
          BY <4>1, <5>1, AppendProperties
      <4> QED
        BY <2>1, <2>0, <4>2 DEF EmitChunk, WireOK
    <3>3. Writing'
      BY <2>1, <2>0 DEF EmitChunk, agentVars, handlerVars, receiverVars, Writing
    <3> QED
      BY <2>1, <3>1, <3>2, <3>3, <2>0, GroupsKeepTypes DEF Typed, TypeOK, EmitChunk,
         agentVars
  <2>2. CASE OnAck
    <3>1. SenderOK'
      <4>1. Head(acks) \in 0..N
        <5>1. Head(acks) \in Chunks
          BY <2>2, <2>0 DEF OnAck, WireOK
        <5> QED
          BY <5>1, Sizes DEF Chunks
      <4> QED
        BY <2>2, <2>0, <4>1 DEF OnAck, SenderOK, Unacked
    <3>2. WireOK'
      BY <2>2, <2>0, Sizes DEF OnAck, agentVars, receiverVars, WireOK
    <3>3. Writing'
      BY <2>2, <2>0 DEF OnAck, agentVars, handlerVars, receiverVars, Writing
    <3> QED
      BY <2>2, <3>1, <3>2, <3>3, <2>0, GroupsKeepTypes DEF Typed, TypeOK, OnAck,
         agentVars
  <2>3. CASE SendDone
    <3>1. UploadOK'
      BY <2>3, <2>0 DEF SendDone, Fail, UploadOK
    <3>2. WireOK'
      BY <2>3, <2>0, Sizes DEF SendDone, Fail, agentVars, receiverVars, WireOK
    <3>3. Writing'
      BY <2>3, <2>0 DEF SendDone, agentVars, handlerVars, receiverVars, Writing
    <3> QED
      BY <2>3, <3>1, <3>2, <3>3, <2>0, GroupsKeepTypes DEF Typed, TypeOK, SendDone,
         agentVars
  <2>4. CASE AskResume
    <3>1. UploadOK'
      BY <2>4, <2>0 DEF AskResume, UploadOK
    <3>2. Writing'
      BY <2>4, <2>0 DEF AskResume, agentVars, handlerVars, receiverVars, Writing
    <3> QED
      BY <2>4, <3>1, <3>2, <2>0, GroupsKeepTypes DEF Typed, TypeOK, AskResume, agentVars
  <2>5. CASE GiveUp
    <3>1. UploadOK'
      BY <2>5, <2>0 DEF GiveUp, Fail, UploadOK
    <3>2. WireOK'
      BY <2>5, <2>0, Sizes DEF GiveUp, Fail, agentVars, receiverVars, WireOK
    <3>3. Writing'
      BY <2>5, <2>0 DEF GiveUp, agentVars, handlerVars, receiverVars, Writing
    <3> QED
      BY <2>5, <3>1, <3>2, <3>3, <2>0, GroupsKeepTypes DEF Typed, TypeOK, GiveUp,
         agentVars
  <2>6. CASE Resume
    <3>1. SenderOK'
      <4>1. PICK o \in started : \/ UNCHANGED <<acked, retained, attached>>
                                \/ /\ acked' = o.off /\ retained' = Unacked(o.off)
                                   /\ attached' = TRUE
        BY <2>6 DEF Resume
      <4>2. o.off \in 0..N
        BY <2>0 DEF WireOK, Offsets
      <4> QED
        BY <2>6, <2>0, <4>1, <4>2 DEF Resume, SenderOK, Unacked
    <3>2. UploadOK'
      BY <2>6, <2>0 DEF Resume, Fail, UploadOK
    <3>3. WireOK'
      <4>1. PICK o \in started :
               \/ UNCHANGED <<acked, retained, attached, frames>>
               \/ /\ acked <= o.off /\ o.off <= next
                  /\ frames' = frames \o Reemitted(o.off)
        BY <2>6 DEF Resume
      <4>2. o.off \in 0..N /\ next \in 0..N
        BY <2>0 DEF WireOK, SenderOK, Offsets
      <4>3. o.off <= next => Reemitted(o.off) \in Seq(Chunks)
        <5> SUFFICES ASSUME o.off <= next PROVE Reemitted(o.off) \in Seq(Chunks)
          OBVIOUS
        <5>1. next - o.off \in Nat /\ \A i \in 1..(next - o.off) : o.off + i \in Chunks
          BY <4>2, Sizes DEF Chunks
        <5> QED
          BY <5>1 DEF Reemitted
      <4>4. frames' \in Seq(Chunks)
        BY <2>0, <4>1, <4>3, ConcatProperties DEF WireOK
      <4>5. started' \subseteq Offsets /\ cancelling' \in BOOLEAN
        BY <2>6, <2>0 DEF Resume, Fail, WireOK
      <4> QED
        BY <2>6, <2>0, <4>4, <4>5 DEF Resume, WireOK
    <3>4. Writing'
      BY <2>6, <2>0 DEF Resume, agentVars, handlerVars, receiverVars, Writing
    <3> QED
      BY <2>6, <3>1, <3>2, <3>3, <3>4, <2>0, GroupsKeepTypes DEF Typed, TypeOK, Resume,
         agentVars
  <2>7. CASE TakeVerdict
    <3>1. UploadOK'
      BY <2>7, <2>0 DEF TakeVerdict, Fail, UploadOK
    <3>2. WireOK'
      BY <2>7, <2>0, Sizes DEF TakeVerdict, Fail, agentVars, receiverVars, WireOK
    <3>3. Writing'
      BY <2>7, <2>0 DEF TakeVerdict, agentVars, handlerVars, receiverVars, Writing
    <3> QED
      BY <2>7, <3>1, <3>2, <3>3, <2>0, GroupsKeepTypes DEF Typed, TypeOK, TakeVerdict,
         agentVars
  <2>8. CASE BodyFails
    <3>1. UploadOK'
      BY <2>8, <2>0 DEF BodyFails, Fail, UploadOK
    <3>2. WireOK'
      BY <2>8, <2>0, Sizes DEF BodyFails, Fail, agentVars, receiverVars, WireOK
    <3>3. EnvOK'
      BY <2>8, <2>0, Sizes DEF BodyFails, Fault, EnvOK
    <3>4. Writing'
      BY <2>8, <2>0 DEF BodyFails, agentVars, handlerVars, receiverVars, Writing
    <3> QED
      BY <2>8, <3>1, <3>2, <3>3, <3>4, <2>0, GroupsKeepTypes DEF Typed, TypeOK,
         BodyFails, Fault, agentVars
  <2>9. CASE Cut
    <3>1. UploadOK'
      BY <2>9, <2>0 DEF Cut, LoseConnection, UploadOK
    <3>2. WireOK'
      BY <2>9, <2>0, Sizes DEF Cut, LoseConnection, WireOK
    <3>3. HandlerOK'
      BY <2>9, <2>0 DEF Cut, HandlerOK
    <3>4. ReceiverOK'
      BY <2>9, <2>0 DEF Cut, ReceiverOK
    <3>5. EnvOK'
      BY <2>9, <2>0, Sizes DEF Cut, Fault, EnvOK
    <3>6. Writing'
      BY <2>9, <2>0 DEF Cut, Writing
    <3> QED
      BY <2>9, <3>1, <3>2, <3>3, <3>4, <3>5, <3>6, <2>0, GroupsKeepTypes DEF Typed,
         TypeOK, Cut, Fault, LoseConnection
  <2>10. CASE AgentCrash
    <3>1. UploadOK'
      BY <2>10, <2>0 DEF AgentCrash, LoseConnection, panelVars, uploadVars, UploadOK
    <3>2. WireOK'
      BY <2>10, <2>0, Sizes DEF AgentCrash, LoseConnection, wireVars, WireOK
    <3>3. HandlerOK'
      BY <2>10, <2>0 DEF AgentCrash, HandlerOK
    <3>4. ReceiverOK'
      BY <2>10, <2>0 DEF AgentCrash, ReceiverOK
    <3>5. DiskOK'
      <4>1. writing => stored + 1 \in Chunks
        BY <2>0, Sizes DEF Writing, ReceiverOK, Chunks
      <4> QED
        BY <2>10, <2>0, <4>1 DEF AgentCrash, DiskOK
    <3>6. EnvOK'
      BY <2>10, <2>0, Sizes DEF AgentCrash, Fault, EnvOK
    <3>7. Writing'
      BY <2>10, <2>0 DEF AgentCrash, Writing
    <3> QED
      BY <2>10, <3>1, <3>2, <3>3, <3>4, <3>5, <3>6, <3>7, <2>0, GroupsKeepTypes DEF
         Typed, TypeOK, AgentCrash, Fault, LoseConnection, panelVars
  <2>11. CASE PanelNotices
    <3>1. SenderOK'
      BY <2>11, <2>0 DEF PanelNotices, SenderOK
    <3>2. UploadOK'
      BY <2>11, <2>0 DEF PanelNotices, UploadOK
    <3>3. WireOK'
      BY <2>11, <2>0, Sizes DEF PanelNotices, agentVars, receiverVars, WireOK
    <3>4. Writing'
      BY <2>11, <2>0 DEF PanelNotices, agentVars, handlerVars, receiverVars, Writing
    <3> QED
      BY <2>11, <3>1, <3>2, <3>3, <3>4, <2>0, GroupsKeepTypes DEF Typed, TypeOK,
         PanelNotices, agentVars
  <2>12. CASE Reconnect
    <3>1. WireOK'
      BY <2>12, <2>0, Sizes DEF Reconnect, agentVars, receiverVars, WireOK
    <3>2. Writing'
      BY <2>12, <2>0 DEF Reconnect, agentVars, handlerVars, receiverVars, Writing
    <3> QED
      BY <2>12, <3>1, <3>2, <2>0, GroupsKeepTypes DEF Typed, TypeOK, Reconnect,
         panelVars, agentVars
  <2>13. CASE StartUpload
    <3>1. HandlerOK'
      BY <2>13, <2>0 DEF StartUpload, receiverVars, HandlerOK
    <3>2. Writing'
      BY <2>13, <2>0 DEF StartUpload, receiverVars, Writing
    <3> QED
      BY <2>13, <3>1, <3>2, <2>0, GroupsKeepTypes DEF Typed, TypeOK, StartUpload,
         panelVars
  <2>14. CASE OpenPart
    <3>1. HandlerOK'
      BY <2>14, <2>0 DEF OpenPart, HandlerOK
    <3>2. ReceiverOK'
      BY <2>14, <2>0 DEF OpenPart, ReceiverOK
    <3>3. DiskOK'
      BY <2>14, <2>0 DEF OpenPart, DiskOK
    <3>4. Writing'
      BY <2>14, <2>0 DEF OpenPart, Writing
    <3> QED
      BY <2>14, <3>1, <3>2, <3>3, <3>4, <2>0, GroupsKeepTypes DEF Typed, TypeOK,
         OpenPart, panelVars
  <2>15. CASE Register
    <3>1. WireOK'
      BY <2>15, <2>0 DEF Register, HandlerOK, WireOK
    <3>2. HandlerOK'
      BY <2>15, <2>0 DEF Register, HandlerOK
    <3>3. ReceiverOK'
      <4>1. startOff.off \in 0..N /\ startOff.mid \in BOOLEAN /\ heard \in BOOLEAN
        BY <2>0 DEF HandlerOK, Offsets
      <4> QED
        BY <2>15, <2>0, <4>1 DEF Register, ReceiverOK
    <3>4. Writing'
      BY <2>15, <2>0 DEF Register, Writing, HandlerOK, Offsets
    <3> QED
      BY <2>15, <3>1, <3>2, <3>3, <3>4, <2>0, GroupsKeepTypes DEF Typed, TypeOK,
         Register, panelVars
  <2>16. CASE ReceiveFrame
    <3>1. WireOK'
      BY <2>16, <2>0, Sizes DEF ReceiveFrame, WireOK
    <3>2. ReceiverOK'
      <4>1. Head(frames) \in 0..N
        <5>1. Head(frames) \in Chunks
          BY <2>16, <2>0 DEF ReceiveFrame, WireOK
        <5> QED
          BY <5>1, Sizes DEF Chunks
      <4> QED
        BY <2>16, <2>0, <4>1 DEF ReceiveFrame, ReceiverOK
    <3>3. Writing'
      BY <2>16, <2>0 DEF ReceiveFrame, handlerVars, Writing, ReceiverOK
    <3> QED
      BY <2>16, <3>1, <3>2, <3>3, <2>0, GroupsKeepTypes DEF Typed, TypeOK, ReceiveFrame,
         panelVars
  <2>17. CASE StartWrite
    <3>1. ReceiverOK'
      BY <2>17, <2>0 DEF StartWrite, ReceiverOK
    <3>2. Writing'
      BY <2>17, <2>0 DEF StartWrite, handlerVars, Writing
    <3> QED
      BY <2>17, <3>1, <3>2, <2>0, GroupsKeepTypes DEF Typed, TypeOK, StartWrite,
         panelVars
  <2>18. CASE EndWrite
    <3>1. WireOK'
      <4>1. stored + 1 \in Chunks
        BY <2>18, <2>0, Sizes DEF EndWrite, Writing, ReceiverOK, Chunks
      <4>2. acks' \in Seq(Chunks)
        BY <2>18, <2>0, <4>1 DEF EndWrite, Acked, WireOK
      <4> QED
        BY <2>18, <2>0, <4>2 DEF EndWrite, WireOK
    <3>2. ReceiverOK'
      <4>1. stored + 1 \in 0..N
        BY <2>18, <2>0, Sizes DEF EndWrite, Writing, ReceiverOK
      <4> QED
        BY <2>18, <2>0, <4>1 DEF EndWrite, ReceiverOK
    <3>3. DiskOK'
      <4>1. stored + 1 \in Chunks
        BY <2>18, <2>0, Sizes DEF EndWrite, Writing, ReceiverOK, Chunks
      <4> QED
        BY <2>18, <2>0, <4>1 DEF EndWrite, DiskOK
    <3>4. EnvOK'
      BY <2>18, <2>0, Sizes DEF EndWrite, envVars, Fault, Acked, EnvOK
    <3>5. Writing'
      BY <2>18, <2>0 DEF EndWrite, Acked, handlerVars, Writing, ReceiverOK
    <3> QED
      BY <2>18, <3>1, <3>2, <3>3, <3>4, <3>5, <2>0, GroupsKeepTypes DEF Typed, TypeOK,
         EndWrite, Fault, panelVars
  <2>19. CASE FailWrite
    <3>1. ReceiverOK'
      BY <2>19, <2>0 DEF FailWrite, ReceiverOK
    <3>2. EnvOK'
      BY <2>19, <2>0, Sizes DEF FailWrite, envVars, Fault, EnvOK
    <3>3. Writing'
      BY <2>19, <2>0 DEF FailWrite, handlerVars, Writing
    <3> QED
      BY <2>19, <3>1, <3>2, <3>3, <2>0, GroupsKeepTypes DEF Typed, TypeOK, FailWrite,
         Fault, panelVars
  <2>20. CASE Forget
    <3>1. ReceiverOK'
      BY <2>20, <2>0 DEF Forget, ReceiverOK
    <3>2. Writing'
      BY <2>20, <2>0 DEF Forget, handlerVars, Writing
    <3> QED
      BY <2>20, <3>1, <3>2, <2>0, GroupsKeepTypes DEF Typed, TypeOK, Forget, panelVars
  <2>21. CASE CancelUpload
    <3>1. WireOK'
      BY <2>21, <2>0, Sizes DEF CancelUpload, WireOK
    <3>2. ReceiverOK'
      BY <2>21, <2>0 DEF CancelUpload, ReceiverOK
    <3>3. DiskOK'
      BY <2>21, <2>0 DEF CancelUpload, DiskOK
    <3>4. Writing'
      BY <2>21, <2>0 DEF CancelUpload, handlerVars, Writing
    <3> QED
      BY <2>21, <3>1, <3>2, <3>3, <3>4, <2>0, GroupsKeepTypes DEF Typed, TypeOK,
         CancelUpload, panelVars
  <2>22. CASE FinishUpload
    <3>1. WireOK'
      BY <2>22, <2>0, Sizes DEF FinishUpload, WireOK
    <3>2. ReceiverOK'
      BY <2>22, <2>0 DEF FinishUpload, ReceiverOK
    <3>3. DiskOK'
      BY <2>22, <2>0 DEF FinishUpload, DiskOK
    <3>4. Writing'
      BY <2>22, <2>0 DEF FinishUpload, handlerVars, Writing
    <3> QED
      BY <2>22, <3>1, <3>2, <3>3, <3>4, <2>0, GroupsKeepTypes DEF Typed, TypeOK,
         FinishUpload, panelVars
  <2>23. CASE UNCHANGED vars
    BY <2>23, <2>0, GroupsKeepTypes DEF vars, panelVars, agentVars, handlerVars,
       receiverVars, Typed, TypeOK, Writing
  <2> QED
    BY <2>1, <2>2, <2>3, <2>4, <2>5, <2>6, <2>7, <2>8, <2>9, <2>10, <2>11, <2>12, <2>13,
       <2>14, <2>15, <2>16, <2>17, <2>18, <2>19, <2>20, <2>21, <2>22, <2>23 DEF Next,
       PanelStep, AgentStep, Ended
<1> QED
  BY <1>1, <1>2, PTL DEF Spec

\* Every variable keeps its type in every reachable state.
THEOREM TypeCorrect == Spec => []TypeOK
<1>1. Typed => TypeOK
  BY DEF Typed
<1> QED
  BY <1>1, TypedHolds, PTL

-----------------------------------------------------------------------------
(* What the proofs below keep needing.                                     *)

\* The types, as far as arithmetic goes.
LEMMA Numbers ==
    ASSUME Typed
    PROVE  /\ next \in Nat /\ acked \in Nat /\ length \in Nat
           /\ stored \in Nat /\ expected \in Nat /\ startOff.off \in Nat
           /\ frames \in Seq(Nat) /\ acks \in Seq(Nat)
           /\ good \subseteq Nat /\ torn \subseteq Nat
           /\ \A o \in started : o.off \in Nat
           /\ Declared \in Nat
           /\ writing => entry /\ stored + 1 <= expected
           /\ stored <= expected
<1>1. SenderOK /\ WireOK /\ HandlerOK /\ ReceiverOK /\ DiskOK /\ EnvOK /\ Writing
  BY DEF Typed, TypeOK
<1>2. Chunks \subseteq Nat /\ 0..N \subseteq Nat
  BY Sizes DEF Chunks
<1>3. next \in Nat /\ acked \in Nat /\ stored \in Nat /\ expected \in Nat /\ length \in Nat
  BY <1>1, <1>2 DEF SenderOK, ReceiverOK, EnvOK
<1>4. frames \in Seq(Nat) /\ acks \in Seq(Nat)
  BY <1>1, <1>2, SeqMonotonic DEF WireOK
<1>5. startOff.off \in Nat /\ \A o \in started : o.off \in Nat
  BY <1>1, <1>2 DEF HandlerOK, WireOK, Offsets
<1>6. good \subseteq Nat /\ torn \subseteq Nat
  BY <1>1, <1>2 DEF DiskOK
<1>7. (writing => entry /\ stored + 1 <= expected) /\ stored <= expected
  BY <1>1, <1>3 DEF Writing
<1> QED
  BY <1>3, <1>4, <1>5, <1>6, <1>7, Sizes

\* What resume() sends again follows the offset, up to the last chunk emitted.
LEMMA Reemission ==
    ASSUME NEW offset \in Nat, next \in Nat, offset <= next
    PROVE  /\ Reemitted(offset) \in Seq(Nat) /\ Len(Reemitted(offset)) = next - offset
           /\ \A i \in 1..(next - offset) : Reemitted(offset)[i] = offset + i
BY DEF Reemitted

\* The one answer of startUpload is taken once, with nothing on the wire.
LEMMA Resumed ==
    ASSUME Typed, Detached, Resume
    PROVE  /\ started = {startOff} /\ started' = {} /\ asked' = "none"
           /\ frames = <<>> /\ acks = <<>> /\ acks' = <<>> /\ ~attached /\ handler = "none"
           /\ \/ /\ startOff.off < acked \/ startOff.off > next
                 /\ status' # "sending"
                 /\ why' # why => status = "sending" /\ why' = "window"
                 /\ UNCHANGED <<acked, retained, attached, frames>>
              \/ /\ acked <= startOff.off /\ startOff.off <= next
                 /\ acked' = startOff.off /\ retained' = Unacked(startOff.off)
                 /\ attached' = TRUE /\ frames' = Reemitted(startOff.off)
                 /\ UNCHANGED <<status, why, cancelling>>
<1>1. /\ started = {startOff} /\ frames = <<>> /\ acks = <<>> /\ ~attached /\ handler = "none"
  BY DEF Resume, Detached
<1>2. \/ /\ startOff.off < acked \/ startOff.off > next
         /\ IF status = "sending" THEN Fail("window") ELSE UNCHANGED <<status, why, cancelling>>
         /\ UNCHANGED <<acked, retained, attached, frames>>
      \/ /\ acked <= startOff.off /\ startOff.off <= next
         /\ acked' = startOff.off /\ retained' = Unacked(startOff.off)
         /\ attached' = TRUE /\ frames' = frames \o Reemitted(startOff.off)
         /\ UNCHANGED <<status, why, cancelling>>
  BY <1>1 DEF Resume
<1>3. startOff.off <= next => frames \o Reemitted(startOff.off) = Reemitted(startOff.off)
  BY <1>1, Numbers, Reemission, ConcatEmptySeq
<1>4. started' = {} /\ asked' = "none" /\ acks' = <<>>
  BY <1>1 DEF Resume
<1> QED
  BY <1>1, <1>2, <1>3, <1>4 DEF Fail

\* What startUpload measures: the last chunk of the file, or less of it.
LEMMA Measured ==
    ASSUME Typed, NEW o \in Offsets, PartOffset(o)
    PROVE  \E last \in good \cup torn \cup {0} :
               /\ last \in Nat
               /\ \A c \in good \cup torn : c <= last
               /\ o.off \in Nat /\ o.off <= last /\ o.off <= Declared
               /\ torn = {} => ~o.mid /\ (last <= o.off \/ Declared <= o.off)
<1>1. PICK last \in good \cup torn \cup {0} :
         /\ \A c \in good \cup torn : c <= last
         /\ o = IF last > Declared
                THEN [off |-> Declared, mid |-> FALSE]
                ELSE IF last \in torn
                     THEN [off |-> last - 1, mid |-> TRUE]
                     ELSE [off |-> last, mid |-> FALSE]
  BY DEF PartOffset
<1>2. last \in Nat /\ Declared \in Nat /\ o.off \in Nat
  BY Numbers, Sizes DEF Offsets
<1> QED
  BY <1>1, <1>2

\* Finitely many chunks are retained.
LEMMA RetainedFinite ==
    ASSUME Typed
    PROVE  IsFiniteSet(retained)
<1>1. retained \subseteq 1..N
  BY DEF Typed, TypeOK, SenderOK, Chunks
<1>2. IsFiniteSet(1..N)
  BY Sizes, FS_Interval
<1> QED
  BY <1>1, <1>2, FS_Subset

\* Nothing outlives its connection.
THEOREM WiredHolds == Spec => []Wired
<1>1. Init => Wired
  BY DEF Init, Wired
<1>2. Typed /\ Wired /\ [Next]_vars => Wired'
  <2> SUFFICES ASSUME Typed, Wired, [Next]_vars
               PROVE  Wired'
    OBVIOUS
  <2>1. CASE EmitChunk
    BY <2>1 DEF EmitChunk, HasRoom, uploadVars, agentVars, handlerVars, receiverVars,
       Wired
  <2>2. CASE OnAck
    BY <2>2 DEF OnAck, Unacked, uploadVars, agentVars, handlerVars, receiverVars, Wired
  <2>3. CASE AskResume
    BY <2>3 DEF AskResume, senderVars, wireVars, agentVars, handlerVars, receiverVars,
       Wired
  <2>4. CASE Resume
    BY <2>4 DEF Resume, Unacked, Reemitted, agentVars, handlerVars, receiverVars, Wired
  <2>5. CASE Cut
    BY <2>5 DEF Cut, LoseConnection, senderVars, Wired
  <2>6. CASE AgentCrash
    BY <2>6 DEF AgentCrash, LoseConnection, panelVars, wireVars, senderVars, uploadVars,
       Wired
  <2>7. CASE PanelNotices
    BY <2>7 DEF PanelNotices, agentVars, handlerVars, receiverVars, Wired
  <2>8. CASE Reconnect
    BY <2>8 DEF Reconnect, panelVars, agentVars, senderVars, uploadVars, handlerVars,
       receiverVars, Wired
  <2>9. CASE StartUpload
    BY <2>9 DEF StartUpload, panelVars, wireVars, receiverVars, senderVars, uploadVars,
       Wired
  <2>10. CASE Register
    BY <2>10 DEF Register, panelVars, senderVars, uploadVars, Wired
  <2>11. CASE ReceiveFrame
    BY <2>11 DEF ReceiveFrame, panelVars, handlerVars, senderVars, uploadVars, Wired
  <2>12. CASE EndWrite
    BY <2>12 DEF EndWrite, Acked, panelVars, handlerVars, senderVars, uploadVars, Wired
  <2>13. CASE SendDone \/ GiveUp \/ TakeVerdict \/ BodyFails \/ OpenPart \/
         StartWrite \/ FailWrite \/ Forget \/ CancelUpload \/ FinishUpload
    BY <2>13 DEF SendDone, senderVars, agentVars, handlerVars, receiverVars, GiveUp,
       TakeVerdict, BodyFails, OpenPart, panelVars, wireVars, uploadVars, StartWrite,
       FailWrite, Forget, CancelUpload, FinishUpload, Wired
  <2>14. CASE UNCHANGED vars
    BY <2>14 DEF vars, senderVars, uploadVars, panelVars, wireVars, handlerVars,
       receiverVars, agentVars, Wired
  <2> QED
    BY <2>1, <2>2, <2>3, <2>4, <2>5, <2>6, <2>7, <2>8, <2>9, <2>10, <2>11, <2>12, <2>13,
       <2>14 DEF Next, PanelStep, AgentStep, Ended
<1> QED
  BY <1>1, <1>2, TypedHolds, PTL DEF Spec

\* An upload that is cancelled, or asked to finish, is not under way any more.
THEOREM UnderWayHolds == Spec => []UnderWay
<1>1. Init => UnderWay
  BY DEF Init, UnderWay
<1>2. UnderWay /\ [Next]_vars => UnderWay'
  <2> SUFFICES ASSUME UnderWay, [Next]_vars
               PROVE  UnderWay'
    OBVIOUS
  <2>1. CASE SendDone
    BY <2>1 DEF SendDone, Fail, UnderWay
  <2>2. CASE AskResume
    BY <2>2 DEF AskResume, wireVars, UnderWay
  <2>3. CASE GiveUp
    BY <2>3 DEF GiveUp, Fail, UnderWay
  <2>4. CASE Resume
    BY <2>4 DEF Resume, Fail, Unacked, Reemitted, UnderWay
  <2>5. CASE TakeVerdict
    BY <2>5 DEF TakeVerdict, Fail, UnderWay
  <2>6. CASE BodyFails
    BY <2>6 DEF BodyFails, Fail, UnderWay
  <2>7. CASE Cut
    BY <2>7 DEF Cut, LoseConnection, UnderWay
  <2>8. CASE AgentCrash
    BY <2>8 DEF AgentCrash, LoseConnection, panelVars, wireVars, uploadVars, UnderWay
  <2>9. CASE PanelNotices
    BY <2>9 DEF PanelNotices, UnderWay
  <2>10. CASE CancelUpload
    BY <2>10 DEF CancelUpload, panelVars, uploadVars, UnderWay
  <2>11. CASE EmitChunk \/ OnAck \/ Reconnect \/ StartUpload \/ OpenPart \/ Register
         \/ ReceiveFrame \/ StartWrite \/ EndWrite \/ FailWrite \/ Forget \/ FinishUpload
    BY <2>11 DEF EmitChunk, uploadVars, OnAck, Reconnect, panelVars, StartUpload,
       wireVars, OpenPart, Register, ReceiveFrame, StartWrite, EndWrite, FailWrite, Forget,
       FinishUpload, UnderWay
  <2>12. CASE UNCHANGED vars
    BY <2>12 DEF vars, uploadVars, panelVars, wireVars, UnderWay
  <2> QED
    BY <2>1, <2>2, <2>3, <2>4, <2>5, <2>6, <2>7, <2>8, <2>9, <2>10, <2>11, <2>12 DEF
       Next, PanelStep, AgentStep, Ended
<1> QED
  BY <1>1, <1>2, PTL DEF Spec

\* A detached sender waits for one answer and nothing else.
THEOREM DetachedHolds == Spec => []Detached
<1>1. Init => Detached
  BY DEF Init, Detached
<1>2. Typed /\ Wired /\ Detached /\ [Next]_vars => Detached'
  <2> SUFFICES ASSUME Typed, Wired, Detached, [Next]_vars
               PROVE  Detached'
    OBVIOUS
  <2>1. CASE EmitChunk
    BY <2>1 DEF EmitChunk, agentVars, handlerVars, receiverVars, Detached, Wired
  <2>2. CASE OnAck
    BY <2>2 DEF OnAck, Unacked, agentVars, handlerVars, receiverVars, Detached
  <2>3. CASE Resume
    BY <2>3 DEF Resume, Unacked, Reemitted, agentVars, handlerVars, receiverVars,
       Detached
  <2>4. CASE Cut
    BY <2>4 DEF Cut, LoseConnection, senderVars, Detached
  <2>5. CASE AgentCrash
    BY <2>5 DEF AgentCrash, LoseConnection, wireVars, Detached, Wired
  <2>6. CASE PanelNotices
    BY <2>6 DEF PanelNotices, agentVars, receiverVars, Detached, Wired
  <2>7. CASE Reconnect
    BY <2>7 DEF Reconnect, panelVars, agentVars, senderVars, receiverVars, Detached,
       Wired
  <2>8. CASE StartUpload
    BY <2>8 DEF StartUpload, panelVars, wireVars, receiverVars, senderVars, Detached,
       Wired
  <2>9. CASE OpenPart
    BY <2>9 DEF OpenPart, Offsets, PartOffset, panelVars, wireVars, senderVars, Detached
  <2>10. CASE Register
    BY <2>10 DEF Register, panelVars, senderVars, Detached, Wired
  <2>11. CASE ReceiveFrame
    BY <2>11 DEF ReceiveFrame, panelVars, handlerVars, senderVars, Detached
  <2>12. CASE StartWrite
    BY <2>12 DEF StartWrite, panelVars, wireVars, handlerVars, senderVars, Detached,
       Typed, TypeOK, ReceiverOK
  <2>13. CASE EndWrite
    BY <2>13 DEF EndWrite, Acked, panelVars, handlerVars, senderVars, Detached
  <2>14. CASE FailWrite
    BY <2>14 DEF FailWrite, panelVars, wireVars, handlerVars, senderVars, Detached
  <2>15. CASE SendDone \/ AskResume \/ GiveUp \/ TakeVerdict \/ BodyFails \/ Forget
         \/ CancelUpload \/ FinishUpload
    BY <2>15 DEF SendDone, senderVars, agentVars, handlerVars, receiverVars, AskResume,
       wireVars, GiveUp, TakeVerdict, BodyFails, Forget, panelVars, CancelUpload,
       FinishUpload, Detached
  <2>16. CASE UNCHANGED vars
    BY <2>16 DEF vars, senderVars, panelVars, wireVars, handlerVars, receiverVars,
       agentVars, Detached
  <2> QED
    BY <2>1, <2>2, <2>3, <2>4, <2>5, <2>6, <2>7, <2>8, <2>9, <2>10, <2>11, <2>12, <2>13,
       <2>14, <2>15, <2>16 DEF Next, PanelStep, AgentStep, Ended
<1> QED
  BY <1>1, <1>2, TypedHolds, WiredHolds, PTL DEF Spec

\* Whatever is on its way, written or reported was emitted.
THEOREM EmittedHolds == Spec => []Emitted
<1>1. Init => Emitted
  BY Sizes DEF Init, Emitted, Chunks
<1>2. Typed /\ Detached /\ Emitted /\ [Next]_vars => Emitted'
  <2> SUFFICES ASSUME Typed, Detached, Emitted, [Next]_vars
               PROVE  Emitted'
    OBVIOUS
  <2>1. CASE EmitChunk
    <3>1. /\ next' = next + 1 /\ next + 1 <= length
          /\ UNCHANGED <<acked, expected, good, torn, startOff, stored, length>>
      BY <2>1, Numbers DEF EmitChunk, agentVars, handlerVars, receiverVars, diskVars, envVars
    <3>2. \A i \in 1..Len(frames') : frames'[i] <= next'
      <4>1. CASE frames' = frames
        BY <3>1, <4>1, Numbers, ElementOfSeq DEF Emitted
      <4>2. CASE frames' = Append(frames, next + 1)
        BY <3>1, <4>2, Numbers, AppendProperties, ElementOfSeq DEF Emitted
      <4> QED
        BY <2>1, <4>1, <4>2 DEF EmitChunk
    <3> QED
      BY <3>1, <3>2, Numbers DEF Emitted
  <2>2. CASE OnAck
    <3>1. acked' <= next
      BY <2>2, Numbers, HeadTailProperties DEF OnAck, Emitted
    <3> QED
      BY <2>2, <3>1 DEF OnAck, agentVars, handlerVars, receiverVars, diskVars, envVars, Emitted
  <2>3. CASE Resume
    <3>1. acked' <= next
      BY <2>3, Resumed, Numbers DEF Emitted
    <3>2. \A i \in 1..Len(frames') : frames'[i] <= next
      <4>1. CASE frames' = frames
        BY <4>1 DEF Emitted
      <4>2. CASE startOff.off <= next /\ frames' = Reemitted(startOff.off)
        <5>1. startOff.off \in Nat /\ next \in Nat
          BY Numbers
        <5>2. /\ Len(frames') = next - startOff.off
              /\ \A i \in 1..(next - startOff.off) : frames'[i] = startOff.off + i
          BY <4>2, <5>1, Reemission
        <5> QED
          BY <5>1, <5>2
      <4> QED
        BY <2>3, <4>1, <4>2, Resumed
    <3>3. UNCHANGED <<next, length, expected, good, torn, startOff, stored>>
      BY <2>3 DEF Resume, agentVars, handlerVars, receiverVars, diskVars, envVars
    <3> QED
      BY <3>1, <3>2, <3>3 DEF Emitted
  <2>4. CASE Cut
    BY <2>4 DEF Cut, Fault, LoseConnection, diskVars, senderVars, Emitted
  <2>5. CASE AgentCrash
    <3>1. UNCHANGED <<next, acked, length, expected, startOff, stored>>
      BY <2>5 DEF AgentCrash, Fault, LoseConnection, panelVars, senderVars
    <3>2. frames' = frames \/ frames' = <<>>
      BY <2>5 DEF AgentCrash, LoseConnection, wireVars
    <3>3. good' \cup torn' \subseteq 1..next
      <4>1. writing => stored + 1 \in 1..next
        BY Numbers DEF Emitted
      <4> QED
        BY <2>5, <4>1 DEF AgentCrash, Emitted
    <3> QED
      BY <3>1, <3>2, <3>3 DEF Emitted
  <2>6. CASE OpenPart
    <3>1. startOff' \in Offsets /\ PartOffset(startOff')
      BY <2>6 DEF OpenPart
    <3>2. startOff'.off <= next /\ startOff'.off <= Declared
      <4>1. PICK last \in good \cup torn \cup {0} : last \in Nat /\ startOff'.off \in Nat
                /\ startOff'.off <= last /\ startOff'.off <= Declared
        BY <3>1, Measured
      <4>2. last <= next
        BY Numbers, <4>1 DEF Emitted
      <4> QED
        BY <4>1, <4>2, Numbers
    <3> QED
      BY <2>6, <3>2 DEF OpenPart, panelVars, senderVars, wireVars, envVars, Emitted
  <2>7. CASE Register
    BY <2>7 DEF Register, panelVars, diskVars, envVars, senderVars, Emitted
  <2>8. CASE ReceiveFrame
    BY <2>8 DEF ReceiveFrame, panelVars, handlerVars, diskVars, envVars, senderVars,
       Emitted
  <2>9. CASE EndWrite
    <3>1. stored' = stored + 1 /\ stored + 1 <= Declared /\ stored + 1 \in 1..next
      BY <2>9, Numbers DEF EndWrite, Emitted
    <3>2. good' \cup torn' \subseteq 1..next
      BY <2>9, <3>1 DEF EndWrite, Emitted
    <3> QED
      BY <2>9, <3>1, <3>2 DEF EndWrite, Fault, panelVars, senderVars, handlerVars, envVars,
         Emitted
  <2>10. CASE CancelUpload
    BY <2>10 DEF CancelUpload, panelVars, handlerVars, envVars, senderVars, Emitted
  <2>11. CASE FinishUpload
    BY <2>11 DEF FinishUpload, Verified, panelVars, handlerVars, envVars, senderVars,
       Emitted
  <2>12. CASE SendDone \/ AskResume \/ GiveUp \/ TakeVerdict \/ BodyFails \/
         PanelNotices \/ Reconnect \/ StartUpload \/ StartWrite \/ FailWrite \/ Forget
    BY <2>12 DEF SendDone, senderVars, agentVars, envVars, handlerVars, receiverVars,
       diskVars, AskResume, wireVars, GiveUp, TakeVerdict, BodyFails, Fault, PanelNotices,
       Reconnect, panelVars, StartUpload, StartWrite, FailWrite, Forget, Emitted
  <2>13. CASE UNCHANGED vars
    BY <2>13 DEF vars, senderVars, panelVars, wireVars, handlerVars, receiverVars,
       diskVars, agentVars, envVars, Emitted
  <2> QED
    BY <2>1, <2>2, <2>3, <2>4, <2>5, <2>6, <2>7, <2>8, <2>9, <2>10, <2>11, <2>12, <2>13
       DEF Next, PanelStep, AgentStep, Ended
<1> QED
  BY <1>1, <1>2, TypedHolds, DetachedHolds, PTL DEF Spec

\* Without a crash or a short write no chunk is torn, and no offset lies inside one.
THEOREM UntornHolds == Spec => []Untorn
<1>1. Init => Untorn
  BY DEF Init, Untorn, Honest
<1>2. Untorn /\ [Next]_vars => Untorn'
  <2> SUFFICES ASSUME Untorn, [Next]_vars
               PROVE  Untorn'
    OBVIOUS
  <2>1. CASE BodyFails
    BY <2>1 DEF BodyFails, Fault, agentVars, handlerVars, receiverVars, diskVars, Untorn,
       Honest
  <2>2. CASE Cut
    BY <2>2 DEF Cut, Fault, diskVars, Untorn, Honest
  <2>3. CASE AgentCrash
    BY <2>3 DEF AgentCrash, Fault, Untorn, Honest
  <2>4. CASE OpenPart
    BY <2>4 DEF OpenPart, Offsets, PartOffset, envVars, Untorn, Honest
  <2>5. CASE Register
    BY <2>5 DEF Register, diskVars, envVars, Untorn, Honest
  <2>6. CASE EndWrite
    BY <2>6 DEF EndWrite, envVars, Fault, Acked, handlerVars, Untorn, Honest
  <2>7. CASE FailWrite
    BY <2>7 DEF FailWrite, envVars, Fault, handlerVars, diskVars, Untorn, Honest
  <2>8. CASE CancelUpload
    BY <2>8 DEF CancelUpload, handlerVars, envVars, Untorn, Honest
  <2>9. CASE FinishUpload
    BY <2>9 DEF FinishUpload, Verified, handlerVars, envVars, Untorn, Honest
  <2>10. CASE EmitChunk \/ OnAck \/ SendDone \/ AskResume \/ GiveUp \/ Resume \/
         TakeVerdict \/ PanelNotices \/ Reconnect \/ StartUpload \/ ReceiveFrame \/
         StartWrite \/ Forget
    BY <2>10 DEF EmitChunk, agentVars, envVars, handlerVars, receiverVars, diskVars,
       OnAck, SendDone, AskResume, GiveUp, Resume, TakeVerdict, PanelNotices, Reconnect,
       StartUpload, ReceiveFrame, StartWrite, Forget, Untorn, Honest
  <2>11. CASE UNCHANGED vars
    BY <2>11 DEF vars, handlerVars, receiverVars, diskVars, agentVars, envVars, Untorn,
       Honest
  <2> QED
    BY <2>1, <2>2, <2>3, <2>4, <2>5, <2>6, <2>7, <2>8, <2>9, <2>10, <2>11 DEF Next,
       PanelStep, AgentStep, Ended
<1> QED
  BY <1>1, <1>2, PTL DEF Spec

\* The .part file has no hole, and holds whatever was reported.
THEOREM ContiguousHolds == Spec => []Contiguous
<1>1. Init => Contiguous
  <2> SUFFICES ASSUME Init PROVE Contiguous
    OBVIOUS
  <2>1. Reported = {0}
    BY DEF Init, Reported
  <2>2. 1..0 = {} /\ 0 <= Declared
    BY Sizes
  <2> QED
    BY <2>1, <2>2 DEF Init, Contiguous
<1>2. Typed /\ Detached /\ Emitted /\ UnderWay /\ Contiguous /\ [Next]_vars => Contiguous'
  <2> SUFFICES ASSUME Typed, Detached, Emitted, UnderWay, Contiguous,
                 [Next]_vars
               PROVE  Contiguous'
    OBVIOUS
  <2>1. CASE EmitChunk
    BY <2>1 DEF EmitChunk, HasRoom, uploadVars, agentVars, handlerVars, receiverVars,
       diskVars, Contiguous, Reported
  <2>2. CASE OnAck
    <3>1. Len(acks') = Len(acks) - 1 /\ Head(acks) = acks[1] /\ Len(acks) \in Nat \ {0}
          /\ \A i \in 1..Len(acks') : acks'[i] = acks[i + 1]
      BY <2>2, Numbers, HeadTailProperties, EmptySeq DEF OnAck
    <3>2. acks[1] \in Reported /\ acked \in Reported
      BY <3>1 DEF Reported
    <3>3. UNCHANGED <<started, status, good, torn, entry, stored, handler, startOff>>
      BY <2>2 DEF OnAck, uploadVars, agentVars, handlerVars, receiverVars, diskVars
    <3>4. acked' \in {acked, acks[1], next}
      BY <2>2, <3>1 DEF OnAck
    <3>5. acked' = next => next \in {acked, acks[1]} \/ next < acks[1]
      BY <2>2, <3>1, Numbers, ElementOfSeq DEF OnAck
    <3>6. ASSUME NEW a \in Reported', status = "sending"
          PROVE  a <= Declared /\ 1..a \subseteq good \cup torn
      <4>1. CASE a \in Reported
        BY <3>6, <4>1 DEF Contiguous
      <4>2. CASE a = acked'
        <5>1. acks[1] <= Declared /\ 1..acks[1] \subseteq good \cup torn /\ acks[1] \in Nat
          BY <3>1, <3>2, <3>6, Numbers, ElementOfSeq DEF Contiguous
        <5> QED
          BY <3>2, <3>4, <3>5, <3>6, <4>2, <5>1, Numbers DEF Contiguous
      <4>3. a \in Reported \/ a = acked'
        <5>1. ASSUME NEW i \in 1..Len(acks') PROVE acks'[i] \in Reported
          <6>1. i + 1 \in 1..Len(acks) /\ acks'[i] = acks[i + 1]
            BY <3>1
          <6> QED
            BY <6>1 DEF Reported
        <5> QED
          BY <3>3, <5>1 DEF Reported
      <4> QED
        BY <4>1, <4>2, <4>3
    <3> QED
      BY <3>3, <3>6 DEF Contiguous
  <2>3. CASE SendDone
    BY <2>3 DEF SendDone, Fail, senderVars, agentVars, handlerVars, receiverVars,
       diskVars, Contiguous, Reported
  <2>4. CASE AskResume
    BY <2>4 DEF AskResume, senderVars, wireVars, agentVars, handlerVars, receiverVars,
       diskVars, Contiguous, Reported
  <2>5. CASE GiveUp
    BY <2>5 DEF GiveUp, Fail, senderVars, agentVars, handlerVars, receiverVars, diskVars,
       Contiguous, Reported
  <2>6. CASE Resume
    BY <2>6 DEF Resume, Fail, agentVars, handlerVars, receiverVars, diskVars, Contiguous,
       Reported, Chunks, Detached, Emitted, UnderWay
  <2>7. CASE TakeVerdict
    BY <2>7 DEF TakeVerdict, Fail, senderVars, agentVars, handlerVars, receiverVars,
       diskVars, Contiguous, Reported
  <2>8. CASE BodyFails
    BY <2>8 DEF BodyFails, Fail, senderVars, agentVars, handlerVars, receiverVars,
       diskVars, Contiguous, Reported
  <2>9. CASE Cut
    BY <2>9 DEF Cut, LoseConnection, diskVars, senderVars, Contiguous, Reported
  <2>10. CASE AgentCrash
    <3>1. \/ good' \cup torn' = good \cup torn
          \/ writing /\ good' \cup torn' = good \cup torn \cup {stored + 1}
      BY <2>10 DEF AgentCrash
    <3>2. good \cup torn \subseteq good' \cup torn'
      BY <3>1
    <3>3. Reported' \subseteq Reported
      BY <2>10 DEF AgentCrash, LoseConnection, panelVars, senderVars, wireVars, Reported
    <3>4. UNCHANGED status /\ entry' = FALSE /\ handler' = "none"
      BY <2>10 DEF AgentCrash, LoseConnection, panelVars, uploadVars
    <3>5. \A c \in good' \cup torn' : 1..c \subseteq good' \cup torn'
      <4>1. writing => 1..(stored + 1) \subseteq good \cup torn \cup {stored + 1}
        BY Numbers DEF Contiguous
      <4> QED
        BY <3>1, <4>1 DEF Contiguous
    <3> QED
      BY <3>2, <3>3, <3>4, <3>5 DEF Contiguous
  <2>11. CASE PanelNotices
    BY <2>11 DEF PanelNotices, agentVars, handlerVars, receiverVars, diskVars,
       Contiguous, Reported
  <2>12. CASE Reconnect
    BY <2>12 DEF Reconnect, panelVars, agentVars, senderVars, uploadVars, handlerVars,
       receiverVars, diskVars, Contiguous, Reported
  <2>13. CASE StartUpload
    BY <2>13 DEF StartUpload, panelVars, wireVars, receiverVars, diskVars, senderVars,
       uploadVars, Contiguous, Reported
  <2>14. CASE OpenPart
    <3>1. startOff' \in Offsets /\ PartOffset(startOff') /\ entry' = FALSE
          /\ good' \cup torn' = {c \in good \cup torn : c <= Declared}
      BY <2>14 DEF OpenPart
    <3>2. \A c \in Nat : c <= Declared /\ 1..c \subseteq good \cup torn =>
              1..c \subseteq good' \cup torn'
      BY <3>1, Numbers
    <3>3. \A c \in good' \cup torn' : 1..c \subseteq good' \cup torn'
      BY <3>1, <3>2, Numbers DEF Contiguous
    <3>4. 1..startOff'.off \subseteq good' \cup torn'
      <4>1. PICK last \in good \cup torn \cup {0} : last \in Nat /\ startOff'.off \in Nat
                /\ startOff'.off <= last /\ startOff'.off <= Declared
        BY <3>1, Measured
      <4>2. 1..last \subseteq good \cup torn
        BY <4>1 DEF Contiguous
      <4> QED
        BY <3>2, <4>1, <4>2
    <3>5. Reported' = Reported /\ UNCHANGED status
      BY <2>14 DEF OpenPart, panelVars, senderVars, uploadVars, wireVars, Reported
    <3>6. Reported \subseteq Nat
      BY Numbers, ElementOfSeq DEF Reported
    <3> QED
      BY <3>1, <3>2, <3>3, <3>4, <3>5, <3>6 DEF Contiguous
  <2>15. CASE Register
    BY <2>15 DEF Register, panelVars, diskVars, senderVars, uploadVars, Contiguous,
       Reported, Emitted
  <2>16. CASE ReceiveFrame
    BY <2>16 DEF ReceiveFrame, panelVars, handlerVars, diskVars, senderVars, uploadVars,
       Contiguous, Reported
  <2>17. CASE StartWrite
    BY <2>17 DEF StartWrite, panelVars, wireVars, handlerVars, diskVars, senderVars,
       uploadVars, Contiguous, Reported
  <2>18. CASE EndWrite
    <3>1. entry /\ stored + 1 <= Declared /\ stored' = stored + 1 /\ handler # "opening"
      BY <2>18, Numbers DEF EndWrite, Typed, Writing
    <3>2. good' \cup torn' = good \cup torn \cup {stored + 1}
      BY <2>18 DEF EndWrite
    <3>3. 1..(stored + 1) \subseteq good' \cup torn'
      BY <3>1, <3>2, Numbers DEF Contiguous
    <3>4. Reported' \subseteq Reported \cup {stored + 1}
      <4>1. acks' = acks \/ acks' = Append(acks, stored + 1)
        BY <2>18 DEF EndWrite, Acked
      <4>2. UNCHANGED <<acked, started>>
        BY <2>18 DEF EndWrite, panelVars, senderVars
      <4>3. CASE acks' = acks
        BY <4>2, <4>3 DEF Reported
      <4>4. CASE acks' = Append(acks, stored + 1)
        <5>1. Len(acks') = Len(acks) + 1 /\ acks'[Len(acks) + 1] = stored + 1 /\ Len(acks) \in Nat
              /\ \A i \in 1..Len(acks) : acks'[i] = acks[i]
          BY <4>4, Numbers, AppendProperties, LenProperties
        <5>2. \A i \in 1..Len(acks') : i \in 1..Len(acks) \/ i = Len(acks) + 1
          BY <5>1
        <5> QED
          BY <4>2, <5>1, <5>2 DEF Reported
      <4> QED
        BY <4>1, <4>3, <4>4
    <3>5. UNCHANGED <<status, handler, startOff, entry>>
      BY <2>18 DEF EndWrite, panelVars, uploadVars, handlerVars
    <3>6. \A c \in good' \cup torn' : 1..c \subseteq good' \cup torn'
      BY <3>2, <3>3 DEF Contiguous
    <3> QED
      BY <3>1, <3>2, <3>3, <3>4, <3>5, <3>6 DEF Contiguous
  <2>19. CASE FailWrite
    BY <2>19 DEF FailWrite, panelVars, wireVars, handlerVars, diskVars, senderVars,
       uploadVars, Contiguous, Reported
  <2>20. CASE Forget
    BY <2>20 DEF Forget, panelVars, wireVars, handlerVars, diskVars, senderVars,
       uploadVars, Contiguous, Reported
  <2>21. CASE CancelUpload
    BY <2>21 DEF CancelUpload, panelVars, handlerVars, uploadVars, Contiguous, Typed,
       Writing, UnderWay
  <2>22. CASE FinishUpload
    BY <2>22 DEF FinishUpload, panelVars, handlerVars, uploadVars, Contiguous, Typed,
       Writing, UnderWay
  <2>23. CASE UNCHANGED vars
    BY <2>23 DEF vars, senderVars, uploadVars, panelVars, wireVars, handlerVars,
       receiverVars, diskVars, agentVars, Contiguous, Reported
  <2> QED
    BY <2>1, <2>2, <2>3, <2>4, <2>5, <2>6, <2>7, <2>8, <2>9, <2>10, <2>11, <2>12, <2>13,
       <2>14, <2>15, <2>16, <2>17, <2>18, <2>19, <2>20, <2>21, <2>22, <2>23 DEF Next,
       PanelStep, AgentStep, Ended
<1> QED
  BY <1>1, <1>2, TypedHolds, DetachedHolds, EmittedHolds, UnderWayHolds, PTL DEF Spec

\* What was emitted and not acknowledged is retained.
THEOREM RetainedHolds == Spec => []Retained
<1>1. Init => Retained
  BY DEF Init, Retained
<1>2. Typed /\ Emitted /\ Retained /\ [Next]_vars => Retained'
  <2> SUFFICES ASSUME Typed, Emitted, Retained, [Next]_vars
               PROVE  Retained'
    OBVIOUS
  <2>1. CASE EmitChunk
    BY <2>1 DEF EmitChunk, Retained, Typed, TypeOK, SenderOK
  <2>2. CASE OnAck
    <3>1. CASE UNCHANGED <<acked, retained>>
      BY <2>2, <3>1 DEF OnAck, Retained
    <3>2. CASE acked <= acked' /\ acked' \in Nat /\ retained' = Unacked(acked')
      BY <2>2, <3>2, Numbers DEF OnAck, Unacked, Retained
    <3>3. Head(acks) \in Nat
      BY <2>2, Numbers, HeadTailProperties DEF OnAck
    <3> QED
      BY <2>2, <3>1, <3>2, <3>3, Numbers DEF OnAck, Emitted
  <2>3. CASE SendDone
    BY <2>3 DEF SendDone, senderVars, Retained
  <2>4. CASE AskResume
    BY <2>4 DEF AskResume, senderVars, Retained
  <2>5. CASE GiveUp
    BY <2>5 DEF GiveUp, senderVars, Retained
  <2>6. CASE Resume
    BY <2>6 DEF Resume, Unacked, Retained, Typed, TypeOK, SenderOK, WireOK, Offsets
  <2>7. CASE TakeVerdict
    BY <2>7 DEF TakeVerdict, senderVars, Retained
  <2>8. CASE BodyFails
    BY <2>8 DEF BodyFails, senderVars, Retained
  <2>9. CASE Cut
    BY <2>9 DEF Cut, LoseConnection, senderVars, Retained
  <2>10. CASE AgentCrash
    BY <2>10 DEF AgentCrash, LoseConnection, panelVars, senderVars, Retained
  <2>11. CASE PanelNotices
    BY <2>11 DEF PanelNotices, Retained
  <2>12. CASE Reconnect
    BY <2>12 DEF Reconnect, panelVars, senderVars, Retained
  <2>13. CASE StartUpload
    BY <2>13 DEF StartUpload, panelVars, senderVars, Retained
  <2>14. CASE OpenPart
    BY <2>14 DEF OpenPart, Offsets, PartOffset, panelVars, senderVars, Retained
  <2>15. CASE Register
    BY <2>15 DEF Register, panelVars, senderVars, Retained
  <2>16. CASE ReceiveFrame
    BY <2>16 DEF ReceiveFrame, panelVars, senderVars, Retained
  <2>17. CASE StartWrite
    BY <2>17 DEF StartWrite, panelVars, senderVars, Retained
  <2>18. CASE EndWrite
    BY <2>18 DEF EndWrite, Acked, panelVars, senderVars, Retained
  <2>19. CASE FailWrite
    BY <2>19 DEF FailWrite, panelVars, senderVars, Retained
  <2>20. CASE Forget
    BY <2>20 DEF Forget, panelVars, senderVars, Retained
  <2>21. CASE CancelUpload
    BY <2>21 DEF CancelUpload, panelVars, senderVars, Retained
  <2>22. CASE FinishUpload
    BY <2>22 DEF FinishUpload, Verified, panelVars, senderVars, Retained
  <2>23. CASE UNCHANGED vars
    BY <2>23 DEF vars, senderVars, panelVars, Retained
  <2> QED
    BY <2>1, <2>2, <2>3, <2>4, <2>5, <2>6, <2>7, <2>8, <2>9, <2>10, <2>11, <2>12, <2>13,
       <2>14, <2>15, <2>16, <2>17, <2>18, <2>19, <2>20, <2>21, <2>22, <2>23 DEF Next,
       PanelStep, AgentStep, Ended
<1> QED
  BY <1>1, <1>2, TypedHolds, EmittedHolds, PTL DEF Spec

\* What was hashed is on the disk, but for a short write.
THEOREM HashedHolds == Spec => []Hashed
<1>1. Init => Hashed
  BY DEF Init, Hashed
<1>2. Typed /\ Hashed /\ [Next]_vars => Hashed'
  <2> SUFFICES ASSUME Typed, Hashed, [Next]_vars
               PROVE  Hashed'
    OBVIOUS
  <2>1. CASE BodyFails
    BY <2>1 DEF BodyFails, Fault, agentVars, receiverVars, diskVars, Hashed
  <2>2. CASE Cut
    BY <2>2 DEF Cut, Fault, diskVars, Hashed
  <2>3. CASE AgentCrash
    BY <2>3 DEF AgentCrash, Fault, Hashed
  <2>4. CASE OpenPart
    BY <2>4 DEF OpenPart, Offsets, PartOffset, envVars, Hashed
  <2>5. CASE Register
    BY <2>5 DEF Register, diskVars, envVars, Hashed
  <2>6. CASE EndWrite
    BY <2>6 DEF EndWrite, envVars, Fault, Hashed, Typed, TypeOK, ReceiverOK
  <2>7. CASE FailWrite
    BY <2>7 DEF FailWrite, envVars, Fault, diskVars, Hashed
  <2>8. CASE Forget
    BY <2>8 DEF Forget, diskVars, envVars, Hashed
  <2>9. CASE CancelUpload
    BY <2>9 DEF CancelUpload, envVars, Hashed
  <2>10. CASE FinishUpload
    BY <2>10 DEF FinishUpload, Verified, envVars, Hashed
  <2>11. CASE EmitChunk \/ OnAck \/ SendDone \/ AskResume \/ GiveUp \/ Resume \/
         TakeVerdict \/ PanelNotices \/ Reconnect \/ StartUpload \/ ReceiveFrame \/
         StartWrite
    BY <2>11 DEF EmitChunk, agentVars, envVars, receiverVars, diskVars, OnAck, SendDone,
       AskResume, GiveUp, Resume, TakeVerdict, PanelNotices, Reconnect, StartUpload,
       ReceiveFrame, StartWrite, Hashed
  <2>12. CASE UNCHANGED vars
    BY <2>12 DEF vars, receiverVars, diskVars, agentVars, envVars, Hashed
  <2> QED
    BY <2>1, <2>2, <2>3, <2>4, <2>5, <2>6, <2>7, <2>8, <2>9, <2>10, <2>11, <2>12 DEF
       Next, PanelStep, AgentStep, Ended
<1> QED
  BY <1>1, <1>2, TypedHolds, PTL DEF Spec

\* The frames on the wire continue what the receiver expects.
THEOREM InOrderHolds == Spec => []InOrder
<1>1. Init => InOrder
  BY DEF Init, InOrder
<1>2. Typed /\ Wired /\ Detached /\ InOrder /\ [Next]_vars => InOrder'
  <2> SUFFICES ASSUME Typed, Wired, Detached, InOrder, [Next]_vars
               PROVE  InOrder'
    OBVIOUS
  <2>1. CASE EmitChunk
    <3>1. started = {} /\ started' = {} /\ next' = next + 1
          /\ UNCHANGED <<entry, expected, rfail, mid, registry>>
      BY <2>1 DEF EmitChunk, Detached, agentVars, receiverVars
    <3>2. CASE registry # "live"
      BY <3>1, <3>2 DEF InOrder
    <3>3. CASE registry = "live"
      <4>1. frames' = Append(frames, next + 1) /\ attached
        BY <2>1, <3>3 DEF EmitChunk
      <4>2. /\ Len(frames) \in Nat /\ Len(frames') = Len(frames) + 1 /\ frames' # <<>>
            /\ \A i \in 1..Len(frames) : frames'[i] = frames[i] /\ frames[i] \in Nat
            /\ frames'[Len(frames) + 1] = next + 1
            /\ frames # <<>> => Len(frames) # 0
        BY <4>1, Numbers, AppendProperties, LenProperties, ElementOfSeq, EmptySeq
      <4>3. CASE frames = <<>>
        <5>1. Len(frames) = 0
          BY <4>3
        <5> QED
          BY <3>1, <3>3, <4>1, <4>2, <4>3, <5>1, Numbers DEF InOrder
      <4>4. CASE frames # <<>>
        <5> SUFFICES ASSUME entry, rfail = "none", ~mid
                     PROVE  /\ frames'[1] <= expected + 1 /\ next + 1 <= frames'[Len(frames')]
                            /\ \A i \in 1..(Len(frames') - 1) : frames'[i + 1] <= frames'[i] + 1
          BY <3>1, <4>2 DEF InOrder
        <5>1. /\ frames[1] <= expected + 1 /\ next <= frames[Len(frames)]
              /\ \A i \in 1..(Len(frames) - 1) : frames[i + 1] <= frames[i] + 1
          BY <3>3, <4>1, <4>4 DEF InOrder
        <5>2. Len(frames) > 0 /\ frames'[1] = frames[1] /\ frames'[Len(frames')] = next + 1
          BY <4>2, <4>4
        <5>3. ASSUME NEW i \in 1..(Len(frames') - 1) PROVE frames'[i + 1] <= frames'[i] + 1
          <6>1. CASE i = Len(frames)
            <7>1. frames'[i + 1] = next + 1 /\ frames'[i] = frames[Len(frames)]
              BY <4>2, <5>2, <6>1
            <7>2. frames[Len(frames)] \in Nat /\ next \in Nat
              BY <4>2, <5>2, Numbers
            <7> QED
              BY <5>1, <7>1, <7>2
          <6>2. CASE i # Len(frames)
            BY <4>2, <5>1, <6>2
          <6> QED
            BY <6>1, <6>2
        <5>4. next + 1 <= frames'[Len(frames')]
          BY <5>2, Numbers
        <5> QED
          BY <5>1, <5>2, <5>3, <5>4
      <4> QED
        BY <4>3, <4>4
    <3> QED
      BY <2>1, <3>2, <3>3 DEF EmitChunk
  <2>2. CASE Resume
    <3>1. started' = {} /\ UNCHANGED <<next, registry, entry, expected, rfail, mid>>
      BY <2>2, Resumed DEF Resume, agentVars, receiverVars
    <3>2. CASE UNCHANGED <<attached, frames>>
      BY <2>2, Resumed, <3>1, <3>2 DEF InOrder
    <3>3. CASE startOff.off <= next /\ frames' = Reemitted(startOff.off)
      <4>1. entry => expected = startOff.off
        BY <2>2, Resumed DEF InOrder
      <4>2. Len(frames') = next - startOff.off /\ frames' \in Seq(Nat)
            /\ \A i \in 1..(next - startOff.off) : frames'[i] = startOff.off + i
        BY <3>3, Reemission, Numbers
      <4>3. CASE next = startOff.off
        <5>1. Len(frames') = 0 /\ frames' = <<>>
          BY <4>2, <4>3, Numbers, EmptySeq
        <5> QED
          BY <3>1, <4>1, <4>3, <5>1, Numbers DEF InOrder
      <4>4. CASE next # startOff.off
        <5>0. next \in Nat /\ startOff.off \in Nat
          BY Numbers
        <5>1. Len(frames') > 0 /\ frames'[1] = startOff.off + 1 /\ frames'[Len(frames')] = next
          <6>1. next - startOff.off \in Nat \ {0}
            BY <3>3, <4>4, <5>0
          <6> QED
            BY <4>2, <5>0, <6>1
        <5>2. \A i \in 1..(Len(frames') - 1) : frames'[i + 1] <= frames'[i] + 1
          <6> SUFFICES ASSUME NEW i \in 1..(next - startOff.off - 1)
                       PROVE  frames'[i + 1] <= frames'[i] + 1
            BY <4>2
          <6>1. i \in 1..(next - startOff.off) /\ i + 1 \in 1..(next - startOff.off)
            BY <5>0
          <6>2. frames'[i] = startOff.off + i /\ frames'[i + 1] = startOff.off + (i + 1)
            BY <4>2, <6>1
          <6> QED
            BY <5>0, <6>2
        <5> QED
          BY <3>1, <4>1, <5>1, <5>2, Numbers DEF InOrder
      <4> QED
        BY <4>3, <4>4
    <3> QED
      BY <2>2, Resumed, <3>2, <3>3
  <2>3. CASE Cut
    BY <2>3 DEF Cut, LoseConnection, senderVars, InOrder
  <2>4. CASE AgentCrash
    BY <2>4 DEF AgentCrash, LoseConnection, panelVars, wireVars, senderVars, InOrder
  <2>5. CASE PanelNotices
    BY <2>5 DEF PanelNotices, agentVars, receiverVars, InOrder
  <2>6. CASE Reconnect
    BY <2>6 DEF Reconnect, panelVars, senderVars, InOrder, Wired
  <2>7. CASE OpenPart
    BY <2>7 DEF OpenPart, Offsets, PartOffset, panelVars, wireVars, senderVars, InOrder
  <2>8. CASE Register
    BY <2>8 DEF Register, panelVars, senderVars, InOrder, Detached
  <2>9. CASE ReceiveFrame
    <3>1. /\ Head(frames) = frames[1] /\ frames[1] \in Nat /\ Len(frames) \in Nat \ {0}
          /\ Len(frames') = Len(frames) - 1
          /\ \A i \in 1..Len(frames') : frames'[i] = frames[i + 1]
      BY <2>9, Numbers, HeadTailProperties, EmptySeq DEF ReceiveFrame
    <3>2. started = {} /\ UNCHANGED <<started, next, attached, registry, entry, mid>>
      BY <2>9 DEF ReceiveFrame, Detached, panelVars, senderVars
    <3>3. ASSUME attached, registry = "live", entry, rfail' = "none", ~mid
          PROVE  /\ frames' = <<>> => next <= expected'
                 /\ frames' # <<>> => frames'[1] <= expected' + 1 /\ next <= frames'[Len(frames')]
                 /\ \A i \in 1..(Len(frames') - 1) : frames'[i + 1] <= frames'[i] + 1
      <4>1. rfail = "none"
        BY <2>9, <3>3 DEF ReceiveFrame
      <4>2. /\ frames[1] <= expected + 1 /\ next <= frames[Len(frames)]
            /\ \A i \in 1..(Len(frames) - 1) : frames[i + 1] <= frames[i] + 1
        BY <2>9, <3>3, <4>1 DEF ReceiveFrame, InOrder
      <4>3. frames[1] <= expected' /\ expected' \in Nat
        BY <2>9, <3>1, <3>3, <4>1, <4>2, Numbers DEF ReceiveFrame
      <4>4. \A i \in 1..Len(frames) : frames[i] \in Nat
        BY Numbers, ElementOfSeq
      <4>5. CASE Len(frames) = 1
        <5>1. frames' = <<>> /\ Len(frames') = 0
          <6>1. frames' \in Seq(Nat) /\ Len(frames') = 0
            BY <2>9, <3>1, <4>5, Numbers, HeadTailProperties DEF ReceiveFrame
          <6> QED
            BY <6>1, EmptySeq
        <5> QED
          BY <4>2, <4>3, <4>5, <5>1, <3>1, Numbers
      <4>6. CASE Len(frames) > 1
        <5>1. frames' # <<>> /\ frames'[1] = frames[2] /\ frames'[Len(frames')] =
                  frames[Len(frames)]
          BY <3>1, <4>6
        <5>2. frames[2] <= frames[1] + 1 /\ frames[2] \in Nat
          BY <4>2, <4>4, <4>6
        <5>3. \A i \in 1..(Len(frames') - 1) : frames'[i + 1] <= frames'[i] + 1
          BY <3>1, <4>2, <4>6
        <5> QED
          <6>1. frames'[1] <= expected' + 1
            BY <3>1, <4>3, <5>1, <5>2
          <6> QED
            BY <4>2, <5>1, <5>3, <6>1
      <4> QED
        BY <3>1, <4>5, <4>6
    <3> QED
      BY <3>2, <3>3 DEF InOrder
  <2>10. CASE FailWrite
    BY <2>10 DEF FailWrite, panelVars, wireVars, senderVars, InOrder
  <2>11. CASE Forget
    BY <2>11 DEF Forget, panelVars, wireVars, senderVars, InOrder
  <2>12. CASE CancelUpload
    BY <2>12 DEF CancelUpload, panelVars, senderVars, InOrder
  <2>13. CASE FinishUpload
    BY <2>13 DEF FinishUpload, Verified, panelVars, senderVars, InOrder
  <2>14. CASE OnAck \/ SendDone \/ AskResume \/ GiveUp \/ TakeVerdict \/ BodyFails \/
         StartUpload \/ StartWrite \/ EndWrite
    BY <2>14 DEF OnAck, agentVars, receiverVars, SendDone, senderVars, AskResume,
       wireVars, GiveUp, TakeVerdict, BodyFails, StartUpload, panelVars, StartWrite,
       EndWrite, InOrder
  <2>15. CASE UNCHANGED vars
    BY <2>15 DEF vars, senderVars, panelVars, wireVars, receiverVars, agentVars, InOrder
  <2> QED
    BY <2>1, <2>2, <2>3, <2>4, <2>5, <2>6, <2>7, <2>8, <2>9, <2>10, <2>11, <2>12, <2>13,
       <2>14, <2>15 DEF Next, PanelStep, AgentStep, Ended
<1> QED
  BY <1>1, <1>2, TypedHolds, WiredHolds, DetachedHolds, PTL DEF Spec

\* The window is respected, whatever is cut, resumed and acknowledged late.
THEOREM WindowRespectedHolds == Spec => []WindowRespected
<1>1. Init => WindowRespected
  BY FS_EmptySet, Sizes DEF Init, WindowRespected
<1>2. Typed /\ Detached /\ WindowRespected /\ [Next]_vars => WindowRespected'
  <2> SUFFICES ASSUME Typed, Detached, WindowRespected, [Next]_vars
               PROVE  WindowRespected'
    OBVIOUS
  <2>1. CASE EmitChunk
    <3>1. IsFiniteSet(retained)
      BY RetainedFinite
    <3>2. Cardinality(retained) \in Nat
      BY <3>1, FS_CardinalityType
    <3>3. Cardinality(retained') \in {Cardinality(retained), Cardinality(retained) + 1}
      BY <2>1, <3>1, FS_AddElement DEF EmitChunk
    <3> QED
      BY <2>1, <3>2, <3>3, Sizes DEF EmitChunk, HasRoom, WindowRespected
  <2>2. CASE OnAck
    <3>1. retained' \subseteq retained
      BY <2>2 DEF OnAck, Unacked
    <3> QED
      BY <3>1, RetainedFinite, FS_Subset, FS_CardinalityType, Sizes DEF WindowRespected
  <2>3. CASE Resume
    <3>1. retained' \subseteq retained
      BY <2>3, Resumed DEF Unacked
    <3> QED
      BY <3>1, RetainedFinite, FS_Subset, FS_CardinalityType, Sizes DEF WindowRespected
  <2>4. CASE SendDone \/ AskResume \/ GiveUp \/ TakeVerdict \/ BodyFails \/ Cut \/
         AgentCrash \/ PanelNotices \/ Reconnect \/ StartUpload \/ OpenPart \/ Register \/
         ReceiveFrame \/ StartWrite \/ EndWrite \/ FailWrite \/ Forget \/ CancelUpload \/
         FinishUpload
    BY <2>4 DEF SendDone, senderVars, AskResume, GiveUp, TakeVerdict, BodyFails, Cut,
       LoseConnection, AgentCrash, panelVars, PanelNotices, Reconnect, StartUpload,
       OpenPart, Register, ReceiveFrame, StartWrite, EndWrite, FailWrite, Forget,
       CancelUpload, FinishUpload, WindowRespected
  <2>5. CASE UNCHANGED vars
    BY <2>5 DEF vars, senderVars, panelVars, WindowRespected
  <2> QED
    BY <2>1, <2>2, <2>3, <2>4, <2>5 DEF Next, PanelStep, AgentStep, Ended
<1> QED
  BY <1>1, <1>2, TypedHolds, DetachedHolds, PTL DEF Spec

\* With no torn chunk the receiver never sees a gap.
THEOREM NoGapHolds == Spec => []NoGap
<1>1. Init => NoGap
  BY DEF Init, NoGap
<1>2. Typed /\ Wired /\ Detached /\ Untorn /\ InOrder /\ NoGap /\ [Next]_vars => NoGap'
  <2> SUFFICES ASSUME Typed, Wired, Detached, Untorn, InOrder, NoGap,
                 [Next]_vars
               PROVE  NoGap'
    OBVIOUS
  <2>1. CASE BodyFails
    BY <2>1 DEF BodyFails, Fault, agentVars, receiverVars, NoGap
  <2>2. CASE Cut
    BY <2>2 DEF Cut, Fault, NoGap
  <2>3. CASE AgentCrash
    BY <2>3 DEF AgentCrash, Fault, NoGap
  <2>4. CASE Register
    BY <2>4 DEF Register, envVars, NoGap
  <2>5. CASE ReceiveFrame
    <3> SUFFICES ASSUME Honest, rfail # "gap", rfail' = "gap" PROVE FALSE
      BY <2>5 DEF ReceiveFrame, envVars, NoGap, Honest
    <3>1. entry /\ rfail = "none" /\ Head(frames) > expected + 1 /\ frames # <<>>
      BY <2>5 DEF ReceiveFrame
    <3>2. ~mid /\ attached /\ registry = "live"
      BY <3>1 DEF Untorn, Wired, Detached
    <3>3. frames[1] <= expected + 1
      BY <3>1, <3>2 DEF InOrder
    <3>4. Head(frames) = frames[1] /\ frames[1] \in Nat
      BY <3>1, Numbers, HeadTailProperties
    <3> QED
      BY <3>1, <3>3, <3>4, Numbers
  <2>6. CASE EndWrite
    BY <2>6 DEF EndWrite, envVars, Fault, Acked, NoGap
  <2>7. CASE FailWrite
    BY <2>7 DEF FailWrite, envVars, Fault, NoGap
  <2>8. CASE EmitChunk \/ OnAck \/ SendDone \/ AskResume \/ GiveUp \/ Resume \/
         TakeVerdict \/ PanelNotices \/ Reconnect \/ StartUpload \/ OpenPart \/ StartWrite
         \/ Forget \/ CancelUpload \/ FinishUpload
    BY <2>8 DEF EmitChunk, agentVars, envVars, receiverVars, OnAck, SendDone, AskResume,
       GiveUp, Resume, TakeVerdict, PanelNotices, Reconnect, StartUpload, OpenPart,
       StartWrite, Forget, CancelUpload, FinishUpload, NoGap
  <2>9. CASE UNCHANGED vars
    BY <2>9 DEF vars, receiverVars, agentVars, envVars, NoGap
  <2> QED
    BY <2>1, <2>2, <2>3, <2>4, <2>5, <2>6, <2>7, <2>8, <2>9 DEF Next, PanelStep,
       AgentStep, Ended
<1> QED
  BY <1>1, <1>2, TypedHolds, WiredHolds, DetachedHolds, UntornHolds, InOrderHolds, PTL
     DEF Spec

\* The agent resumes where it acknowledged, or further.
THEOREM ResumableHolds == Spec => []Resumable
<1>1. Init => Resumable
  BY DEF Init, Resumable, Honest
<1>2. Typed /\ Wired /\ Detached /\ Contiguous /\ Untorn /\ Resumable /\ [Next]_vars => Resumable'
  <2> SUFFICES ASSUME Typed, Wired, Detached, Contiguous, Untorn, Resumable,
                 [Next]_vars
               PROVE  Resumable'
    OBVIOUS
  <2>1. CASE OnAck
    BY <2>1 DEF OnAck, agentVars, handlerVars, Resumable, Wired, Detached
  <2>2. CASE SendDone
    BY <2>2 DEF SendDone, Fail, senderVars, agentVars, envVars, handlerVars, Resumable,
       Honest
  <2>3. CASE AskResume
    BY <2>3 DEF AskResume, senderVars, wireVars, agentVars, envVars, handlerVars,
       Resumable, Honest
  <2>4. CASE GiveUp
    BY <2>4 DEF GiveUp, Fail, senderVars, agentVars, envVars, handlerVars, Resumable,
       Honest
  <2>5. CASE Resume
    BY <2>5 DEF Resume, agentVars, handlerVars, Resumable, Detached
  <2>6. CASE TakeVerdict
    BY <2>6 DEF TakeVerdict, Fail, senderVars, agentVars, envVars, handlerVars,
       Resumable, Honest
  <2>7. CASE BodyFails
    BY <2>7 DEF BodyFails, Fault, Fail, senderVars, agentVars, handlerVars, Resumable,
       Honest
  <2>8. CASE Cut
    BY <2>8 DEF Cut, Fault, LoseConnection, senderVars, Resumable, Honest
  <2>9. CASE AgentCrash
    BY <2>9 DEF AgentCrash, Fault, LoseConnection, panelVars, wireVars, senderVars,
       uploadVars, Resumable, Honest
  <2>10. CASE PanelNotices
    BY <2>10 DEF PanelNotices, agentVars, envVars, handlerVars, Resumable, Honest
  <2>11. CASE StartUpload
    BY <2>11 DEF StartUpload, panelVars, wireVars, envVars, senderVars, uploadVars,
       Resumable, Honest
  <2>12. CASE OpenPart
    BY <2>12 DEF OpenPart, Offsets, PartOffset, panelVars, envVars, senderVars,
       uploadVars, Resumable, Honest, Typed, TypeOK, SenderOK, Contiguous, Reported, Untorn
  <2>13. CASE Register
    BY <2>13 DEF Register, panelVars, envVars, senderVars, uploadVars, Resumable, Honest
  <2>14. CASE EndWrite
    BY <2>14 DEF EndWrite, envVars, Fault, Acked, panelVars, handlerVars, senderVars,
       uploadVars, Resumable, Honest
  <2>15. CASE FailWrite
    BY <2>15 DEF FailWrite, envVars, Fault, panelVars, wireVars, handlerVars, senderVars,
       uploadVars, Resumable, Honest
  <2>16. CASE EmitChunk \/ Reconnect \/ ReceiveFrame \/ StartWrite \/ Forget \/
         CancelUpload \/ FinishUpload
    BY <2>16 DEF EmitChunk, uploadVars, agentVars, envVars, handlerVars, Reconnect,
       panelVars, senderVars, ReceiveFrame, StartWrite, wireVars, Forget, CancelUpload,
       FinishUpload, Resumable, Honest
  <2>17. CASE UNCHANGED vars
    BY <2>17 DEF vars, senderVars, uploadVars, panelVars, wireVars, handlerVars,
       agentVars, envVars, Resumable, Honest
  <2> QED
    BY <2>1, <2>2, <2>3, <2>4, <2>5, <2>6, <2>7, <2>8, <2>9, <2>10, <2>11, <2>12, <2>13,
       <2>14, <2>15, <2>16, <2>17 DEF Next, PanelStep, AgentStep, Ended
<1> QED
  BY <1>1, <1>2, TypedHolds, WiredHolds, DetachedHolds, ContiguousHolds, UntornHolds, PTL
     DEF Spec

\* With no torn chunk the agent never resumes where the panel cannot.
THEOREM NeverOutOfWindowHolds == Spec => []NeverOutOfWindow
<1>1. Init => NeverOutOfWindow
  BY DEF Init, NeverOutOfWindow
<1>2. Typed /\ Detached /\ Emitted /\ Resumable /\ NeverOutOfWindow /\ [Next]_vars =>
          NeverOutOfWindow'
  <2> SUFFICES ASSUME Typed, Detached, Emitted, Resumable, NeverOutOfWindow,
                 [Next]_vars
               PROVE  NeverOutOfWindow'
    OBVIOUS
  <2>1. CASE SendDone
    BY <2>1 DEF SendDone, Fail, envVars, NeverOutOfWindow
  <2>2. CASE AskResume
    BY <2>2 DEF AskResume, envVars, NeverOutOfWindow
  <2>3. CASE GiveUp
    BY <2>3 DEF GiveUp, Fail, envVars, NeverOutOfWindow
  <2>4. CASE Resume
    <3> SUFFICES ASSUME Honest, why # "window", why' = "window" PROVE FALSE
      BY <2>4 DEF Resume, envVars, NeverOutOfWindow, Honest
    <3>1. (startOff.off < acked \/ startOff.off > next) /\ status = "sending" /\ started # {}
      BY <2>4, Resumed, Numbers
    <3>2. acked <= startOff.off /\ startOff.off <= next
      BY <3>1 DEF Resumable, Emitted
    <3> QED
      BY <3>1, <3>2, Numbers
  <2>5. CASE TakeVerdict
    BY <2>5 DEF TakeVerdict, Fail, envVars, NeverOutOfWindow
  <2>6. CASE BodyFails
    BY <2>6 DEF BodyFails, Fault, Fail, NeverOutOfWindow
  <2>7. CASE Cut
    BY <2>7 DEF Cut, Fault, LoseConnection, NeverOutOfWindow
  <2>8. CASE AgentCrash
    BY <2>8 DEF AgentCrash, Fault, LoseConnection, panelVars, uploadVars,
       NeverOutOfWindow
  <2>9. CASE PanelNotices
    BY <2>9 DEF PanelNotices, envVars, NeverOutOfWindow
  <2>10. CASE EndWrite
    BY <2>10 DEF EndWrite, envVars, Fault, Acked, panelVars, uploadVars, NeverOutOfWindow
  <2>11. CASE FailWrite
    BY <2>11 DEF FailWrite, envVars, Fault, panelVars, uploadVars, NeverOutOfWindow
  <2>12. CASE EmitChunk \/ OnAck \/ Reconnect \/ StartUpload \/ OpenPart \/ Register
         \/ ReceiveFrame \/ StartWrite \/ Forget \/ CancelUpload \/ FinishUpload
    BY <2>12 DEF EmitChunk, uploadVars, envVars, OnAck, Reconnect, panelVars,
       StartUpload, OpenPart, Register, ReceiveFrame, StartWrite, Forget, CancelUpload,
       FinishUpload, NeverOutOfWindow
  <2>13. CASE UNCHANGED vars
    BY <2>13 DEF vars, uploadVars, panelVars, envVars, NeverOutOfWindow
  <2> QED
    BY <2>1, <2>2, <2>3, <2>4, <2>5, <2>6, <2>7, <2>8, <2>9, <2>10, <2>11, <2>12, <2>13
       DEF Next, PanelStep, AgentStep, Ended
<1> QED
  BY <1>1, <1>2, TypedHolds, DetachedHolds, EmittedHolds, ResumableHolds, PTL DEF Spec

\* What replaced the target is whole, unless a write was short.
THEOREM VerifiedIsWholeHolds == Spec => []VerifiedIsWhole
<1>1. Init => VerifiedIsWhole
  BY DEF Init, VerifiedIsWhole
<1>2. Hashed /\ VerifiedIsWhole /\ [Next]_vars => VerifiedIsWhole'
  <2> SUFFICES ASSUME Hashed, VerifiedIsWhole, [Next]_vars
               PROVE  VerifiedIsWhole'
    OBVIOUS
  <2>1. CASE BodyFails
    BY <2>1 DEF BodyFails, Fault, agentVars, diskVars, VerifiedIsWhole
  <2>2. CASE Cut
    BY <2>2 DEF Cut, Fault, diskVars, VerifiedIsWhole
  <2>3. CASE AgentCrash
    BY <2>3 DEF AgentCrash, Fault, VerifiedIsWhole
  <2>4. CASE EndWrite
    BY <2>4 DEF EndWrite, envVars, Fault, Acked, VerifiedIsWhole
  <2>5. CASE FailWrite
    BY <2>5 DEF FailWrite, envVars, Fault, diskVars, VerifiedIsWhole
  <2>6. CASE FinishUpload
    BY <2>6 DEF FinishUpload, Verified, envVars, VerifiedIsWhole, Hashed
  <2>7. CASE EmitChunk \/ OnAck \/ SendDone \/ AskResume \/ GiveUp \/ Resume \/
         TakeVerdict \/ PanelNotices \/ Reconnect \/ StartUpload \/ OpenPart \/ Register \/
         ReceiveFrame \/ StartWrite \/ Forget \/ CancelUpload
    BY <2>7 DEF EmitChunk, agentVars, envVars, diskVars, OnAck, SendDone, AskResume,
       GiveUp, Resume, TakeVerdict, PanelNotices, Reconnect, StartUpload, OpenPart,
       Register, ReceiveFrame, StartWrite, Forget, CancelUpload, VerifiedIsWhole
  <2>8. CASE UNCHANGED vars
    BY <2>8 DEF vars, diskVars, agentVars, envVars, VerifiedIsWhole
  <2> QED
    BY <2>1, <2>2, <2>3, <2>4, <2>5, <2>6, <2>7, <2>8 DEF Next, PanelStep, AgentStep,
       Ended
<1> QED
  BY <1>1, <1>2, HashedHolds, PTL DEF Spec

-----------------------------------------------------------------------------
(* What they come to.                                                      *)

\* As long as the upload is under way, a chunk that the disk does not have is still in the
\* memory of the panel.
THEOREM NothingLostHolds == Spec => []NothingLost
<1>1. Typed /\ Contiguous /\ Retained => NothingLost
  <2> SUFFICES ASSUME Typed, Contiguous, Retained, status = "sending",
                      NEW c \in (1..next) \ (good \cup torn)
               PROVE  c \in retained
    BY DEF NothingLost
  <2>1. 1..acked \subseteq good \cup torn
    BY DEF Contiguous, Reported
  <2>2. c \in (acked + 1)..next
    <3>1. acked \in Nat /\ next \in Nat
      BY Numbers
    <3>2. c \in 1..next /\ ~(c \in 1..acked)
      BY <2>1
    <3> QED
      BY <3>1, <3>2
  <2> QED
    BY <2>2 DEF Retained
<1> QED
  BY <1>1, TypedHolds, ContiguousHolds, RetainedHolds, PTL

=============================================================================

--------------------------------- MODULE Upload ---------------------------------
(***************************************************************************)
(* One upload from the panel to an agent, cut and resumed by offset.       *)
(*                                                                         *)
(* The panel (apps/panel/src/services/transfers.ts) cuts the body of the   *)
(* browser's request into chunks and a TransferSender                      *)
(* (packages/protocol/src/transfer/engine.ts) sends them under a window of *)
(* unacknowledged chunks, which it retains.  The agent                     *)
(* (apps/agent/src/transfer/transfers.ts) writes them to a .part file      *)
(* through a TransferReceiver and acknowledges each after its write.  When *)
(* the connection is lost the panel detaches the sender, waits for the     *)
(* agent to come back, asks fs.upload.start again and resends what it      *)
(* retained beyond the size of the .part file.  Once everything is         *)
(* acknowledged fs.transfer.done has the agent check the size and the hash *)
(* and rename the file.                                                    *)
(*                                                                         *)
(* Offsets are counted in chunks: chunk c covers the bytes between the     *)
(* offsets c - 1 and c, and an offset inside a chunk is its floor with the *)
(* flag mid.  The initial state is the one after the first fs.upload.start.*)
(***************************************************************************)
EXTENDS Integers, Sequences, FiniteSets

CONSTANTS N,            \* bound on the chunks of the body
          Declared,     \* the size announced to the agent, in chunks
          Window,       \* unacknowledged chunks (8 in the code)
          MaxFaults,    \* number of faults
          Faults        \* the kinds of faults that may happen

(* cut: the connection is lost.  crash: the agent's process dies.  error:  *)
(* a write throws.  short: a write stores a part of its chunk and says so  *)
(* only in a count the agent does not read.  browser: the body breaks off. *)
FaultKinds == {"cut", "crash", "error", "short", "browser"}

ASSUME UploadAssumption ==
    /\ N \in Nat \ {0}
    /\ Declared \in Nat \ {0}
    /\ Window \in Nat \ {0}
    /\ MaxFaults \in Nat
    /\ Faults \subseteq FaultKinds

Chunks == 1..N

VARIABLES
    \* the panel: sender, upload() and its watcher
    next,       \* chunks emitted
    acked,      \* chunks acknowledged
    retained,   \* chunks emitted and kept for a resumption
    attached,   \* the sender has a transport
    status,     \* where upload() is
    why,        \* why it failed
    session,    \* is upload()'s session the one in the registry?
    asked,      \* the watcher's fs.upload.start: none, sent, lost
    finishing,  \* upload()'s fs.transfer.done: none, sent, lost
    \* between the two
    registry,   \* the panel's session: live, dying (cut, not noticed), none
    frames,     \* chunks on the wire
    acks,       \* acknowledged offsets on the wire
    started,    \* answers to fs.upload.start on the wire
    verdict,    \* answer to fs.transfer.done on the wire
    cancelling, \* fs.transfer.cancel on the wire
    \* the agent: startUpload, the entry of the map uploads, its receiver
    handler,    \* startUpload: none, settling, opening
    startOff,   \* the offset it read from the .part file
    heard,      \* the peer startUpload answers to is still open
    entry,      \* uploads has the transfer
    live,       \* the peer its acknowledgements go to is still open
    stored,     \* chunks written (the receiver's offset)
    expected,   \* chunks accepted (offset + inFlight)
    mid,        \* the receiver's offset is inside chunk stored + 1
    writing,    \* the write of chunk stored + 1 is under way
    rfail,      \* why the receiver failed
    hashOk,     \* it hashed the bytes of the source
    \* the agent's disk
    good, torn, \* chunks of the .part file: complete, partial
    final,      \* the target file: "none", "whole", "broken"
    \* the environment
    length,     \* chunks the browser's body really has
    faults,     \* faults so far
    struck      \* their kinds

senderVars == <<next, acked, retained, attached>>
uploadVars == <<status, why, session, asked, finishing>>
panelVars == <<senderVars, uploadVars>>
wireVars == <<registry, frames, acks, started, verdict, cancelling>>
handlerVars == <<handler, startOff, heard>>
receiverVars == <<entry, live, stored, expected, mid, writing, rfail, hashOk>>
diskVars == <<good, torn, final>>
agentVars == <<handlerVars, receiverVars, diskVars>>
envVars == <<length, faults, struck>>
vars == <<panelVars, wireVars, agentVars, envVars>>

(* An offset of the .part file.                                            *)
Offsets == [off : 0..N, mid : BOOLEAN]

SenderOK ==
    /\ next \in 0..N /\ acked \in 0..N
    /\ retained \in SUBSET Chunks
    /\ attached \in BOOLEAN

UploadOK ==
    /\ status \in {"sending", "finishing", "done", "failed"}
    /\ why \in {"none", "reconnect", "call", "window", "refused", "body"}
    /\ session \in {"current", "stale"}
    /\ asked \in {"none", "sent", "lost"}
    /\ finishing \in {"none", "sent", "lost"}

WireOK ==
    /\ registry \in {"live", "dying", "none"}
    /\ frames \in Seq(Chunks) /\ acks \in Seq(Chunks)
    /\ started \in SUBSET Offsets
    /\ verdict \in {"none", "verified", "refused"}
    /\ cancelling \in BOOLEAN

HandlerOK ==
    /\ handler \in {"none", "settling", "opening"}
    /\ startOff \in Offsets
    /\ heard \in BOOLEAN

ReceiverOK ==
    /\ entry \in BOOLEAN /\ live \in BOOLEAN
    /\ stored \in 0..N /\ expected \in 0..N
    /\ mid \in BOOLEAN /\ writing \in BOOLEAN
    /\ rfail \in {"none", "gap", "disk", "closed"}
    /\ hashOk \in BOOLEAN

DiskOK ==
    /\ good \in SUBSET Chunks /\ torn \in SUBSET Chunks
    /\ final \in {"none", "whole", "broken"}

EnvOK ==
    /\ length \in Chunks
    /\ faults \in 0..MaxFaults /\ struck \in SUBSET Faults

TypeOK == SenderOK /\ UploadOK /\ WireOK /\ HandlerOK /\ ReceiverOK /\ DiskOK /\ EnvOK

Init ==
    /\ next = 0 /\ acked = 0 /\ retained = {} /\ attached = TRUE
    /\ status = "sending" /\ why = "none" /\ session = "current"
    /\ asked = "none" /\ finishing = "none"
    /\ registry = "live" /\ frames = <<>> /\ acks = <<>>
    /\ started = {} /\ verdict = "none" /\ cancelling = FALSE
    /\ handler = "none" /\ startOff = [off |-> 0, mid |-> FALSE]
    /\ heard = FALSE
    /\ entry = TRUE /\ live = TRUE /\ stored = 0 /\ expected = 0
    /\ mid = FALSE /\ writing = FALSE /\ rfail = "none" /\ hashOk = TRUE
    /\ good = {} /\ torn = {} /\ final = "none"
    /\ length \in Chunks /\ faults = 0 /\ struck = {}

(* A fault of one of the kinds considered.                                 *)
Fault(kind) ==
    /\ kind \in Faults /\ faults < MaxFaults
    /\ faults' = faults + 1
    /\ struck' = struck \cup {kind}
    /\ UNCHANGED length

-----------------------------------------------------------------------------
(* The panel: the sender.                                                  *)

(* Mutant of HasRoom: the chunk about to leave is not counted.             *)
HasRoomForOneMore == Cardinality(retained) <= Window

(* The window has room for one more chunk.                                 *)
HasRoom == Cardinality(retained) < Window

(* emitChunk: the next chunk leaves when the window has room.  On a dying  *)
(* socket the frame is lost, and a send that throws detaches the sender.   *)
EmitChunk ==
    /\ status = "sending" /\ next < length
    /\ attached /\ HasRoom
    /\ next' = next + 1
    /\ retained' = retained \cup {next + 1}
    /\ \/ /\ registry = "live"
          /\ frames' = Append(frames, next + 1)
          /\ UNCHANGED attached
       \/ /\ registry = "dying"
          /\ attached' \in BOOLEAN
          /\ UNCHANGED frames
    /\ UNCHANGED <<acked, uploadVars, registry, acks, started, verdict,
                   cancelling, agentVars, envVars>>

(* Mutant of Unacked: the chunk that follows the offset is dropped too.    *)
UnackedBeyond(offset) == {c \in retained : c > offset + 1}

(* The chunks still retained once the receiver holds offset chunks.        *)
Unacked(offset) == {c \in retained : c > offset}

(* fs.transfer.ack: the acknowledged prefix of the retained chunks goes.   *)
(* An upload that has ended is no longer in the map.                       *)
OnAck ==
    /\ acks # <<>>
    /\ acks' = Tail(acks)
    /\ \/ /\ status \in {"sending", "finishing"} /\ Head(acks) > acked
          /\ acked' = IF Head(acks) <= next THEN Head(acks) ELSE next
          /\ retained' = Unacked(acked')
       \/ /\ status \in {"done", "failed"} \/ Head(acks) <= acked
          /\ UNCHANGED <<acked, retained>>
    /\ UNCHANGED <<next, attached, uploadVars, registry, frames, started,
                   verdict, cancelling, agentVars, envVars>>

-----------------------------------------------------------------------------
(* The panel: upload() and its watcher.                                    *)

(* upload() throws: it cancels at the agent if its session is still open.  *)
Fail(reason) ==
    /\ status' = "failed"
    /\ why' = reason
    /\ cancelling' = (cancelling \/ (session = "current" /\ registry = "live"))

(* run() resolves and upload() sends fs.transfer.done on its session: on a *)
(* dying socket the request is lost or throws, on a closed one it throws.  *)
SendDone ==
    /\ status = "sending" /\ next = length /\ acked = length
    /\ \/ /\ session = "current" /\ registry # "none"
          /\ status' = "finishing"
          /\ finishing' = IF registry = "live" THEN "sent" ELSE "lost"
          /\ UNCHANGED <<why, cancelling>>
       \/ /\ session = "stale" \/ registry = "dying"
          /\ Fail("call")
          /\ UNCHANGED finishing
    /\ UNCHANGED <<senderVars, session, asked, registry, frames, acks, started,
                   verdict, agentVars, envVars>>

(* The watcher finds the sender detached and asks fs.upload.start on the   *)
(* session of the registry; it cancels the upload if the request throws.   *)
AskResume ==
    /\ status = "sending" /\ ~attached /\ asked = "none"
    /\ registry # "none"
    /\ session' = "current"
    /\ \/ /\ asked' = IF registry = "live" THEN "sent" ELSE "lost"
          /\ UNCHANGED <<status, why>>
       \/ /\ registry = "dying"
          /\ status' = "failed" /\ why' = "call"
          /\ UNCHANGED asked
    /\ UNCHANGED <<senderVars, finishing, wireVars, agentVars, envVars>>

(* waitForSession: the agent has not come back in time.                    *)
GiveUp ==
    /\ status = "sending" /\ ~attached /\ asked = "none"
    /\ registry = "none"
    /\ Fail("reconnect")
    /\ UNCHANGED <<senderVars, session, asked, finishing, registry, frames,
                   acks, started, verdict, agentVars, envVars>>

(* Mutant of Reemitted: the first chunk is taken for one the agent has.    *)
ReemittedSkipping(offset) == [i \in 1..(next - offset - 1) |-> offset + 1 + i]

(* Mutant of Reemitted: one chunk too many.                                *)
ReemittedOneMore(offset) == [i \in 1..(next - offset + 1) |-> offset + i]

(* Mutant of Reemitted: the retained chunks are not sent again.            *)
ReemittedNever(offset) == <<>>

(* What resume() sends again: the retained chunks from the offset on,      *)
(* which are all those up to next (Retained in UploadProofs).              *)
Reemitted(offset) == [i \in 1..(next - offset) |-> offset + i]

(* The answer to fs.upload.start reaches the watcher, which resumes the    *)
(* sender there, or fails it when the offset is out of its window.         *)
Resume ==
    \E o \in started :
        /\ started' = started \ {o}
        /\ asked' = "none"
        /\ \/ /\ o.off < acked \/ o.off > next
              /\ IF status = "sending"
                 THEN Fail("window")
                 ELSE UNCHANGED <<status, why, cancelling>>
              /\ UNCHANGED <<acked, retained, attached, frames>>
           \/ /\ acked <= o.off /\ o.off <= next
              /\ acked' = o.off
              /\ retained' = Unacked(o.off)
              /\ attached' = TRUE
              /\ frames' = frames \o Reemitted(o.off)
              /\ UNCHANGED <<status, why, cancelling>>
        /\ UNCHANGED <<next, session, finishing, registry, acks, verdict,
                       agentVars, envVars>>

(* The answer to fs.transfer.done.                                         *)
TakeVerdict ==
    /\ verdict # "none"
    /\ verdict' = "none" /\ finishing' = "none"
    /\ \/ /\ verdict = "verified" /\ status = "finishing"
          /\ status' = "done"
          /\ UNCHANGED <<why, cancelling>>
       \/ /\ verdict = "refused" /\ status = "finishing"
          /\ Fail("refused")
    /\ UNCHANGED <<senderVars, session, asked, registry, frames, acks, started,
                   agentVars, envVars>>

(* The browser's body breaks off.                                          *)
BodyFails ==
    /\ Fault("browser")
    /\ status = "sending" /\ next < length
    /\ Fail("body")
    /\ UNCHANGED <<senderVars, session, asked, finishing, registry, frames,
                   acks, started, verdict, agentVars>>

-----------------------------------------------------------------------------
(* The connection.                                                         *)

(* What is on the wire is lost; requests awaiting an answer stay pending.  *)
LoseConnection ==
    /\ registry = "live"
    /\ registry' = "dying"
    /\ frames' = <<>> /\ acks' = <<>> /\ started' = {} /\ verdict' = "none"
    /\ cancelling' = FALSE
    /\ asked' = IF asked = "sent" THEN "lost" ELSE asked
    /\ finishing' = IF finishing = "sent" THEN "lost" ELSE finishing
    /\ UNCHANGED <<senderVars, status, why, session>>

(* The connection is cut: detachAll cancels the receiver; a startUpload    *)
(* under way goes on but its answer has nowhere to go.                     *)
Cut ==
    /\ Fault("cut")
    /\ LoseConnection
    /\ rfail' = IF entry /\ rfail = "none" THEN "closed" ELSE rfail
    /\ live' = FALSE /\ heard' = FALSE
    /\ UNCHANGED <<handler, startOff, entry, stored, expected, mid, writing,
                   hashOk, diskVars>>

(* The agent's process dies: a write under way is stored, torn or absent.  *)
AgentCrash ==
    /\ Fault("crash")
    /\ \/ LoseConnection
       \/ /\ registry # "live"
          /\ UNCHANGED <<panelVars, wireVars>>
    /\ handler' = "none" /\ heard' = FALSE
    /\ entry' = FALSE /\ live' = FALSE /\ writing' = FALSE
    /\ \/ UNCHANGED <<good, torn>>
       \/ writing /\ good' = good \cup {stored + 1} /\ UNCHANGED torn
       \/ writing /\ torn' = torn \cup {stored + 1} /\ UNCHANGED good
    /\ UNCHANGED <<startOff, stored, expected, mid, rfail, hashOk, final>>

(* The panel notices: the session leaves the registry, the sender is       *)
(* detached and the pending requests are rejected.                         *)
PanelNotices ==
    /\ registry = "dying"
    /\ registry' = "none"
    /\ session' = "stale"
    /\ attached' = FALSE
    /\ asked' = "none" /\ finishing' = "none"
    /\ IF asked = "lost" \/ finishing = "lost"
       THEN /\ status' = IF status = "done" THEN "done" ELSE "failed"
            /\ why' = IF status \in {"sending", "finishing"} THEN "call" ELSE why
       ELSE UNCHANGED <<status, why>>
    /\ UNCHANGED <<next, acked, retained, frames, acks, started, verdict,
                   cancelling, agentVars, envVars>>

(* The agent has authenticated again.                                      *)
Reconnect ==
    /\ registry = "none"
    /\ registry' = "live"
    /\ UNCHANGED <<panelVars, frames, acks, started, verdict, cancelling,
                   agentVars, envVars>>

-----------------------------------------------------------------------------
(* The agent: startUpload.                                                 *)

(* fs.upload.start arrives.                                                *)
StartUpload ==
    /\ asked = "sent" /\ handler = "none" /\ ~heard
    /\ handler' = "settling"
    /\ heard' = TRUE
    /\ UNCHANGED <<panelVars, wireVars, startOff, receiverVars, diskVars, envVars>>

(* The offset a .part file gives, cut at the declared size; a torn last    *)
(* chunk leaves it inside that chunk.                                      *)
PartOffset(o) ==
    \E last \in good \cup torn \cup {0} :
        /\ \A c \in good \cup torn : c <= last
        /\ o = IF last > Declared
               THEN [off |-> Declared, mid |-> FALSE]
               ELSE IF last \in torn
                    THEN [off |-> last - 1, mid |-> TRUE]
                    ELSE [off |-> last, mid |-> FALSE]

(* Mutant of OpenPart: the file is opened for writing from its start.      *)
OpenPartTruncating ==
    /\ handler = "settling"
    /\ entry => ~writing
    /\ handler' = "opening"
    /\ entry' = FALSE
    /\ startOff' = [off |-> 0, mid |-> FALSE]
    /\ good' = {} /\ torn' = {}
    /\ UNCHANGED <<panelVars, wireVars, heard, live, stored, expected, mid,
                   writing, rfail, hashOk, final, envVars>>

(* An entry left by the previous session is settled, closed and removed;   *)
(* then the .part file is measured, opened, and cut at the declared size.  *)
OpenPart ==
    /\ handler = "settling"
    /\ entry => ~writing
    /\ handler' = "opening"
    /\ entry' = FALSE
    /\ startOff' \in {o \in Offsets : PartOffset(o)}
    /\ good' = {c \in good : c <= Declared} /\ torn' = {c \in torn : c <= Declared}
    /\ UNCHANGED <<panelVars, wireVars, heard, live, stored, expected, mid,
                   writing, rfail, hashOk, final, envVars>>

(* The new receiver, its hash fed with the bytes already there, becomes    *)
(* the entry; the answer leaves if the session is still open.              *)
Register ==
    /\ handler = "opening"
    /\ handler' = "none"
    /\ entry' = TRUE
    /\ live' = heard
    /\ stored' = startOff.off /\ expected' = startOff.off
    /\ mid' = startOff.mid
    /\ writing' = FALSE /\ rfail' = "none"
    /\ hashOk' = (1..startOff.off \subseteq good)
    /\ started' = IF heard THEN started \cup {startOff} ELSE started
    /\ UNCHANGED <<panelVars, registry, frames, acks, verdict, cancelling,
                   startOff, heard, diskVars, envVars>>

-----------------------------------------------------------------------------
(* The agent: the receiver.                                                *)

(* onFrame: a frame below the expected offset is ignored, one above it     *)
(* fails the receiver, the expected one joins the chain of writes.  Frames *)
(* for an unknown transfer are dropped.                                    *)
ReceiveFrame ==
    /\ frames # <<>>
    /\ frames' = Tail(frames)
    /\ \/ /\ entry /\ rfail = "none" /\ ~mid /\ Head(frames) = expected + 1
          /\ expected' = expected + 1
          /\ UNCHANGED rfail
       \/ /\ entry /\ rfail = "none" /\ Head(frames) > expected + 1
          /\ rfail' = "gap"
          /\ UNCHANGED expected
       \/ /\ ~entry \/ rfail # "none" \/ Head(frames) <= expected
             \/ (mid /\ Head(frames) = expected + 1)
          /\ UNCHANGED <<expected, rfail>>
    /\ UNCHANGED <<panelVars, registry, acks, started, verdict, cancelling,
                   handlerVars, entry, live, stored, mid, writing, hashOk,
                   diskVars, envVars>>

(* The chain reaches the next accepted chunk.                              *)
StartWrite ==
    /\ entry /\ ~writing /\ stored < expected /\ rfail = "none"
    /\ writing' = TRUE
    /\ UNCHANGED <<panelVars, wireVars, handlerVars, entry, live, stored,
                   expected, mid, rfail, hashOk, diskVars, envVars>>

(* The acknowledgement of the offset, if its peer is still open.           *)
Acked(offset) == IF live THEN Append(acks, offset) ELSE acks

(* The write ends well, or stores less than it was given, which goes       *)
(* unnoticed: the chunk is hashed, counted and acknowledged.               *)
EndWrite ==
    /\ writing /\ stored < Declared
    /\ \/ /\ good' = good \cup {stored + 1}
          /\ UNCHANGED <<torn, envVars>>
       \/ /\ Fault("short")
          /\ torn' = torn \cup {stored + 1}
          /\ UNCHANGED good
    /\ writing' = FALSE
    /\ stored' = stored + 1
    /\ acks' = Acked(stored + 1)
    /\ UNCHANGED <<panelVars, registry, frames, started, verdict, cancelling,
                   handlerVars, entry, live, expected, mid, rfail, hashOk, final>>

(* Mutant of FailWrite: the error of the write is swallowed.               *)
FailWriteSwallowed ==
    /\ writing /\ stored < Declared
    /\ Fault("error")
    /\ writing' = FALSE
    /\ stored' = stored + 1
    /\ acks' = Acked(stored + 1)
    /\ UNCHANGED <<panelVars, registry, frames, started, verdict, cancelling,
                   handlerVars, entry, live, expected, mid, rfail, hashOk,
                   diskVars>>

(* The write throws, on the disk's error or beyond the declared size: the  *)
(* receiver fails and nobody is told.                                      *)
FailWrite ==
    /\ writing
    /\ \/ /\ stored >= Declared
          /\ UNCHANGED envVars
       \/ Fault("error")
    /\ writing' = FALSE
    /\ rfail' = IF rfail = "none" THEN "disk" ELSE rfail
    /\ UNCHANGED <<panelVars, wireVars, handlerVars, entry, live, stored,
                   expected, mid, hashOk, diskVars>>

(* detachAll: the entry goes once the write under way has ended.           *)
Forget ==
    /\ entry /\ ~live /\ ~writing
    /\ entry' = FALSE
    /\ UNCHANGED <<panelVars, wireVars, handlerVars, live, stored, expected,
                   mid, writing, rfail, hashOk, diskVars, envVars>>

(* fs.transfer.cancel: receiver, entry and .part file go; without an entry *)
(* nothing happens, even if startUpload is about to register one.          *)
CancelUpload ==
    /\ cancelling /\ (asked = "sent" => heard)
    /\ entry => ~writing
    /\ cancelling' = FALSE
    /\ entry' = FALSE
    /\ IF entry THEN good' = {} /\ torn' = {} ELSE UNCHANGED <<good, torn>>
    /\ UNCHANGED <<panelVars, registry, frames, acks, started, verdict,
                   handlerVars, live, stored, expected, mid, writing, rfail,
                   hashOk, final, envVars>>

(* finish(): the receiver has not failed and has the announced size and    *)
(* hash.                                                                   *)
Verified == rfail = "none" /\ stored = length /\ ~mid /\ hashOk

(* fs.transfer.done: after the last write, the .part file is checked and   *)
(* takes the place of the target, or is removed when the check fails.  The *)
(* removal of the former target and the rename are one step: a death in    *)
(* between leaves the whole .part file and no target.                      *)
FinishUpload ==
    /\ finishing = "sent" /\ verdict = "none"
    /\ entry => ~writing /\ (rfail = "none" => stored = expected)
    /\ entry' = FALSE
    /\ \/ /\ entry /\ Verified
          /\ verdict' = "verified"
          /\ final' = IF 1..length \subseteq good THEN "whole" ELSE "broken"
          /\ good' = {} /\ torn' = {}
       \/ /\ entry /\ ~Verified
          /\ verdict' = "refused"
          /\ IF rfail = "none" THEN good' = {} /\ torn' = {}
                               ELSE UNCHANGED <<good, torn>>
          /\ UNCHANGED final
       \/ /\ ~entry
          /\ verdict' = "refused"
          /\ UNCHANGED <<good, torn, final>>
    /\ UNCHANGED <<panelVars, registry, frames, acks, started, cancelling,
                   handlerVars, live, stored, expected, mid, writing, rfail,
                   hashOk, envVars>>

-----------------------------------------------------------------------------
(* The specification.                                                      *)

PanelStep == EmitChunk \/ OnAck \/ SendDone \/ AskResume \/ GiveUp \/ Resume
             \/ TakeVerdict \/ PanelNotices

AgentStep == StartUpload \/ OpenPart \/ Register \/ ReceiveFrame \/ StartWrite
             \/ EndWrite \/ FailWrite \/ Forget \/ CancelUpload \/ FinishUpload

(* The upload is over and nothing is under way any more.                   *)
Ended ==
    /\ status \in {"done", "failed"}
    /\ UNCHANGED vars

Next == PanelStep \/ AgentStep \/ Cut \/ AgentCrash \/ BodyFails \/ Reconnect
        \/ Ended

Spec == Init /\ [][Next]_vars

(* The browser goes on sending its body or breaks it off, the event loops  *)
(* and the disk go on, the panel's heartbeat watchdog notices a dead       *)
(* session, and the timer of waitForSession expires; no fault is forced,   *)
(* and the agent need not come back.                                       *)
Fairness ==
    /\ WF_vars(EmitChunk) /\ WF_vars(OnAck) /\ WF_vars(SendDone)
    /\ WF_vars(AskResume) /\ WF_vars(GiveUp) /\ WF_vars(Resume)
    /\ WF_vars(TakeVerdict) /\ WF_vars(PanelNotices)
    /\ WF_vars(StartUpload) /\ WF_vars(OpenPart) /\ WF_vars(Register)
    /\ WF_vars(ReceiveFrame) /\ WF_vars(StartWrite)
    /\ WF_vars(EndWrite \/ FailWrite)
    /\ WF_vars(Forget) /\ WF_vars(CancelUpload) /\ WF_vars(FinishUpload)

FairSpec == Spec /\ Fairness

-----------------------------------------------------------------------------
(* Properties.                                                             *)

(* The chunks kept in the panel's memory never exceed the window, whatever *)
(* is cut, resumed and acknowledged late.                                  *)
WindowRespected == Cardinality(retained) <= Window

(* The browser's body cannot be read twice: as long as the upload is under *)
(* way every chunk read from it that the agent's disk does not have is     *)
(* still retained at the panel.                                            *)
NothingLost == status = "sending" => (1..next) \ (good \cup torn) \subseteq retained

(* As long as every byte the agent reports is on its disk (no crash in the  *)
(* middle of a write, no short write), the agent never sees a gap in the    *)
(* offsets: a resumption starts exactly where the .part file ends.          *)
NoGap == struck \cap {"crash", "short"} = {} => rfail # "gap"

(* Under the same condition the offset the agent resumes at is never       *)
(* outside what the panel can still send.                                  *)
NeverOutOfWindow == struck \cap {"crash", "short"} = {} => why # "window"

(* What replaced the target file is the body the browser sent, whatever is *)
(* cut, resumed and retried, unless a write was short.                     *)
VerifiedIsWhole == final = "broken" => "short" \in struck

(* An upload of the announced size ends if only the connection or the      *)
(* browser fails, whether or not the agent comes back.                     *)
UploadEnds ==
    length <= Declared /\ [](struck \subseteq {"cut", "browser"})
        => <>(status \in {"done", "failed"})

=============================================================================

--------------------------- MODULE MCSerialTimeouts ---------------------------
(* The serial line, and what times out: the supervision of a session, and    *)
(* the repetition of messages nobody has acknowledged.  They share no state, *)
(* so that a behaviour is one of one of them, `part`; the others stay as     *)
(* they began.                                                               *)
EXTENDS SerialInput, IdleSession, AckTracker

VARIABLE part

MCSwitchLine == <<\h41, \h54, \h2B>>

\* What looks like a frame but for its checksum.
MCInnerFrame == <<\hAA, \h55, 0, 0, \h01, 0, 0, 0, \h0D>>

\* Frames whose data hold the magic bytes of every format (a Meshtastic frame
\* those of the others only, or it may never be found again after a loss),
\* frames without data, and frames that just fit their buffers.
MCFramesOf(app) ==
    CASE app = "MeshCore"   -> {<<\h01, 0>>, <<\h20, 7, \hAA, \h55, \hC0>>,
                                <<\h20, 7>> \o MCInnerFrame}
      [] app = "Meshtastic" -> {<< >>, <<\h94, \h41, \h54>>, <<\hC0, 1>>}
      [] app = "RNode"      -> {<<\h08>>, <<0, \hC0, \hDB, \h41>>}
      [] app = "AtCommand"  -> {<<\h41, \h54>>, MCSwitchLine}

\* A checksum that tells the frames and their pieces apart.
MCCrc(bytes) == FoldLeft(LAMBDA sum, b : (sum * 263 + b + 1) % 65521, 7, bytes)

MCCommands == {\h01, \h20}
-----------------------------------------------------------------------------
HostInit ==
    /\ part \in {"serial", "idle", "acks"}
    /\ Init /\ IdleInit /\ AckInit
    /\ part # "serial" => host = "AtCommand"

Serial(step) == part = "serial" /\ step /\ UNCHANGED <<part, idleVars, ackVars>>
Idle(step)   == part = "idle" /\ step /\ UNCHANGED <<part, vars, ackVars>>
Acks(step)   == part = "acks" /\ step /\ UNCHANGED <<part, vars, idleVars>>

HostNext == Serial(Next) \/ Idle(IdleNext) \/ Acks(AckNext)

Begin == \E frame \in UNION {FramesOf(app) : app \in Apps} : BeginFrame(frame)

(* The loop runs and drains the line, the clock ticks whatever the host and  *)
(* the apps do, the host writes frame after frame, and the tracker is polled *)
(* often enough that a message that is due again and again, as the clock     *)
(* wraps, does not always escape.                                            *)
HostSpec ==
    /\ HostInit /\ [][HostNext]_<<part, vars, idleVars, ackVars>>
    /\ WF_vars(Serial(ReadByte)) /\ WF_vars(Serial(Begin))
    /\ WF_idleVars(Idle(LoopStep)) /\ WF_idleVars(Idle(Tick))
    /\ WF_ackVars(Acks(AckTick)) /\ SF_ackVars(Acks(GetRetransmit))
=============================================================================

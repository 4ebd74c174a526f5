----------------------------- MODULE SerialInput -----------------------------
(***************************************************************************)
(* The serial line from the host's frames to the frames the program acts   *)
(* on: process_serial_byte of main.rs with the detector and the parsers it *)
(* feeds, and reset_protocol.                                              *)
(*                                                                         *)
(* The host runs one app at a time and writes one frame after the other;   *)
(* `line` is what is under way of a frame.  Bytes may be lost on the line, *)
(* and before an app opens the line it may carry noise.  The supervision   *)
(* of the main loop (IdleSession) may reset the session between any two    *)
(* bytes, since a host may pause anywhere.                                 *)
(***************************************************************************)
EXTENDS Integers, Sequences, SequencesExt

CONSTANTS
    Apps,           \* protocols the host speaks
    FramesOf(_),    \* the frames the host sends in each
    SwitchLine,     \* the line AT+SWITCH
    Noise,          \* bytes of noise
    NoFrame,
    MaxData, Commands, Crc(_), MaxPayload, MaxKissData, SyncTimeout, MaxLockCount,
    AtCapacity,     \* the capacity of at_buffer
    MaxLost,        \* bound: bytes lost in a behaviour
    MaxNoise        \* bound: bytes of noise before a frame

MeshCore   == INSTANCE FrameParser
Meshtastic == INSTANCE MeshtasticParser
Kiss       == INSTANCE KissParser
Detector   == INSTANCE ProtocolDetector

Protocols == {"MeshCore", "Meshtastic", "RNode", "AtCommand"}

MaxLength == 65280     \* the most that the high byte of a length announces

\* A length takes two bytes, and noise does not wear out an opening.
ASSUME LimitsAssumption ==
    /\ Apps \subseteq Protocols
    /\ MaxData \in 0 .. MaxLength /\ MaxPayload \in 0 .. MaxLength
    /\ MaxKissData \in Nat /\ AtCapacity \in Nat
    /\ MaxLockCount \in Nat /\ SyncTimeout \in Nat
    /\ MaxLost \in Nat /\ MaxNoise \in Nat /\ MaxNoise < SyncTimeout

\* The frames an app may send: those the buffers take, with a command the
\* program knows, and which KISS need not escape; AT lines are of printable
\* characters and begin with AT.
Fits(app, frame) ==
    CASE app = "MeshCore"   -> /\ Len(frame) \in 2 .. MaxData + 2
                               /\ frame[1] \in Commands
                               /\ Crc(frame) \in Nat /\ Crc(frame) < 65536
      [] app = "Meshtastic" -> Len(frame) <= MaxPayload
      [] app = "RNode"      -> /\ Len(frame) \in 1 .. MaxKissData + 1
                               /\ frame[1] \notin {Kiss!FEND, Kiss!FESC}
      [] app = "AtCommand"  -> /\ Len(frame) \in 2 .. AtCapacity
                               /\ frame[1] = \h41 /\ frame[2] = \h54
                               /\ \A i \in DOMAIN frame : frame[i] \in \h20 .. \h7E

ASSUME FramesAssumption ==
    /\ Noise \subseteq 0 .. 255
    /\ \A app \in Apps : \A frame \in FramesOf(app) :
          frame \in Seq(0 .. 255) /\ frame # NoFrame /\ Fits(app, frame)

VARIABLES
    serial_protocol,    \* self.serial_protocol
    detector,           \* the detector of the USB transport
    parsers,            \* per protocol the parser, and the at_buffer
    host,               \* the app on the host
    current,            \* the last frame the host began
    line,               \* its bytes under way
    noise,              \* bytes of noise since the last frame
    lost,               \* bytes lost so far
    ghost,              \* history: got - the current frame was delivered;
                        \* wrong - another was, or it was twice;
                        \* corrupt - a MeshCore frame nobody sent was
    clean               \* history: the session of this app began between two
                        \* frames, and lost nothing since

vars == <<serial_protocol, detector, parsers, host, current, line, noise, lost,
          ghost, clean>>

Bytes == 0 .. 255

ParsersAtRest == [MeshCore |-> MeshCore!Fresh, Meshtastic |-> Meshtastic!Fresh,
                  RNode |-> Kiss!Fresh, AtCommand |-> << >>]

TypeOK ==
    /\ serial_protocol \in Protocols \cup {"Unknown"}
    /\ Detector!IsDetector(detector)
    /\ MeshCore!IsParser(parsers.MeshCore)
    /\ Meshtastic!IsParser(parsers.Meshtastic)
    /\ Kiss!IsParser(parsers.RNode)
    /\ Len(parsers.AtCommand) <= AtCapacity
    /\ host \in Apps
    /\ \A i \in DOMAIN line : line[i] \in Bytes
    /\ noise \in 0 .. MaxNoise /\ lost \in 0 .. MaxLost
    /\ ghost \in [got : BOOLEAN, wrong : BOOLEAN, corrupt : BOOLEAN]
    /\ clean \in BOOLEAN

Init ==
    /\ serial_protocol = "Unknown"
    /\ detector = Detector!Fresh
    /\ parsers = ParsersAtRest
    /\ host \in Apps
    /\ current = NoFrame
    /\ line = << >>
    /\ noise = 0
    /\ lost = 0
    /\ ghost = [got |-> TRUE, wrong |-> FALSE, corrupt |-> FALSE]
    /\ clean = TRUE
-----------------------------------------------------------------------------
CR == \h0D
LF == \h0A

\* A byte of an AT line: the vector takes no more than it holds.
FeedAt(buffer, b) ==
    IF b \in {CR, LF} THEN << >>
    ELSE IF b \in \h20 .. \h7E /\ Len(buffer) < AtCapacity THEN Append(buffer, b)
    ELSE buffer

Feed(app, parser, b) ==
    CASE app = "MeshCore"   -> MeshCore!feed(parser, b)
      [] app = "Meshtastic" -> Meshtastic!feed(parser, b)
      [] app = "RNode"      -> Kiss!feed(parser, b)
      [] app = "AtCommand"  -> FeedAt(parser, b)

Completes(app, parser, b) ==
    CASE app = "MeshCore"   -> MeshCore!Completes(parser, b)
      [] app = "Meshtastic" -> Meshtastic!Completes(parser, b)
      [] app = "RNode"      -> Kiss!Completes(parser, b)
      [] app = "AtCommand"  -> b \in {CR, LF} /\ parser # << >>

Completed(app, parser, b) ==
    CASE app = "Meshtastic" -> Meshtastic!Completed(parser, b)
      [] app = "AtCommand"  -> parser
      [] OTHER              -> parser.frame

\* The bug of a parser that is not given the byte the detector took.
PrefedNothing(app) == ParsersAtRest[app]

\* The parser of a protocol that was just detected has been given the first
\* of the two bytes that gave it away.
Prefed(app) ==
    CASE app = "MeshCore"   -> Feed(app, parsers[app], \hAA)
      [] app = "Meshtastic" -> Feed(app, parsers[app], \h94)
      [] app = "AtCommand"  -> Feed(app, parsers[app], \h41)
      [] app = "RNode"      -> parsers[app]

\* What a complete frame means to the history.
Deliver(app, frame) ==
    [ghost EXCEPT !.got = @ \/ frame = current,
                  !.wrong = @ \/ ghost.got \/ frame # current,
                  !.corrupt = @ \/ (app = "MeshCore" /\ frame # current)]

\* The effect of reset_protocol, but for its early return.
ResetProtocol ==
    /\ serial_protocol' = "Unknown"
    /\ detector' = Detector!Fresh
    /\ parsers' = ParsersAtRest

(***************************************************************************)
(* process_serial_byte.  The byte that completes a detection goes to the   *)
(* parser as well; the AT command that switches resets the session.        *)
(***************************************************************************)
ProcessSerialByte(b) ==
    LET unknown == serial_protocol = "Unknown"
        app     == IF unknown THEN Detector!Answer(detector, b) ELSE serial_protocol
        fed     == IF unknown THEN Detector!feed(detector, b) ELSE detector
        parser  == IF unknown THEN Prefed(app) ELSE parsers[app]
        frame   == Completed(app, parser, b)
    IN  \/ /\ app = "Unknown"
           /\ detector' = fed
           /\ UNCHANGED <<serial_protocol, parsers, ghost>>
        \/ /\ app # "Unknown"
           /\ IF Completes(app, parser, b)
              THEN /\ ghost' = Deliver(app, frame)
                   /\ IF app = "AtCommand" /\ IsPrefix(SwitchLine, frame)
                      THEN ResetProtocol
                      ELSE /\ serial_protocol' = app
                           /\ detector' = IF app = "AtCommand" THEN fed
                                          ELSE Detector!confirm_frame(fed)
                           /\ parsers' = [parsers EXCEPT ![app] = Feed(app, parser, b)]
              ELSE /\ serial_protocol' = app
                   /\ detector' = fed
                   /\ parsers' = [parsers EXCEPT ![app] = Feed(app, parser, b)]
                   /\ UNCHANGED ghost
-----------------------------------------------------------------------------
\* The host's side of the formats: what the program itself sends in each.
Encode(app, frame) ==
    CASE app = "MeshCore"   -> MeshCore!encode(frame)
      [] app = "Meshtastic" -> Meshtastic!encode(frame)
      [] app = "RNode"      -> Kiss!encode(frame)
      [] app = "AtCommand"  -> frame \o <<CR, LF>>

BeginFrame(frame) ==
    /\ line = << >>
    /\ frame \in FramesOf(host)
    /\ current' = frame
    /\ line' = Encode(host, frame)
    /\ noise' = 0
    /\ ghost' = [ghost EXCEPT !.got = FALSE]
    /\ UNCHANGED <<serial_protocol, detector, parsers, host, lost, clean>>

ReadByte ==
    /\ line # << >>
    /\ ProcessSerialByte(Head(line))
    /\ line' = Tail(line)
    /\ UNCHANGED <<host, current, noise, lost, clean>>

LoseByte ==
    /\ line # << >>
    /\ lost < MaxLost
    /\ lost' = lost + 1
    /\ line' = Tail(line)
    /\ clean' = FALSE
    /\ UNCHANGED <<serial_protocol, detector, parsers, host, current, noise, ghost>>

\* Of the bytes that open frames only the first sync byte of MeshCore is
\* harmless, and only to a MeshCore app.
Harmless(b) ==
    b \notin {\hAA, \h55, \h94, \hC0, \h41} \/ (b = \hAA /\ host = "MeshCore")

ReadNoise(b) ==
    /\ line = << >> /\ serial_protocol = "Unknown"
    /\ noise < MaxNoise
    /\ noise' = noise + 1
    /\ ProcessSerialByte(b)
    /\ clean' = (clean /\ Harmless(b))
    /\ UNCHANGED <<host, current, line, lost>>

\* A new session has nothing behind it.
Forget == current' = NoFrame /\ ghost' = [ghost EXCEPT !.got = TRUE, !.wrong = FALSE]

\* reset_protocol by the supervision.
Supervise ==
    /\ serial_protocol # "Unknown"
    /\ ResetProtocol
    /\ clean' = (line = << >>)
    /\ IF line = << >> THEN Forget ELSE UNCHANGED <<current, ghost>>
    /\ UNCHANGED <<host, line, noise, lost>>

\* Another app opens the line.  It meets the session of the one before it,
\* unless that was reset.
OpenApp(app) ==
    /\ line = << >>
    /\ app \in Apps \ {host}
    /\ host' = app
    /\ Forget
    /\ clean' = (serial_protocol = "Unknown" /\ detector.state = "Idle")
    /\ UNCHANGED <<serial_protocol, detector, parsers, line, noise, lost>>

Next ==
    \/ \E frame \in UNION {FramesOf(app) : app \in Apps} : BeginFrame(frame)
    \/ ReadByte
    \/ LoseByte
    \/ \E b \in Noise : ReadNoise(b)
    \/ Supervise
    \/ \E app \in Apps : OpenApp(app)

Spec == Init /\ [][Next]_vars
-----------------------------------------------------------------------------
(***************************************************************************)
(* In a session that began between two frames and lost no byte every frame *)
(* is acted on, the first one too, although its opening went to the        *)
(* detector (process_serial_byte feeds the parser the byte it missed).     *)
(***************************************************************************)
DeliversEveryFrame == clean /\ line = << >> => ghost.got

(***************************************************************************)
(* In such a session nothing but the frames sent is acted on, each once,   *)
(* and the protocol detected is the one the host speaks, whatever magic    *)
(* bytes of other protocols the data contain.                              *)
(***************************************************************************)
DeliversNothingElse ==
    clean => ~ ghost.wrong /\ serial_protocol \in {"Unknown", host}

(***************************************************************************)
(* Whatever is lost, and whatever sessions are cut short, no MeshCore      *)
(* frame is acted on that is not the one the host is sending: the checksum *)
(* and the length keep the pieces of two frames apart.                     *)
(***************************************************************************)
NoCorruptFrame == ~ ghost.corrupt

(***************************************************************************)
(* After a loss the parser finds back to the frames by itself, without a   *)
(* reset and without a timeout.                                            *)
(***************************************************************************)
Resynchronises == <>[](serial_protocol = host) => []<>(ghost.got)
=============================================================================

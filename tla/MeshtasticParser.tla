--------------------------- MODULE MeshtasticParser ---------------------------
(***************************************************************************)
(* The Meshtastic serial frame and its parser (meshtastic/mod.rs).  A      *)
(* frame is its payload; it has no checksum.                               *)
(***************************************************************************)
EXTENDS Integers, Sequences

CONSTANT MaxPayload     \* MAX_SERIAL_PAYLOAD

SERIAL_SYNC == <<\h94, \hC3>>

encode(frame) ==
    SERIAL_SYNC \o <<Len(frame) \div 256, Len(frame) % 256>> \o frame

States == {"WaitSync1", "WaitSync2", "WaitLenHigh", "WaitLenLow", "WaitPayload"}

IsParser(p) ==
    /\ p.state \in States
    /\ p.payload_len \in 0 .. 256 * 255
    /\ p.state = "WaitPayload" =>
          p.payload_len <= MaxPayload /\ Len(p.frame) < p.payload_len

\* new and reset
Fresh == [state |-> "WaitSync1", payload_len |-> 0, frame |-> << >>]

Goto(p, state) == [p EXCEPT !.state = state]

AtSync(p, b) ==
    IF b = SERIAL_SYNC[2] /\ p.state = "WaitSync2" THEN Goto(p, "WaitLenHigh")
    ELSE IF b = SERIAL_SYNC[1] THEN Goto(p, "WaitSync2")
    ELSE Fresh

AtLength(p, b) ==
    IF p.state = "WaitLenHigh"
    THEN [Goto(p, "WaitLenLow") EXCEPT !.payload_len = 256 * b]
    ELSE IF p.payload_len + b > MaxPayload \/ p.payload_len + b = 0 THEN Fresh
    ELSE [Goto(p, "WaitPayload") EXCEPT !.payload_len = @ + b]

AtPayload(p, b) ==
    IF Len(p.frame) + 1 >= p.payload_len THEN Fresh
    ELSE [p EXCEPT !.frame = Append(@, b)]

\* feed: the parser afterwards, whether the byte completes a frame, and which.
feed(p, b) ==
    CASE p.state \in {"WaitSync1", "WaitSync2"}    -> AtSync(p, b)
      [] p.state \in {"WaitLenHigh", "WaitLenLow"} -> AtLength(p, b)
      [] p.state = "WaitPayload"                   -> AtPayload(p, b)

Completes(p, b) ==
    \/ p.state = "WaitLenLow" /\ p.payload_len + b = 0
    \/ p.state = "WaitPayload" /\ Len(p.frame) + 1 >= p.payload_len

Completed(p, b) == IF p.state = "WaitLenLow" THEN << >> ELSE Append(p.frame, b)
=============================================================================

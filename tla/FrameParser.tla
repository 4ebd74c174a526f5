----------------------------- MODULE FrameParser -----------------------------
(***************************************************************************)
(* The MeshCore serial frame and the parser that reads it byte by byte     *)
(* (protocol.rs).                                                          *)
(*                                                                         *)
(* A frame is the sequence of bytes its checksum covers: the command, the  *)
(* sequence number and the data.  Of the parser's fields data_idx is the   *)
(* length of what was collected; those that are written before they are    *)
(* read again start afresh with every frame.                               *)
(***************************************************************************)
EXTENDS Integers, Sequences

CONSTANTS
    MaxData,    \* MAX_DATA_SIZE
    Commands,   \* the bytes Command::from_byte knows
    Crc(_)      \* crc16 of a sequence of bytes, below 65536

SYNC == <<\hAA, \h55>>
END  == \h0D

encode(frame) ==
    LET len == Len(frame) - 2
        crc == Crc(frame)
    IN  SYNC \o <<len % 256, len \div 256>> \o frame
             \o <<crc % 256, crc \div 256, END>>

States == {"WaitSync1", "WaitSync2", "WaitLenLow", "WaitLenHigh", "WaitCommand",
           "WaitSequence", "WaitData", "WaitCrcLow", "WaitCrcHigh", "WaitEnd"}

IsParser(p) ==
    /\ p.state \in States
    /\ p.data_len \in 0 .. 256 * 255
    /\ p.state \notin {"WaitSync1", "WaitSync2", "WaitLenLow", "WaitLenHigh"} =>
          p.data_len <= MaxData /\ Len(p.frame) <= p.data_len + 2

\* new and reset
Fresh == [state |-> "WaitSync1", data_len |-> 0, frame |-> << >>, crc_low |-> 0]

Goto(p, state) == [p EXCEPT !.state = state]
Collect(p, b)  == [p EXCEPT !.frame = Append(@, b)]

AtSync(p, b) ==
    IF b = SYNC[2] /\ p.state = "WaitSync2" THEN Goto(p, "WaitLenLow")
    ELSE IF b = SYNC[1] THEN Goto(p, "WaitSync2")
    ELSE Fresh

\* The bug of a length that is not looked at.
AtLengthUnchecked(p, b) ==
    IF p.state = "WaitLenLow" THEN [Goto(p, "WaitLenHigh") EXCEPT !.data_len = b]
    ELSE [Goto(p, "WaitCommand") EXCEPT !.data_len = @ + 256 * b]

AtLength(p, b) ==
    IF p.state = "WaitLenLow" THEN [Goto(p, "WaitLenHigh") EXCEPT !.data_len = b]
    ELSE IF p.data_len + 256 * b > MaxData THEN Fresh
    ELSE [Goto(p, "WaitCommand") EXCEPT !.data_len = @ + 256 * b]

AtFrame(p, b) ==
    LET q == Collect(p, b)
    IN  IF p.state = "WaitCommand" THEN Goto(q, "WaitSequence")
        ELSE IF Len(q.frame) - 2 >= p.data_len THEN Goto(q, "WaitCrcLow")
        ELSE Goto(q, "WaitData")

\* The bugs of a checksum that is not compared, and of a parser that stays
\* where it is when it is wrong.
AtCrcUnchecked(p, b) == Goto(p, IF p.state = "WaitCrcLow" THEN "WaitCrcHigh" ELSE "WaitEnd")

AtCrcStays(p, b) ==
    IF p.state = "WaitCrcLow" THEN [Goto(p, "WaitCrcHigh") EXCEPT !.crc_low = b]
    ELSE IF p.crc_low + 256 * b = Crc(p.frame) THEN Goto(p, "WaitEnd")
    ELSE p

AtCrc(p, b) ==
    IF p.state = "WaitCrcLow" THEN [Goto(p, "WaitCrcHigh") EXCEPT !.crc_low = b]
    ELSE IF p.crc_low + 256 * b = Crc(p.frame) THEN Goto(p, "WaitEnd")
    ELSE Fresh

\* feed: the parser afterwards, and whether the byte completes a frame, which
\* is then p.frame.
feed(p, b) ==
    CASE p.state \in {"WaitSync1", "WaitSync2"}                -> AtSync(p, b)
      [] p.state \in {"WaitLenLow", "WaitLenHigh"}             -> AtLength(p, b)
      [] p.state \in {"WaitCommand", "WaitSequence", "WaitData"} -> AtFrame(p, b)
      [] p.state \in {"WaitCrcLow", "WaitCrcHigh"}             -> AtCrc(p, b)
      [] p.state = "WaitEnd"                                   -> Fresh

Completes(p, b) == p.state = "WaitEnd" /\ b = END /\ p.frame[1] \in Commands
=============================================================================

------------------------------ MODULE KissParser ------------------------------
(***************************************************************************)
(* The KISS frame an RNode speaks, and its parser (rnode.rs).  A frame is  *)
(* its command and its data, escaped between two FEND bytes.               *)
(***************************************************************************)
EXTENDS Integers, Sequences, SequencesExt

CONSTANT MaxKissData    \* MAX_DATA_SIZE

FEND  == \hC0
FESC  == \hDB
TFEND == \hDC
TFESC == \hDD

escape_byte(b) ==
    CASE b = FEND -> <<FESC, TFEND>>
      [] b = FESC -> <<FESC, TFESC>>
      [] OTHER    -> <<b>>

encode(frame) ==
    <<FEND>> \o FlattenSeq([i \in DOMAIN frame |-> escape_byte(frame[i])]) \o <<FEND>>

States == {"WaitStart", "WaitCommand", "ReadData", "Escape"}

IsParser(p) == p.state \in States /\ Len(p.frame) <= MaxKissData + 1

\* new and reset
Fresh == [state |-> "WaitStart", frame |-> << >>]

\* The vector takes no more than it holds and the failure is ignored.
Push(frame, b) == IF Len(frame) <= MaxKissData THEN Append(frame, b) ELSE frame

AtStart(b) == IF b = FEND THEN [Fresh EXCEPT !.state = "WaitCommand"] ELSE Fresh

\* An escape in the place of the command leaves command 0, and what it stands
\* for becomes data.
AtCommand(p, b) ==
    CASE b = FEND -> p
      [] b = FESC -> [state |-> "Escape", frame |-> <<0>>]
      [] OTHER    -> [state |-> "ReadData", frame |-> <<b>>]

\* The bug of an escape that is not looked for in the data.
AtDataUnescaped(p, b) ==
    IF b = FEND THEN Fresh ELSE [p EXCEPT !.frame = Push(@, b)]

AtData(p, b) ==
    CASE b = FEND -> Fresh
      [] b = FESC -> [p EXCEPT !.state = "Escape"]
      [] OTHER    -> [p EXCEPT !.frame = Push(@, b)]

AtEscape(p, b) ==
    LET unescaped == IF b = TFEND THEN FEND ELSE IF b = TFESC THEN FESC ELSE b
    IN  [state |-> "ReadData", frame |-> Push(p.frame, unescaped)]

\* feed: the parser afterwards, and whether the byte completes a frame, which
\* is then p.frame.
feed(p, b) ==
    CASE p.state = "WaitStart"   -> AtStart(b)
      [] p.state = "WaitCommand" -> AtCommand(p, b)
      [] p.state = "ReadData"    -> AtData(p, b)
      [] p.state = "Escape"      -> AtEscape(p, b)

Completes(p, b) == p.state = "ReadData" /\ b = FEND
=============================================================================

----------------------------- MODULE DedupWindow -----------------------------
(***************************************************************************)
(* What a repeater is promised by its duplicate filter: the last RingSize  *)
(* fingerprints it let through, oldest first, are remembered, and a packet *)
(* passes exactly when its fingerprint is not among them.                  *)
(***************************************************************************)
EXTENDS Integers, Sequences

CONSTANTS RingSize, Hashes

VARIABLES
    window,    \* the fingerprints remembered, oldest first
    verdict    \* the answer to the last packet offered

Remembered == {window[i] : i \in 1 .. Len(window)}

Verdicts == [hash : Hashes, passed : BOOLEAN]

Init == window = << >> /\ verdict \in Verdicts

Pass(h) ==
    /\ h \notin Remembered
    /\ verdict' = [hash |-> h, passed |-> TRUE]
    /\ window' = Append(IF Len(window) = RingSize THEN Tail(window) ELSE window, h)

Drop(h) ==
    /\ h \in Remembered
    /\ verdict' = [hash |-> h, passed |-> FALSE]
    /\ UNCHANGED window

Forget ==
    /\ window' = << >>
    /\ UNCHANGED verdict

Next == Forget \/ \E h \in Hashes : Pass(h) \/ Drop(h)

vars == <<window, verdict>>

Spec == Init /\ [][Next]_vars
=============================================================================

-------------------------------- MODULE Dedup --------------------------------
(***************************************************************************)
(* The duplicate filter of one repeater as a component: the ring of        *)
(* main.rs driven by the packets offered to check_and_insert and by the    *)
(* two places that clear it, and the abstract filter it implements.        *)
(***************************************************************************)
EXTENDS DedupRing, Sequences

VARIABLES
    ring,      \* self.dedup
    verdict    \* what check_and_insert last returned, and for which packet

vars == <<ring, verdict>>

TypeOK ==
    /\ ring \in Ring
    /\ verdict \in [hash : Hashes, passed : BOOLEAN]

Init ==
    /\ ring = EmptyRing
    /\ verdict \in [hash : Hashes, passed : BOOLEAN]

CheckAndInsert(h) ==
    /\ verdict' = [hash |-> h, passed |-> ~ Seen(ring, h)]
    /\ ring' = IF Seen(ring, h) THEN ring ELSE Insert(ring, h)

\* reset_protocol and AT+REPEATER=0.
Clear ==
    /\ ring' = EmptyRing
    /\ UNCHANGED verdict

Next == Clear \/ \E h \in Hashes : CheckAndInsert(h)

Spec == Init /\ [][Next]_vars
-----------------------------------------------------------------------------
(***************************************************************************)
(* Until it is full the ring is filled from slot 0 upwards.                *)
(***************************************************************************)
FillsFromZero == ring.count < RingSize => ring.head = ring.count

(***************************************************************************)
(* No two live slots of the ring hold one fingerprint: a duplicate is      *)
(* caught before the overwrite, also when the write position has wrapped,  *)
(* so the ring never wastes a slot on a packet it already knows.           *)
(***************************************************************************)
NoDuplicateSlots ==
    \A s, t \in 0 .. ring.count - 1 : ring.hashes[s] = ring.hashes[t] => s = t

(***************************************************************************)
(* The ring read from its oldest to its newest entry.  Slot 0 is the       *)
(* oldest while the ring fills; afterwards it is the slot `head` is about  *)
(* to overwrite.                                                           *)
(***************************************************************************)
SlotAt(i) ==
    IF ring.count < RingSize THEN i - 1
    ELSE IF ring.head + i - 1 < RingSize THEN ring.head + i - 1
    ELSE ring.head + i - 1 - RingSize

WindowOf == [i \in 1 .. ring.count |-> ring.hashes[SlotAt(i)]]

Window == INSTANCE DedupWindow WITH window <- WindowOf

(***************************************************************************)
(* The ring implements the abstract filter: with its modular write index,  *)
(* its saturating count and its scan in slot order, it forgets exactly the *)
(* oldest entry and nothing else (check_and_insert, main.rs).              *)
(***************************************************************************)
ImplementsWindow == Window!Spec
=============================================================================

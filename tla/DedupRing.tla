------------------------------ MODULE DedupRing ------------------------------
(***************************************************************************)
(* The ring of packet fingerprints by which a repeater recognises a packet *)
(* it has already handled: `DeduplicatorRing` of main.rs.                  *)
(*                                                                         *)
(* Slots are numbered from 0 as in the code.  A fingerprint is a member of *)
(* Hashes; the CRC halves it is made of are abstracted away, so that two   *)
(* packets with one fingerprint are one packet here, as they are to the    *)
(* code.  EmptySlot is the value a cleared slot holds: the code writes 0,  *)
(* which is also the fingerprint of some packets, so EmptySlot may be a    *)
(* member of Hashes.                                                       *)
(***************************************************************************)
EXTENDS Integers

CONSTANTS
    RingSize,    \* DEDUP_RING_SIZE
    Hashes,      \* the fingerprints packets have
    EmptySlot    \* the 0 of a slot nobody wrote

ASSUME RingSizeAssumption == RingSize \in Nat \ {0}

Slots == 0 .. RingSize - 1

Ring == [hashes : [Slots -> Hashes \cup {EmptySlot}],
         head   : Slots,
         count  : 0 .. RingSize]

EmptyRing == [hashes |-> [s \in Slots |-> EmptySlot],
              head   |-> 0,
              count  |-> 0]

\* Bugs a change to the write position or the count could bring in; the
\* properties must tell each from the code.
InsertHeadRestarts(ring, h) ==
    [hashes |-> [ring.hashes EXCEPT ![ring.head] = h],
     head   |-> IF ring.count = RingSize THEN 0 ELSE (ring.head + 1) % RingSize,
     count  |-> IF ring.count < RingSize THEN ring.count + 1 ELSE ring.count]

InsertNeverFull(ring, h) ==
    [hashes |-> [ring.hashes EXCEPT ![ring.head] = h],
     head   |-> (ring.head + 1) % RingSize,
     count  |-> ring.count + 1]

\* The scan that opens check_and_insert: it stops at `count`, so a slot that
\* was never written cannot match, whatever it holds.
Seen(ring, h) == \E s \in 0 .. ring.count - 1 : ring.hashes[s] = h

\* The rest of check_and_insert: the slot at `head` is overwritten.
Insert(ring, h) ==
    [hashes |-> [ring.hashes EXCEPT ![ring.head] = h],
     head   |-> (ring.head + 1) % RingSize,
     count  |-> IF ring.count < RingSize THEN ring.count + 1 ELSE ring.count]
=============================================================================

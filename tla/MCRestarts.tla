------------------------------ MODULE MCRestarts ------------------------------
(* Restarts with small tables, counters and firmware. *)
EXTENDS Restarts, MCMix, TLC

CONSTANTS t1, t2, a, b, f0, c1, c2, c3

Img(magic, version, size, hash, key) ==
    [magic |-> magic, version |-> version, size |-> size, hash |-> hash,
     key |-> key, signed |-> TRUE]

\* Firmware of two blocks, and older firmware signed with another key.
MCImages == {Img(TRUE, 2, 2, <<a, b>>, "k1"), Img(TRUE, 1, 1, <<b>>, "k2")}
MCFactory == <<f0>>
MCOwners  == <<"k1">>

\* The did and the name of c3 do not fit into the record of a contact.
MCDidLength  == c3 :> 128 @@ [k \in {c1, c2} |-> 100]
MCNameLength == c3 :> 21  @@ [k \in {c1, c2} |-> 48]

\* c1 and c2 differ in nothing.
MCSymmetry == Permutations({c1, c2})
===============================================================================

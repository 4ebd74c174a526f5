-------------------------------- MODULE MCMix --------------------------------
(* Packet identifiers of 4 bits: mix32, shifts and odd factors over words  *)
(* of that width.                                                          *)
EXTENDS Integers

LOCAL INSTANCE Bitwise

MCMix32(word) ==
    LET x == word ^^ (word \div 4) IN
    LET y == (11 * x) % 16 IN
    LET z == y ^^ (y \div 2) IN (5 * z) % 16

\* The words drawn: the third session draws the first one's again.
MCWords == [s \in 0 .. 3 |-> <<0, 9, 6, 9>>[s + 1]]

MCIds == [s \in 0 .. 3 |-> [n \in 0 .. 15 |->
            MCMix32(MCWords[s] ^^ ((11 * n) % 16))]]

MCPacketIdOf(s, n) == MCIds[s][n]
=============================================================================

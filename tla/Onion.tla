-------------------------------- MODULE Onion --------------------------------
(***************************************************************************)
(* Onion packets and secured messages: onion.rs, the wire format of        *)
(* transport.rs, and encrypt_for_tx and decrypt_from_rx of main.rs.        *)
(*                                                                         *)
(* A packet is the sequence of its layers, outermost first, around a       *)
(* payload of which only the length counts.  A layer carries the term of   *)
(* its key, the hop it is made for and its index counted from the          *)
(* innermost, which stands for the 32 bytes derived from the shared secret *)
(* and that index; a tag matches if and only if the hop and the index do.  *)
(* Here ends with the header and the ciphertext that decrypt_from_rx hands *)
(* to Session::decrypt of the peer; what becomes of them there is Session. *)
(* The programs that send packets along a route are external: they keep to *)
(* the formats.                                                            *)
(***************************************************************************)
EXTENDS Integers, Sequences, FiniteSets, SequencesExt

CONSTANTS
    Nodes,          \* hops
    HintOf,         \* per node the 16-bit hint other programs give for it
    Destination,    \* the peer secured messages are for, one of Nodes
    MinHops,        \* MIN_HOPS
    MaxHops,        \* MAX_HOPS
    LayerCap,       \* layers decrypt_from_rx takes a packet to have at most: 7
    MaxRelays,      \* the capacity of RouteBuilder.relays
    TextSizes,      \* lengths of secured messages
    PayloadSizes,   \* lengths of payloads put on a route
    MaxTexts        \* bound: secured messages in a behaviour

ASSUME OnionAssumption ==
    /\ MinHops \in 2 .. 3 /\ MaxHops \in 3 .. LayerCap /\ LayerCap \in Nat
    /\ MaxRelays \in Nat /\ MaxTexts \in Nat
    /\ TextSizes \subseteq Nat /\ PayloadSizes \subseteq Nat
    /\ Destination \in Nodes

VARIABLES
    relays,         \* RouteBuilder.relays
    texts,          \* secured messages: made - the session's send_count; air -
                    \* the one on its way; handed - numbers that came to
                    \* the peer's session as this one made them; owed -
                    \* those that could be expected to; lost
    journey         \* a packet on a route: at - the hint it is addressed to;
                    \* layers, size, route; end - what became of it

onionVars == <<relays, texts, journey>>

HopOverhead == 18       \* a hint and a tag
BufferSize  == 256      \* of every HeaplessVec<u8, 256>
MaxPayload  == 214      \* DATA_MAX_PAYLOAD
WireHeader  == 7
TagSize     == 16
HeaderSize  == 48

NoText == [layers |-> << >>, size |-> 0, num |-> 0, whole |-> FALSE]
NoJourney ==
    [at |-> 0, layers |-> << >>, size |-> 0, route |-> << >>, end |-> "none"]

OnionInit ==
    /\ relays = << >>
    /\ texts = [made |-> 0, air |-> NoText, handed |-> {}, owed |-> {}, lost |-> {}]
    /\ journey = NoJourney

OnionTypeOK ==
    /\ Len(relays) <= MaxRelays /\ ToSet(relays) \subseteq Nodes
    /\ texts.made \in 0 .. MaxTexts
    /\ texts.handed \subseteq 1 .. MaxTexts
    /\ Len(journey.layers) <= MaxHops
    /\ journey.end \in {"none", "travelling", "arrived", "refused", "cut"}
-----------------------------------------------------------------------------
\* add_relay: a full builder refuses.
AddRelay(n) ==
    /\ Len(relays) < MaxRelays
    /\ relays' = Append(relays, n)
    /\ UNCHANGED <<texts, journey>>

\* build_route: the first relays and the destination.
BuildRoute(dest, hops) == SubSeq(relays, 1, hops - 1) \o <<dest>>

\* The bug of layers keyed by the position from the entry.
WrapFromEntry(route) ==
    [i \in 1 .. Len(route) |->
        [for |-> route[i], index |-> i - 1,
         next |-> IF i = Len(route) THEN 0 ELSE HintOf[route[i + 1]]]]

\* wrap: the layer of the last hop is the innermost, and names no next hop.
Wrap(route) ==
    [i \in 1 .. Len(route) |->
        [for |-> route[i], index |-> Len(route) - i,
         next |-> IF i = Len(route) THEN 0 ELSE HintOf[route[i + 1]]]]

CanWrap(size, route) ==
    /\ Len(route) \in MinHops .. MaxHops
    /\ size + Len(route) * HopOverhead <= BufferSize
-----------------------------------------------------------------------------
(***************************************************************************)
(* encrypt_for_tx.  The ciphertext loses the text, or its tag, when they   *)
(* do not fit its buffer, the session having counted the message already;  *)
(* the header of 48 bytes goes before it; a route the builder has no       *)
(* relays for, or a packet too large for it, is sent without layers; and   *)
(* what is longer than a payload is cut off without an error.              *)
(***************************************************************************)
CiphertextSize(size) ==
    IF size > BufferSize THEN TagSize
    ELSE IF size + TagSize > BufferSize THEN size ELSE size + TagSize

\* The bug of a payload one byte shorter than the format has it.
SecuredShort(size, onion) ==
    LET body   == HeaderSize + CiphertextSize(size)
        route  == BuildRoute(Destination, 3)
        layers == IF onion /\ Len(relays) >= 3 /\ CanWrap(body, route)
                  THEN Wrap(route) ELSE << >>
        bytes  == body + Len(layers) * HopOverhead
    IN  [layers |-> layers, size |-> IF bytes < MaxPayload THEN bytes ELSE MaxPayload - 1,
         num |-> texts.made + 1, whole |-> bytes < MaxPayload /\ size + TagSize <= BufferSize]

Secured(size, onion) ==
    LET body   == HeaderSize + CiphertextSize(size)
        route  == BuildRoute(Destination, 3)
        layers == IF onion /\ Len(relays) >= 3 /\ CanWrap(body, route)
                  THEN Wrap(route) ELSE << >>
        bytes  == body + Len(layers) * HopOverhead
    IN  [layers |-> layers, size |-> IF bytes <= MaxPayload THEN bytes ELSE MaxPayload,
         num |-> texts.made + 1, whole |-> bytes <= MaxPayload /\ size + TagSize <= BufferSize]

\* What the peer can be owed: up to 150 bytes, or 139 to 150 when the route of
\* three hops takes the shorter ones.
Owed(size, onion) ==
    size <= 150 /\ (~ onion \/ Len(relays) < 3 \/ size > 138)

EncryptForTx(size, onion) ==
    LET num == texts.made + 1
    IN  /\ num <= MaxTexts /\ texts.air = NoText
        /\ texts' = [texts EXCEPT
              !.made = num,
              !.air = IF HeaderSize + CiphertextSize(size) > BufferSize THEN NoText
                      ELSE Secured(size, onion),
              !.owed = IF Owed(size, onion) THEN @ \cup {num} ELSE @]
        /\ UNCHANGED <<relays, journey>>

\* What Session::encrypt made is what Session::decrypt is given: layers would be
\* taken for the header, and what was cut off is missing.
ComesWhole(p) == p.size >= HeaderSize /\ p.layers = << >> /\ p.whole

\* decrypt_from_rx at the peer, whose address the packet has and which has a
\* session with the sender: no layer is taken off.
PeerReceives ==
    LET p == texts.air
    IN  /\ p # NoText
        /\ texts' = [texts EXCEPT !.air = NoText,
                        !.handed = IF ComesWhole(p) THEN @ \cup {p.num} ELSE @]
        /\ UNCHANGED <<relays, journey>>

\* A packet that is never heard, or that the peer has no session for.
LoseText ==
    /\ texts.air # NoText
    /\ texts' = [texts EXCEPT !.air = NoText, !.lost = @ \cup {texts.air.num}]
    /\ UNCHANGED <<relays, journey>>
-----------------------------------------------------------------------------
\* A program puts a payload on a route it built, addressed to the first hop, in
\* a packet that takes it whole.
SendRouted(size, dest, hops) ==
    LET route == BuildRoute(dest, hops)
    IN  /\ journey.end # "travelling"
        /\ Len(relays) >= hops - 1 /\ CanWrap(size, route)
        /\ size + Len(route) * HopOverhead <= MaxPayload
        /\ journey' = [at |-> HintOf[route[1]], layers |-> Wrap(route),
                       size |-> size, route |-> route, end |-> "travelling"]
        /\ UNCHANGED <<relays, texts>>

WireLength(j)   == WireHeader + Len(j.layers) * HopOverhead + j.size
\* The number of layers decrypt_from_rx takes a packet of that length to have.
GuessLayers(j)  ==
    LET n == WireLength(j) \div HopOverhead IN IF n < LayerCap THEN n ELSE LayerCap

Authentic(n, j) ==
    /\ j.layers # << >>
    /\ j.layers[1].for = n
    /\ j.layers[1].index = GuessLayers(j) - 1

(***************************************************************************)
(* decrypt_from_rx at a hop the packet is addressed to by hint and not by  *)
(* its own mesh address: unwrap, and forward what is inside in a new       *)
(* packet.  A hop whose layer names no next hop is the last.               *)
(***************************************************************************)
RelayRouted(n) ==
    LET j == journey
    IN  /\ j.end = "travelling" /\ HintOf[n] = j.at
        /\ journey' =
              IF ~ Authentic(n, j)
              THEN [j EXCEPT !.end = IF j.layers[1].for = n THEN "refused" ELSE @]
              ELSE IF j.layers[1].next = 0
              THEN [j EXCEPT !.end = IF Len(j.layers) = 1 THEN "arrived" ELSE "cut"]
              ELSE [j EXCEPT !.at = j.layers[1].next, !.layers = Tail(@)]
        /\ UNCHANGED <<relays, texts>>

OnionNext ==
    \/ \E n \in Nodes : AddRelay(n)
    \/ \E size \in TextSizes, onion \in BOOLEAN : EncryptForTx(size, onion)
    \/ PeerReceives
    \/ LoseText
    \/ \E size \in PayloadSizes, n \in Nodes, hops \in MinHops .. MaxHops :
          SendRouted(size, n, hops)
    \/ \E n \in Nodes : RelayRouted(n)

OnionSpec == OnionInit /\ [][OnionNext]_onionVars
-----------------------------------------------------------------------------
(***************************************************************************)
(* What encrypt_for_tx lets through is what comes to the session of the    *)
(* peer as it left the session of the sender: every message of up to 150   *)
(* bytes that is sent without a route, or whose route does not take it,    *)
(* and no other; of a longer one the end is cut off silently, and one in   *)
(* layers is addressed past the hops that could take them off.             *)
(***************************************************************************)
OwedArrivesWhole ==
    LET pending == IF texts.air = NoText THEN {} ELSE {texts.air.num}
    IN  texts.handed = texts.owed \ (texts.lost \cup pending)

(***************************************************************************)
(* A packet on a route is taken apart in the order of the route, and no    *)
(* hop whose turn it is refuses it unless its payload is longer than 10    *)
(* bytes, when decrypt_from_rx counts a layer too many: the first hop      *)
(* refuses it, and on the longest route, where the count stops at the      *)
(* right number, the second.  It ends early only before a hop whose hint   *)
(* is the 0 that marks the last layer.                                     *)
(***************************************************************************)
OnionInOrder ==
    LET j == journey
        L == Len(j.route)
    IN  /\ j.end = "refused" =>
              j.size > 10 /\ Len(j.layers) = IF L = LayerCap THEN L - 1 ELSE L
        /\ j.end = "arrived" => j.size <= 10
        /\ j.end = "cut" => \E i \in 2 .. L : HintOf[j.route[i]] = 0
        /\ j.end = "travelling" => j.at = HintOf[j.route[L - Len(j.layers) + 1]]
=============================================================================

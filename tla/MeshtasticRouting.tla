------------------------- MODULE MeshtasticRouting -------------------------
(***************************************************************************)
(* Flooding with the PacketCache of meshtastic/packet.rs: route_packet and *)
(* create_forward_packet.  Who calls them is not in the repository: here a *)
(* node routes every packet it hears, its own echo too, and forwarded what  *)
(* it is told to.  All packets are from one node, so that an identifier    *)
(* stands for the pair of sender and identifier the cache compares.        *)
(***************************************************************************)
EXTENDS Integers, FiniteSets

CONSTANTS
    Routers,        \* the nodes
    Links,          \* pairs <<m, n>> such that n hears m
    Origin,         \* the node that sends
    Everyone,       \* the address of a broadcast
    PacketIds,      \* identifiers of the packets it sends, from 1
    CacheSize,      \* entries of a PacketCache: 32 in the code
    MaxAge,         \* what clear_old is called with
    HopLimit,       \* of a new packet: 3 in the code
    MaxRouteClock   \* bound on the clock of the caches

ASSUME RoutingAssumption ==
    /\ Origin \in Routers
    /\ CacheSize \in Nat \ {0}
    /\ HopLimit \in Nat /\ MaxRouteClock \in Nat

VARIABLES
    routeClock,
    cache,          \* of each node: the entries and the next to write
    flooded,        \* packets on the air, with the node that sent them last
    forwarded,      \* history: the packets each node has forwarded
    younger         \* history: packets each cache has taken since this one,
                    \* CacheSize when that many, or when clear_old took it

routingVars == <<routeClock, cache, flooded, forwarded, younger>>

NoEntry == [id |-> 0, at |-> 0]

RoutingInit ==
    /\ routeClock = 0
    /\ cache = [n \in Routers |-> [entries |-> [i \in 1 .. CacheSize |-> NoEntry], next |-> 1]]
    /\ flooded = {}
    /\ forwarded = [n \in Routers |-> {}]
    /\ younger = [n \in Routers |-> [id \in PacketIds |-> CacheSize]]
-----------------------------------------------------------------------------
\* The bug of a search that ends where the next entry goes.
IsDuplicateUpToIndex(c, id) == \E i \in 1 .. c.next - 1 : c.entries[i].id = id

\* is_duplicate
IsDuplicate(c, id) == \E i \in 1 .. CacheSize : c.entries[i].id = id

\* add
Added(c, id) ==
    [entries |-> [c.entries EXCEPT ![c.next] = [id |-> id, at |-> routeClock]],
     next    |-> (c.next % CacheSize) + 1]

IsOld(e) == e.id # 0 /\ routeClock - e.at > MaxAge

\* clear_old, called by whoever keeps the cache.
ClearOld(n) ==
    LET old == {i \in 1 .. CacheSize : IsOld(cache[n].entries[i])}
    IN  /\ old # {}
        /\ cache' = [cache EXCEPT ![n].entries =
                         [i \in 1 .. CacheSize |-> IF i \in old THEN NoEntry ELSE @[i]]]
        /\ younger' = [younger EXCEPT ![n] = [id \in PacketIds |->
                           IF \E i \in old : cache[n].entries[i].id = id
                           THEN CacheSize ELSE @[id]]]
        /\ UNCHANGED <<routeClock, flooded, forwarded>>

\* route_packet for a packet that is not in the cache.
Route(n, p) ==
    IF p.to \in {n, Everyone}
    THEN IF p.to = Everyone /\ p.hops > 0 THEN "Forward" ELSE "Local"
    ELSE IF p.hops > 0 THEN "Forward" ELSE "Drop"

\* The bug of a hop limit that is not spent.
ForwardedWhole(n, p) == [p EXCEPT !.by = n]

\* create_forward_packet
Forwarded(n, p) == [p EXCEPT !.by = n, !.hops = @ - 1]

\* A node hears a packet and does what route_packet says.  What is on the air
\* may be heard by others later, or again, or by nobody.
Receive(n, p) ==
    /\ <<p.by, n>> \in Links
    /\ ~IsDuplicate(cache[n], p.id)
    /\ cache' = [cache EXCEPT ![n] = Added(@, p.id)]
    /\ younger' = [younger EXCEPT ![n] = [id \in PacketIds |->
                       IF id = p.id THEN 0
                       ELSE IF @[id] < CacheSize THEN @[id] + 1 ELSE CacheSize]]
    /\ IF Route(n, p) = "Forward"
       THEN /\ flooded' = flooded \cup {Forwarded(n, p)}
            /\ forwarded' = [forwarded EXCEPT ![n] = @ \cup {p.id}]
       ELSE UNCHANGED <<flooded, forwarded>>
    /\ UNCHANGED routeClock

\* Origin sends its next packet (external); it does not put it in its own cache.
SendFlood(id, to) ==
    /\ \A p \in flooded : p.id < id
    /\ id = Cardinality({p.id : p \in flooded}) + 1
    /\ flooded' = flooded \cup {[id |-> id, to |-> to, hops |-> HopLimit, by |-> Origin]}
    /\ UNCHANGED <<routeClock, cache, forwarded, younger>>

RouteTick ==
    /\ routeClock < MaxRouteClock
    /\ routeClock' = routeClock + 1
    /\ UNCHANGED <<cache, flooded, forwarded, younger>>

RoutingNext ==
    \/ \E id \in PacketIds : \E to \in (Routers \ {Origin}) \cup {Everyone} : SendFlood(id, to)
    \/ \E n \in Routers : \E p \in flooded : Receive(n, p)
    \/ \E n \in Routers : ClearOld(n)
    \/ RouteTick

RoutingSpec == RoutingInit /\ [][RoutingNext]_routingVars
-----------------------------------------------------------------------------
\* The types of the state of routing.
RoutingTypeOK ==
    /\ routeClock \in 0 .. MaxRouteClock
    /\ \A n \in Routers : cache[n].next \in 1 .. CacheSize
    /\ \A p \in flooded : p.id \in PacketIds /\ p.hops \in 0 .. HopLimit

\* The nodes a packet reaches in this many transmissions: the ends of the walks
\* from its origin of which every step is one, or none.
Walks(k) ==
    {w \in [0 .. k -> Routers] :
        w[0] = Origin /\ \A i \in 1 .. k : w[i] = w[i - 1] \/ <<w[i - 1], w[i]>> \in Links}

Reached(k) == {w[k] : w \in Walks(k)}

\* A packet goes no further than its hop limit: what a node sends with h hops
\* left is at most HopLimit - h hops from its origin (route_packet,
\* create_forward_packet).
HopsAreSpent == \A p \in flooded : p.by \in Reached(HopLimit - p.hops)

\* A node forwarded a packet again only when its cache has taken CacheSize others
\* since, or clear_old has dropped it (check_and_add, add, clear_old).
ForwardedOnce ==
    [][\A n \in Routers, p \in flooded :
           Receive(n, p) /\ Route(n, p) = "Forward" /\ p.id \in forwarded[n]
               => younger[n][p.id] = CacheSize]_routingVars
=============================================================================

----------------------------- MODULE AddressTable -----------------------------
(***************************************************************************)
(* AddressLookupTable (transport.rs): three indexes from the addresses a   *)
(* public key has in the three networks back to the key.  The addresses    *)
(* are parts of hashes: the MeshCore address is the first half of the      *)
(* Meshtastic one, and any two keys may share one.  An index that is full  *)
(* refuses a new address, and register does not look.                      *)
(***************************************************************************)
EXTENDS Integers, FiniteSets

CONSTANTS
    PublicKeys,
    Networks,       \* MeshCore, Meshtastic, Reticulum
    AddressOf,      \* per key and network: from_public_key
    MaxKnown        \* MAX_KNOWN_ADDRESSES

ASSUME AddressAssumption == MaxKnown \in Nat

VARIABLES
    index,          \* per network: the entries, as pairs of address and key
    registered,     \* history: keys registered and not unregistered since
    clashed         \* history: two of them, or one and a key unregistered,
                    \* shared an address, or there were more than MaxKnown

addressVars == <<index, registered, clashed>>

AddressInit ==
    /\ index = [n \in Networks |-> {}]
    /\ registered = {}
    /\ clashed = FALSE

AddressTypeOK ==
    /\ \A n \in Networks :
          /\ Cardinality(index[n]) <= MaxKnown
          /\ \A e, f \in index[n] : e[1] = f[1] => e = f
          /\ \A e \in index[n] : AddressOf[e[2]][n] = e[1]
    /\ registered \subseteq PublicKeys

Without(entries, address) == {e \in entries : e[1] # address}

\* FnvIndexMap::insert: in place of the entry of that address, or if there is room.
Inserted(entries, address, key) ==
    LET others == Without(entries, address)
    IN  IF others # entries \/ Cardinality(entries) < MaxKnown
        THEN others \cup {<<address, key>>}
        ELSE entries

Shares(key, other) == \E n \in Networks : AddressOf[key][n] = AddressOf[other][n]

Register(key) ==
    /\ index' = [n \in Networks |-> Inserted(index[n], AddressOf[key][n], key)]
    /\ registered' = registered \cup {key}
    /\ clashed' = (clashed \/ Cardinality(registered') > MaxKnown
                   \/ \E other \in registered \ {key} : Shares(key, other))

\* The bug of a key that stays in the index of the last network.
UnregisterTwo(key) ==
    /\ index' = [n \in Networks |->
                    IF n = "Reticulum" THEN index[n]
                    ELSE Without(index[n], AddressOf[key][n])]
    /\ registered' = registered \ {key}
    /\ UNCHANGED clashed

\* unregister removes whatever has the addresses of the key; until the table
\* is empty a clash stays possible.
Unregister(key) ==
    /\ index' = [n \in Networks |-> Without(index[n], AddressOf[key][n])]
    /\ registered' = registered \ {key}
    /\ clashed' = /\ registered' # {}
                  /\ clashed \/ \E other \in registered' : Shares(key, other)

Lookup(network, address) == {e[2] : e \in {f \in index[network] : f[1] = address}}

AddressNext ==
    \/ \E key \in PublicKeys : Register(key)
    \/ \E key \in PublicKeys : Unregister(key)

AddressSpec == AddressInit /\ [][AddressNext]_addressVars
-----------------------------------------------------------------------------
(***************************************************************************)
(* Every registered key is found in all three networks, and only those,    *)
(* until two of them share an address or the table overflows; and once     *)
(* every key is taken out again, what a clash left behind is gone too.     *)
(***************************************************************************)
IndexesAgree ==
    clashed \/ \A n \in Networks, key \in PublicKeys :
                  key \in Lookup(n, AddressOf[key][n]) <=> key \in registered
=============================================================================

------------------------------- MODULE Identity -------------------------------
(***************************************************************************)
(* What a node keeps of itself across restarts: the node identifier and    *)
(* private key of main.rs (NodeIdentity), its repeater setting, and the    *)
(* identity of identity.rs (IdentityManager).  All are in NVS, which may   *)
(* not open and may refuse a write, and the node may lose power between    *)
(* two writes.  Keys and identifiers are numbered as they are drawn.       *)
(***************************************************************************)
EXTENDS Integers, FiniteSets

CONSTANTS
    Unset,          \* an item NVS does not have, or a promise not made
    Seeds,          \* what import_seed may be given
    MaxDrawn,       \* bound on the identities that are drawn
    MaxNvsFaults,   \* bound on the refusals of NVS
    MaxPowerCycles  \* bound on the restarts

\* Identities are numbers, an item NVS does not have is none.
ASSUME IdentityAssumption == Unset \notin Nat /\ MaxDrawn \in Nat

VARIABLES
    nvs,            \* the items of NVS: node_id, priv_key, repeater, identity
    node,           \* the running node: step, node_id, priv_key, repeater, identity,
                    \* and before: its identifier at the last factory reset
    drawn,          \* identities drawn so far
    nvsFaults, powerCycles,
    kept            \* history: what the node has found or stored without a fault

identityVars == <<nvs, node, drawn, nvsFaults, powerCycles, kept>>

NoNode == [step |-> "off", node_id |-> Unset, priv_key |-> Unset, repeater |-> TRUE,
           identity |-> Unset, before |-> Unset]

IdentityInit ==
    /\ nvs = [node_id |-> Unset, priv_key |-> Unset, repeater |-> Unset, identity |-> Unset]
    /\ node = NoNode
    /\ drawn = 0 /\ nvsFaults = 0 /\ powerCycles = 0
    /\ kept = [node_id |-> Unset, priv_key |-> Unset, repeater |-> Unset, identity |-> Unset]

\* Whether NVS does as it is told; each refusal counts.
Nvs(ok) ==
    /\ ok \/ nvsFaults < MaxNvsFaults
    /\ nvsFaults' = IF ok THEN nvsFaults ELSE nvsFaults + 1
-----------------------------------------------------------------------------
\* load_or_create_identity runs at start-up and at the end of factory_reset, after
\* which the node goes on with the settings it had.
Asks == node.step \in {"off", "reset"}

Known == IF node.before = Unset THEN "loaded" ELSE "up"

\* The bug of a node that is content with one of the two.
HasEither == nvs.node_id # Unset \/ nvs.priv_key # Unset

\* NVS opens, at the second attempt perhaps, and both items are there.
HasIdentity == nvs.node_id # Unset /\ nvs.priv_key # Unset

LoadIdentity ==
    /\ Asks /\ HasIdentity
    /\ node' = [node EXCEPT !.step = Known, !.node_id = nvs.node_id,
                            !.priv_key = nvs.priv_key]
    /\ UNCHANGED <<nvs, drawn, nvsFaults, powerCycles, kept>>

\* generate_random_node_id and generate_random_private_key.
Draw(step) ==
    /\ drawn < MaxDrawn
    /\ drawn' = drawn + 1
    /\ node' = [node EXCEPT !.step = step, !.node_id = drawn + 1, !.priv_key = drawn + 1]

CreateIdentity ==
    /\ Asks /\ ~HasIdentity
    /\ Draw("store_id")
    /\ UNCHANGED <<nvs, nvsFaults, powerCycles, kept>>

\* NVS does not open: the identity lasts until the next restart.
EphemeralIdentity ==
    /\ Asks
    /\ Draw(Known) /\ Nvs(FALSE)
    /\ UNCHANGED <<nvs, powerCycles, kept>>

\* The two writes, whose results nobody looks at.
StoreNodeId(ok) ==
    /\ node.step = "store_id" /\ Nvs(ok)
    /\ nvs' = IF ok THEN [nvs EXCEPT !.node_id = node.node_id] ELSE nvs
    /\ node' = [node EXCEPT !.step = "store_key"]
    /\ UNCHANGED <<drawn, powerCycles, kept>>

StorePrivateKey(ok) ==
    /\ node.step = "store_key" /\ Nvs(ok)
    /\ nvs' = IF ok THEN [nvs EXCEPT !.priv_key = node.priv_key] ELSE nvs
    /\ kept' = IF nvs'.node_id = node.node_id /\ ok
               THEN [kept EXCEPT !.node_id = node.node_id, !.priv_key = node.priv_key]
               ELSE kept
    /\ node' = [node EXCEPT !.step = Known]
    /\ UNCHANGED <<drawn, powerCycles>>

\* load_repeater_setting: on, unless NVS opens and says otherwise.
LoadRepeater(ok) ==
    /\ node.step = "loaded" /\ Nvs(ok)
    /\ node' = [node EXCEPT !.step = "up",
                    !.repeater = IF ok /\ nvs.repeater # Unset THEN nvs.repeater ELSE TRUE]
    /\ UNCHANGED <<nvs, drawn, powerCycles, kept>>

\* The bug of a setting that is stored only when it is on.
StoredWhenOn(on, ok) ==
    IF ok /\ on THEN [nvs EXCEPT !.repeater = on] ELSE nvs

StoredRepeater(on, ok) == IF ok THEN [nvs EXCEPT !.repeater = on] ELSE nvs

\* AT+REPEATER and save_repeater_setting.
SetRepeater(on, ok) ==
    /\ node.step = "up" /\ node.repeater # on /\ Nvs(ok)
    /\ nvs' = StoredRepeater(on, ok)
    /\ node' = [node EXCEPT !.repeater = on]
    /\ kept' = [kept EXCEPT !.repeater = IF ok THEN on ELSE Unset]
    /\ UNCHANGED <<drawn, powerCycles>>
-----------------------------------------------------------------------------
\* save_to_flash: one blob, and whether it was stored nobody asks.
SaveIdentity(identity, ok) ==
    /\ nvs' = IF ok THEN [nvs EXCEPT !.identity = identity] ELSE nvs
    /\ node' = [node EXCEPT !.identity = identity]
    /\ kept' = [kept EXCEPT !.identity = IF ok THEN identity ELSE Unset]

\* IdentityManager::init, at the first use after a restart: what is in flash.
InitManager ==
    /\ node.step = "up" /\ node.identity = Unset /\ nvs.identity # Unset
    /\ node' = [node EXCEPT !.identity = nvs.identity]
    /\ UNCHANGED <<nvs, drawn, nvsFaults, powerCycles, kept>>

\* The same when there is nothing in flash, and rotate: a new identity.
NewIdentity(ok) ==
    /\ node.step = "up" /\ (node.identity # Unset \/ nvs.identity = Unset)
    /\ drawn < MaxDrawn /\ drawn' = drawn + 1
    /\ SaveIdentity(drawn + 1, ok) /\ Nvs(ok)
    /\ UNCHANGED powerCycles

\* init when flash cannot be read: the identity that is there is replaced.
InitManagerBlind(ok) ==
    /\ node.step = "up" /\ node.identity = Unset /\ nvs.identity # Unset
    /\ drawn < MaxDrawn /\ drawn' = drawn + 1
    /\ SaveIdentity(drawn + 1, ok) /\ Nvs(FALSE)
    /\ UNCHANGED powerCycles

\* import_seed: an identity that depends on the seed alone.
ImportSeed(seed, ok) ==
    /\ node.step = "up" /\ node.identity # Unset
    /\ SaveIdentity(seed, ok) /\ Nvs(ok)
    /\ UNCHANGED <<drawn, powerCycles>>

\* Power is lost, between two writes perhaps.
PowerCycle ==
    /\ powerCycles < MaxPowerCycles
    /\ powerCycles' = powerCycles + 1
    /\ node' = NoNode
    /\ UNCHANGED <<nvs, drawn, nvsFaults, kept>>

\* factory_reset: nvs_flash_erase_partition is given the name of the namespace,
\* which the partition table does not have, so that nothing is erased; then the
\* node takes its identity as at start-up.
FactoryReset ==
    /\ node.step = "up"
    /\ node' = [node EXCEPT !.step = "reset", !.before = node.node_id]
    /\ UNCHANGED <<nvs, drawn, nvsFaults, powerCycles, kept>>

IdentityNext ==
    \/ LoadIdentity \/ CreateIdentity \/ EphemeralIdentity
    \/ InitManager \/ PowerCycle \/ FactoryReset
    \/ \E ok \in BOOLEAN :
        \/ StoreNodeId(ok) \/ StorePrivateKey(ok) \/ LoadRepeater(ok)
        \/ NewIdentity(ok) \/ InitManagerBlind(ok)
        \/ \E on \in BOOLEAN : SetRepeater(on, ok)
        \/ \E seed \in Seeds : ImportSeed(seed, ok)

IdentitySpec == IdentityInit /\ [][IdentityNext]_identityVars
-----------------------------------------------------------------------------
Drawn == 1 .. MaxDrawn

\* The types of what a node keeps.
IdentityTypeOK ==
    /\ nvs.node_id \in Drawn \cup {Unset} /\ nvs.priv_key \in Drawn \cup {Unset}
    /\ nvs.repeater \in BOOLEAN \cup {Unset}
    /\ nvs.identity \in Drawn \cup Seeds \cup {Unset}
    /\ node.step \in {"off", "store_id", "store_key", "loaded", "up", "reset"}
    /\ node.before \in Drawn \cup {Unset}
    /\ node.repeater \in BOOLEAN

\* As long as NVS has not refused anything, identifier and key are of one draw,
\* wherever power was lost, and what a node has once stored - identity, setting
\* - is what it runs with after every restart, and after every factory_reset,
\* which erases nothing; and whatever NVS refuses, the pair it has stored stays
\* stored (load_or_create_identity, load_repeater_setting, IdentityManager::init).
NodeIsItself ==
    /\ nvsFaults = 0 =>
        /\ node.node_id = node.priv_key
        /\ node.step \in {"loaded", "up"} => node.node_id = kept.node_id
        /\ node.step = "up" /\ kept.repeater # Unset => node.repeater = kept.repeater
        /\ node.identity # Unset => node.identity = kept.identity
    /\ \A item \in {"node_id", "priv_key"} :
        kept[item] # Unset => nvs[item] = kept[item]

\* After a factory reset the node has another identity: "Factory reset: erased
\* old identity, generating new one" (main.rs:332).
ResetRenewsIdentity ==
    node.step = "up" /\ node.before # Unset => node.node_id # node.before
=============================================================================

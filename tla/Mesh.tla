--------------------------------- MODULE Mesh ---------------------------------
(* What a node does with messages, below and above the radio: the duplicate  *)
(* filter, the sessions, the onion and the address table of MeshCore, and    *)
(* the handler, the codec and the delivery of Meshtastic.  They share no     *)
(* state, so that a behaviour is one of one of them, `part`; the others stay *)
(* as they began.                                                            *)
EXTENDS Dedup, Session, Onion, AddressTable, MeshtasticHandler,
        MeshtasticRouting, Codec

VARIABLE part

Parts == {"dedup", "session", "onion", "addresses", "handler", "routing", "codec"}

\* Where a part that is not at work has a choice of beginnings, it takes one.
MeshInit ==
    /\ part \in Parts
    /\ Init /\ SessionInit /\ OnionInit /\ AddressInit /\ HandlerInit
    /\ RoutingInit /\ CodecInit
    /\ part # "dedup"   => verdict = [hash |-> CHOOSE h \in Hashes : TRUE, passed |-> FALSE]
    /\ part # "handler" => channelKey = [n \in MeshNodes |-> CHOOSE k \in ChannelKeys : TRUE]
    /\ part # "codec"   => coding = CHOOSE m \in CodecMessages : TRUE

MeshNext ==
    \/ /\ part = "dedup" /\ Next
       /\ UNCHANGED <<part, sessionVars, onionVars, addressVars, handlerVars,
                      routingVars, codecVars>>
    \/ /\ part = "session" /\ SessionNext
       /\ UNCHANGED <<part, vars, onionVars, addressVars, handlerVars,
                      routingVars, codecVars>>
    \/ /\ part = "onion" /\ OnionNext
       /\ UNCHANGED <<part, vars, sessionVars, addressVars, handlerVars,
                      routingVars, codecVars>>
    \/ /\ part = "addresses" /\ AddressNext
       /\ UNCHANGED <<part, vars, sessionVars, onionVars, handlerVars,
                      routingVars, codecVars>>
    \/ /\ part = "handler" /\ HandlerNext
       /\ UNCHANGED <<part, vars, sessionVars, onionVars, addressVars,
                      routingVars, codecVars>>
    \/ /\ part = "routing" /\ RoutingNext
       /\ UNCHANGED <<part, vars, sessionVars, onionVars, addressVars,
                      handlerVars, codecVars>>
    \/ /\ part = "codec" /\ CodecNext
       /\ UNCHANGED <<part, vars, sessionVars, onionVars, addressVars,
                      handlerVars, routingVars>>

MeshSpec ==
    MeshInit /\ [][MeshNext]_<<part, vars, sessionVars, onionVars, addressVars,
                               handlerVars, routingVars, codecVars>>
-----------------------------------------------------------------------------
(***************************************************************************)
(* The types of the parts: the counters and lengths they keep stay within  *)
(* the buffers and indices of the code.                                    *)
(***************************************************************************)
MeshTypes ==
    /\ TypeOK /\ SessionTypeOK /\ OnionTypeOK /\ AddressTypeOK
    /\ HandlerTypeOK /\ RoutingTypeOK
===============================================================================

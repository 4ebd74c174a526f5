------------------------------- MODULE Restarts -------------------------------
(* What a node keeps through sleep, loss of power and update: the packet     *)
(* counter in RTC memory, the chip's sleep and wake-up, the firmware, the    *)
(* stores of contacts and sessions, and the node's identity.  They share no  *)
(* state, so that a behaviour is one of one of them, `part`; the others stay *)
(* as they began.                                                            *)
EXTENDS PacketId, Power, Ota, Stores, Identity

VARIABLE part

Parts == {"packet_id", "power", "ota", "stores", "identity"}

\* Where a part that is not at work has a choice of beginnings, it takes one.
RestartInit ==
    /\ part \in Parts
    /\ Init /\ PowerInit /\ OtaInit /\ StoresInit /\ IdentityInit
    /\ part # "packet_id" => rtc.sequence = 0
    /\ part # "ota"       => flash.present = FALSE
    /\ part # "stores"    => kind = "contacts"

RestartNext ==
    \/ /\ part = "packet_id" /\ Next
       /\ UNCHANGED <<part, powerVars, otaVars, storesVars, identityVars>>
    \/ /\ part = "power" /\ PowerNext
       /\ UNCHANGED <<part, vars, otaVars, storesVars, identityVars>>
    \/ /\ part = "ota" /\ OtaNext
       /\ UNCHANGED <<part, vars, powerVars, storesVars, identityVars>>
    \/ /\ part = "stores" /\ StoresNext
       /\ UNCHANGED <<part, vars, powerVars, otaVars, identityVars>>
    \/ /\ part = "identity" /\ IdentityNext
       /\ UNCHANGED <<part, vars, powerVars, otaVars, storesVars>>

RestartSpec ==
    RestartInit /\ [][RestartNext]_<<part, vars, powerVars, otaVars, storesVars, identityVars>>
-----------------------------------------------------------------------------
(***************************************************************************)
(* The types of the parts: the counters and lengths they keep stay within  *)
(* the tables, buffers and widths of the code.                             *)
(***************************************************************************)
RestartTypes ==
    /\ TypeOK /\ PowerTypeOK /\ OtaTypeOK /\ StoresTypeOK /\ IdentityTypeOK
=============================================================================

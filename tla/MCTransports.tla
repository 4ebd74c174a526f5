----------------------------- MODULE MCTransports -----------------------------
(* What comes between the apps and the node: the BLE transport, the TCP      *)
(* server over WiFi, the router that shares the radio among transports, and  *)
(* the settings an RNode host keeps.  They share no state, so that a         *)
(* behaviour is one of one of them, `part`; the others stay as they began.   *)
EXTENDS Ble, Wifi, Router, RNode, TLC

CONSTANTS h1, h2, p1, p2, p3

VARIABLE part

AllCalls == {"start_advertising", "stop_advertising", "poll_event", "read",
             "queue_from_radio", "dequeue_from_radio"}

\* Values in and out of range, and the two that end low data rate.
MCValuesOf(s) ==
    CASE s = "Frequency"       -> {868100000, 915000000}
      [] s = "Bandwidth"       -> {125000, 500000}
      [] s = "TxPower"         -> {0, 22, 200}
      [] s = "SpreadingFactor" -> {0, 11}
      [] s = "CodingRate"      -> {9}
      [] s \in {"CrcMode", "Ldro"} -> {0, 2}
      [] OTHER                 -> {}

MCDefaults ==
    [Frequency |-> 868100000, Bandwidth |-> 125000, TxPower |-> 14,
     SpreadingFactor |-> 9, CodingRate |-> 5, PreambleLength |-> 8,
     SyncWord |-> 18, CrcMode |-> 1, ImplicitHeader |-> 0, Ldro |-> 0]

\* The connections differ in nothing.
MCSymmetry == Permutations({p1, p2, p3})
-----------------------------------------------------------------------------
Parts == {"ble", "wifi", "router", "rnode"}

TransportInit ==
    /\ part \in Parts
    /\ Init /\ WifiInit /\ RouterInit /\ RNodeInit

TransportNext ==
    \/ /\ part = "ble" /\ Next
       /\ UNCHANGED <<part, wifiVars, routerVars, rnodeVars>>
    \/ /\ part = "wifi" /\ WifiNext
       /\ UNCHANGED <<part, vars, routerVars, rnodeVars>>
    \/ /\ part = "router" /\ RouterNext
       /\ UNCHANGED <<part, vars, wifiVars, rnodeVars>>
    \/ /\ part = "rnode" /\ RNodeNext
       /\ UNCHANGED <<part, vars, wifiVars, routerVars>>

TransportSpec ==
    TransportInit /\ [][TransportNext]_<<part, vars, wifiVars, routerVars, rnodeVars>>
=============================================================================

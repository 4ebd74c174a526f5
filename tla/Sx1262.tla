-------------------------------- MODULE Sx1262 --------------------------------
(***************************************************************************)
(* The LoRa transceiver and its driver (sx1262.rs).                        *)
(*                                                                         *)
(* A radio is a record of what the driver believes and of what the chip    *)
(* does; the two are different things, and most of what goes wrong with a  *)
(* radio is the two drifting apart:                                        *)
(*   state   Sx1262.state, the driver's idea of the mode                   *)
(*   config  Sx1262.config, the last configuration known to be complete    *)
(*   chip    the mode the chip is in                                       *)
(*   modem   the configuration the chip's registers hold: a configuration, *)
(*           "Reset" after a hardware reset, "Mixed" when the writing of   *)
(*           one was cut short                                             *)
(*   routed  SET_DIO_IRQ_PARAMS was written since the last reset: before,  *)
(*           the chip raises no interrupt flag at all                      *)
(*   irq     the chip's interrupt flags                                    *)
(*   buf     the packet in the chip's data buffer                          *)
(*                                                                         *)
(* Each driver call is a sequence of commands to the chip, and each of     *)
(* them may fail (BusyTimeout, Spi), which ends the call there.  A call is *)
(* therefore given by the radios it passes through, from the one it is     *)
(* called in to the one it leaves on success; a failure leaves any of the  *)
(* others.  A command that fails has not reached the chip.                 *)
(***************************************************************************)
EXTENDS Integers, Sequences

CONSTANTS
    Packets,    \* payloads that arrive or are sent
    NoPacket    \* the buffer before anything was written to it

AppConfigs == {"MeshCore", "Meshtastic", "RNode"}
Configs    == AppConfigs \cup {"Default", "Custom"}
Flags      == {"TxDone", "RxDone", "CrcErr"}

Radio == [state  : {"Sleep", "Standby", "Tx", "Rx"},
          config : Configs,
          chip   : {"Standby", "Tx", "Rx"},
          modem  : Configs \cup {"Reset", "Mixed"},
          routed : BOOLEAN,
          irq    : SUBSET Flags,
          buf    : Packets \cup {NoPacket}]

\* Sx1262::new, on a chip that has just been powered.
NewRadio == [state |-> "Sleep", config |-> "Default", chip |-> "Standby",
             modem |-> "Reset", routed |-> FALSE, irq |-> {}, buf |-> NoPacket]

\* The ways a call can end that passes through the given radios.
Outcomes(radios) ==
    {[ok |-> TRUE, faults |-> 0, radio |-> radios[Len(radios)]]}
    \cup {[ok |-> FALSE, faults |-> 1, radio |-> radios[i]] :
             i \in 1 .. Len(radios) - 1}

\* A call that is refused before it touches the chip.
Refused(r) == {[ok |-> FALSE, faults |-> 0, radio |-> r]}

InStandby(r) == [r EXCEPT !.state = "Standby", !.chip = "Standby"]
InRx(r)      == [r EXCEPT !.state = "Rx", !.chip = "Rx"]
Quiet(r)     == [r EXCEPT !.irq = {}]

\* Bugs of a driver that would not clear the flags, would configure the chip
\* with the wrong settings after a reset, or would record a configuration
\* before the chip has it.
StartRxKeepsFlags(r) == <<r, InStandby(r), InRx(InStandby(r))>>

ConfigureRecordsFirst(r, c) ==
    LET begun   == [r EXCEPT !.config = c]
        partial == [begun EXCEPT !.modem = "Mixed"]
        routed  == [partial EXCEPT !.routed = TRUE]
    IN  <<begun, partial, routed, [routed EXCEPT !.modem = c]>>

StartRxSteps(r) ==
    <<r, InStandby(r), Quiet(InStandby(r)), InRx(Quiet(InStandby(r)))>>

StartRx(r) == Outcomes(StartRxSteps(r))

ClearIrq(r, flags) == Outcomes(<<r, [r EXCEPT !.irq = @ \ flags]>>)

(***************************************************************************)
(* configure.  The chip's registers are written one after the other; the   *)
(* interrupt routing is written near the end, and self.config is assigned  *)
(* after all of them.                                                      *)
(***************************************************************************)
ConfigureSteps(r, c) ==
    LET partial == [r EXCEPT !.modem = "Mixed"]
        routed  == [partial EXCEPT !.routed = TRUE]
    IN  <<r, partial, routed, [routed EXCEPT !.modem = c, !.config = c]>>

Configure(r, c) == Outcomes(ConfigureSteps(r, c))

\* The bug of putting the driver's defaults back.
InitRadioDefaults(r) ==
    LET reset == [r EXCEPT !.chip = "Standby", !.modem = "Reset",
                           !.routed = FALSE, !.irq = {}, !.buf = NoPacket]
    IN  Outcomes(<<reset>> \o ConfigureSteps(InStandby(reset), "Default"))

(***************************************************************************)
(* init.  The reset pin always reaches the chip; the driver's state is     *)
(* written only once SET_STANDBY went through, and the configuration that  *)
(* is put back is the driver's current one.                                *)
(***************************************************************************)
InitRadio(r) ==
    LET reset == [r EXCEPT !.chip = "Standby", !.modem = "Reset",
                           !.routed = FALSE, !.irq = {}, !.buf = NoPacket]
        ready == InStandby(reset)
    IN  Outcomes(<<reset>> \o ConfigureSteps(ready, r.config))

(***************************************************************************)
(* transmit and the wait_tx_done it ends in.  The packet replaces what the *)
(* buffer held.  When the chip reports the end of the transmission the     *)
(* driver listens again by itself, and only then records Standby: after a  *)
(* success the driver says Standby of a chip that is receiving.  The wait  *)
(* gives up after its 10000 polls, when the chip hangs or its DIO1 line    *)
(* says nothing; a chip whose interrupts are not routed always ends so.    *)
(***************************************************************************)
TransmitTimeouts(r) ==
    {[ok |-> FALSE, faults |-> 1, radio |-> r],
     [ok |-> FALSE, faults |-> 0, radio |-> InStandby(r)]}

Transmit(r, p) ==
    LET written == [InStandby(r) EXCEPT !.buf = p]
        sending == [Quiet(written) EXCEPT !.state = "Tx", !.chip = "Tx"]
        sent    == [sending EXCEPT !.chip = "Standby", !.irq = {"TxDone"}]
        rearm   == StartRxSteps(Quiet(sent))
        failing == SubSeq(rearm, 1, Len(rearm) - 1)
        heard   == [rearm[Len(rearm)] EXCEPT !.state = "Standby"]
        before  == <<r, InStandby(r), written, Quiet(written)>>
        waiting == TransmitTimeouts(sending)
    IN  IF r.routed
        THEN Outcomes(before \o <<sent>> \o failing \o <<heard>>)
             \cup {[o EXCEPT !.faults = @ + 1] :
                      o \in waiting \cup TransmitTimeouts(sent)}
        ELSE {o \in Outcomes(before \o <<sending>>) : ~ o.ok} \cup waiting

\* read_packet: fails on an empty buffer, or on a fault.
ReadPacket(r) ==
    IF r.buf = NoPacket THEN Refused(r) ELSE Outcomes(<<r, r>>)
-----------------------------------------------------------------------------
(***************************************************************************)
(* The chip on its own: a packet it receives in continuous mode goes to    *)
(* the buffer, over an earlier one, and a transmission that was given up   *)
(* ends some time.                                                         *)
(***************************************************************************)
Receive(r, p, crcOk) ==
    [r EXCEPT !.buf = p,
              !.irq = IF ~ r.routed THEN @
                      ELSE IF crcOk THEN @ \cup {"RxDone"}
                      ELSE @ \cup {"RxDone", "CrcErr"}]

FinishTx(r) == [r EXCEPT !.chip = "Standby",
                         !.irq = IF r.routed THEN @ \cup {"TxDone"} ELSE @]
=============================================================================

-------------------------------- MODULE Power --------------------------------
(***************************************************************************)
(* PowerManager (power.rs): the mode and the clock frequency, the pins     *)
(* that end a sleep, light and deep sleep, and the user's words in RTC     *)
(* memory, which a deep sleep keeps.  The chip is external: it takes the   *)
(* frequency and the wake-up sources it is given, keeps them until it is   *)
(* reset, and wakes by the timer or by the levels at the pins.             *)
(***************************************************************************)
EXTENDS Integers, Sequences, FiniteSets

CONSTANTS
    Pins,           \* pins in use, some perhaps 64 and above
    WakeSlots,      \* the length of gpio_wake_pins
    Frequencies,    \* set_cpu_frequency is called with, valid or not
    RtcSlots,       \* slot numbers set_rtc_data is called with
    MaxNaps         \* bound: light sleeps in a behaviour

ASSUME PowerAssumption == WakeSlots \in Nat

VARIABLES
    power,          \* mode, cpu_freq_mhz, gpio_wake_pins, last_wake_cause,
                    \* sleep_count; ready - init has succeeded
    chip,           \* freq; mask and any_high of the EXT1 wake-up; timer;
                    \* asleep - "no", "light" or "deep"; naps - light sleeps
    rtc_data        \* the words of the user in RTC memory

powerVars == <<power, chip, rtc_data>>

Modes   == {"Performance", "Balanced", "LowPower", "UltraLow"}
Allowed == {240, 160, 80, 40, 20, 10}
FrequencyOf(mode) ==
    CASE mode = "Performance" -> 240 [] mode = "Balanced" -> 160
      [] mode = "LowPower" -> 80     [] mode = "UltraLow" -> 40

NewPower(cause) ==
    [mode |-> "Balanced", freq |-> 240, wake_pins |-> << >>, cause |-> cause,
     naps |-> 0, ready |-> FALSE]

NewChip ==
    [freq |-> 240, mask |-> {}, any_high |-> TRUE, timer |-> FALSE,
     asleep |-> "no", naps |-> 0]

PowerInit ==
    /\ power = NewPower("PowerOn")
    /\ chip = NewChip
    /\ rtc_data = [s \in 0 .. 7 |-> 0]

PowerTypeOK ==
    /\ power.mode \in Modes /\ power.freq \in Allowed
    /\ Len(power.wake_pins) <= WakeSlots
    /\ \A i, j \in DOMAIN power.wake_pins :
          power.wake_pins[i].pin = power.wake_pins[j].pin => i = j
    /\ chip.asleep \in {"no", "light", "deep"}
    /\ rtc_data \in [0 .. 7 -> 0 .. 1]

Awake == chip.asleep = "no"
-----------------------------------------------------------------------------
\* The bug of a frequency that is noted before the chip has taken it.
WithFrequencyFirst(p, mhz, ok) ==
    IF mhz \in Allowed
    THEN /\ power' = [p EXCEPT !.freq = mhz]
         /\ chip' = IF ok THEN [chip EXCEPT !.freq = mhz] ELSE chip
    ELSE /\ power' = p
         /\ UNCHANGED chip

\* set_cpu_frequency, which the chip may refuse.
WithFrequency(p, mhz, ok) ==
    IF mhz \in Allowed /\ ok
    THEN /\ power' = [p EXCEPT !.freq = mhz]
         /\ chip' = [chip EXCEPT !.freq = mhz]
    ELSE /\ power' = p
         /\ UNCHANGED chip

SetCpuFrequency(mhz, ok) ==
    /\ Awake
    /\ WithFrequency(power, mhz, ok)
    /\ UNCHANGED rtc_data

\* init and set_mode: the mode is noted whether or not it can be applied.
InitPower(ok) ==
    /\ Awake
    /\ WithFrequency([power EXCEPT !.ready = @ \/ ok], FrequencyOf(power.mode), ok)
    /\ UNCHANGED rtc_data

SetMode(mode, ok) ==
    /\ Awake
    /\ WithFrequency([power EXCEPT !.mode = mode, !.ready = @ \/ ok],
                     FrequencyOf(mode), ok)
    /\ UNCHANGED rtc_data
-----------------------------------------------------------------------------
\* configure_gpio_wake: the slot of the pin, or the first that is free.
ConfigureGpioWake(pin, high) ==
    LET p    == power.wake_pins
        new  == [pin |-> pin, high |-> high]
        mine == {i \in DOMAIN p : p[i].pin = pin}
    IN  /\ Awake
        /\ power' = [power EXCEPT !.wake_pins =
              IF mine # {} THEN [i \in DOMAIN p |-> IF i \in mine THEN new ELSE p[i]]
              ELSE IF Len(p) < WakeSlots THEN Append(p, new) ELSE p]
        /\ UNCHANGED <<chip, rtc_data>>

Configured == {power.wake_pins[i] : i \in DOMAIN power.wake_pins}
Usable     == {c \in Configured : c.pin < 64}

\* The bug of a level that is the last pin's.
ArmedByLast ==
    [mask |-> {c.pin : c \in Usable},
     any_high |-> IF power.wake_pins = << >> THEN TRUE
                  ELSE power.wake_pins[Len(power.wake_pins)].high]

(***************************************************************************)
(* configure_gpio_wake_internal: one level for all pins.  One pin that     *)
(* waits for low makes the chip wait for all of them to be low.            *)
(***************************************************************************)
Armed ==
    [mask |-> {c.pin : c \in Usable},
     any_high |-> \A c \in Usable : c.high]

WithPins(c) == IF Armed.mask = {} THEN c
               ELSE [c EXCEPT !.mask = Armed.mask, !.any_high = Armed.any_high]

\* light_sleep: no duration is refused; the chip may refuse to sleep, armed.
LightSleep(refused) ==
    /\ Awake /\ chip.naps < MaxNaps
    /\ chip' = [WithPins(chip) EXCEPT !.timer = TRUE,
                                      !.asleep = IF refused THEN "no" ELSE "light"]
    /\ UNCHANGED <<power, rtc_data>>

DeepSleep ==
    /\ Awake
    /\ chip' = [WithPins(chip) EXCEPT !.timer = TRUE, !.asleep = "deep"]
    /\ UNCHANGED <<power, rtc_data>>

\* Whether the chip wakes when exactly these pins are high.
PinsEnd(high) ==
    /\ chip.mask # {}
    /\ IF chip.any_high THEN chip.mask \cap high # {} ELSE chip.mask \cap high = {}

\* light_sleep counts when it returns.
WakeLight(cause) ==
    /\ chip.asleep = "light"
    /\ chip' = [chip EXCEPT !.asleep = "no", !.naps = @ + 1]
    /\ power' = [power EXCEPT !.naps = @ + 1, !.cause = cause]
    /\ UNCHANGED rtc_data

\* A deep sleep ends in a reset.
WakeDeep(cause) ==
    /\ chip.asleep = "deep"
    /\ chip' = NewChip
    /\ power' = NewPower(cause)
    /\ UNCHANGED rtc_data

Wake(cause) == WakeLight(cause) \/ WakeDeep(cause)

WakeByTimer == chip.timer /\ Wake("Timer")
WakeByPins  == \E high \in SUBSET Pins : PinsEnd(high) /\ Wake("Gpio")

\* set_rtc_data: eight words, and a slot past them is passed over.
SetRtcData(slot, value) ==
    /\ Awake
    /\ rtc_data' = [s \in DOMAIN rtc_data |-> IF s = slot THEN value ELSE rtc_data[s]]
    /\ UNCHANGED <<power, chip>>

PowerNext ==
    \/ \E ok \in BOOLEAN : InitPower(ok)
    \/ \E mode \in Modes, ok \in BOOLEAN : SetMode(mode, ok)
    \/ \E mhz \in Frequencies, ok \in BOOLEAN : SetCpuFrequency(mhz, ok)
    \/ \E pin \in Pins, high \in BOOLEAN : ConfigureGpioWake(pin, high)
    \/ \E refused \in BOOLEAN : LightSleep(refused)
    \/ DeepSleep
    \/ WakeByTimer
    \/ WakeByPins
    \/ \E slot \in RtcSlots, value \in {0, 1} : SetRtcData(slot, value)

PowerSpec == PowerInit /\ [][PowerNext]_powerVars
-----------------------------------------------------------------------------
(***************************************************************************)
(* What the manager reports is what the chip does: once initialised, its   *)
(* frequency is the chip's whatever calls failed, and asleep, the chip     *)
(* wakes exactly when one of the configured pins is at its level, unless   *)
(* two of them wait and one waits for low.                                 *)
(***************************************************************************)
PowerAsReported ==
    /\ power.ready => power.freq = chip.freq
    /\ chip.asleep # "no" /\ (\A c \in Usable : c.high) =>
          \A high \in SUBSET Pins :
              PinsEnd(high) <=> \E c \in Usable : c.pin \in high
    /\ chip.asleep # "no" /\ Cardinality(Usable) = 1 =>
          \A high \in SUBSET Pins, c \in Usable : PinsEnd(high) <=> (c.high <=> c.pin \in high)
=============================================================================

-------------------------------- MODULE RNode --------------------------------
(***************************************************************************)
(* RNodeHandler (rnode.rs): the settings a host keeps in an RNode by       *)
(* command frames, their lock, the online state, and what the host learns  *)
(* of them by the answers.  The counters, the budget of airtime and the    *)
(* promiscuous mode decide nothing in this code (check_airtime_limit has   *)
(* no caller) and are left out.                                            *)
(* The radio takes the settings when the protocol is detected (RadioLoop), *)
(* and only then.                                                          *)
(*                                                                         *)
(* A setting is the number its bytes stand for.                            *)
(***************************************************************************)
EXTENDS Integers

CONSTANTS
    ValuesOf(_),    \* values the host sends for a setting
    Defaults,       \* RNodeConfig::default
    Asked,          \* settings the host asks for and sets
    Unasked         \* what a host knows before it asked

Settings == {"Frequency", "Bandwidth", "TxPower", "SpreadingFactor", "CodingRate",
             "PreambleLength", "SyncWord", "CrcMode", "ImplicitHeader", "Ldro"}

\* RNodeConfig::default is in range; a value is a number of one byte or four.
ASSUME RNodeAssumption ==
    /\ DOMAIN Defaults = Settings /\ Asked \subseteq Settings
    /\ Defaults["SpreadingFactor"] \in 7 .. 12 /\ Defaults["CodingRate"] \in 5 .. 8
    /\ Defaults["TxPower"] \in -9 .. 22
    /\ \A s \in Asked : ValuesOf(s) \subseteq Nat

VARIABLES
    config,     \* self.config, per setting its value
    handler,    \* online and locked
    known       \* history: per setting what a host that keeps book knows

rnodeVars == <<config, handler, known>>

RNodeInit ==
    /\ config = Defaults
    /\ handler = [online |-> FALSE, locked |-> FALSE]
    /\ known = [s \in Settings |-> Unasked]

RNodeTypeOK ==
    /\ DOMAIN config = Settings
    /\ handler.online \in BOOLEAN /\ handler.locked \in BOOLEAN
    /\ DOMAIN known = Settings
-----------------------------------------------------------------------------
Within(low, n, high) == IF n < low THEN low ELSE IF n > high THEN high ELSE n

\* A byte read as an i8.
Signed(n) == IF n < 128 THEN n ELSE n - 256

\* The bug of a spreading factor that is stored as it comes.
StoredUnclamped(s, n) ==
    CASE s = "TxPower"         -> Within(-9, Signed(n), 22)
      [] s = "CodingRate"      -> Within(5, n, 8)
      [] s \in {"CrcMode", "ImplicitHeader", "Ldro"} -> IF n = 0 THEN 0 ELSE 1
      [] OTHER                 -> n

\* What is stored of a value that is sent.
Stored(s, n) ==
    CASE s = "TxPower"         -> Within(-9, Signed(n), 22)
      [] s = "SpreadingFactor" -> Within(7, n, 12)
      [] s = "CodingRate"      -> Within(5, n, 8)
      [] s \in {"CrcMode", "ImplicitHeader", "Ldro"} -> IF n = 0 THEN 0 ELSE 1
      [] OTHER                 -> n

\* should_enable_ldro
LdroOf(c) ==
    \/ c["Bandwidth"] <= 125000 /\ c["SpreadingFactor"] >= 11
    \/ c["Bandwidth"] \in 125001 .. 250000 /\ c["SpreadingFactor"] >= 12

\* A new spreading factor sets the low data rate mode too.  A new bandwidth
\* does not.
WithSetting(s, n) ==
    LET c == [config EXCEPT ![s] = Stored(s, n)]
    IN  IF s = "SpreadingFactor" THEN [c EXCEPT !["Ldro"] = IF LdroOf(c) THEN 1 ELSE 0]
        ELSE c

\* The host has the answer s, and knows that a spreading factor that was taken
\* touches the low data rate mode.
Answered(s, c) ==
    known' = [known EXCEPT ![s] = c[s],
                           !["Ldro"] = IF s = "SpreadingFactor" THEN Unasked
                                       ELSE IF s = "Ldro" THEN c[s] ELSE @]

\* The bug of a setting that is answered with what was asked for.
SetEchoes(s, n) ==
    /\ config' = IF handler.locked THEN config ELSE WithSetting(s, n)
    /\ known' = [known EXCEPT ![s] = n]
    /\ UNCHANGED handler

\* process_frame with a command that sets: a frame too short, or a lock,
\* leaves the setting; the answer holds what it is then.
Set(s, n) ==
    /\ config' = IF handler.locked THEN config ELSE WithSetting(s, n)
    /\ Answered(s, config')
    /\ UNCHANGED handler

Get(s) ==
    /\ Answered(s, config)
    /\ UNCHANGED <<config, handler>>

\* The commands whose one byte is a switch: RadioState and RadioLock.
SetSwitch(switch, on) ==
    /\ handler' = [handler EXCEPT ![switch] = on]
    /\ UNCHANGED <<config, known>>

\* Leave, to which there is no answer
Leave == SetSwitch("online", FALSE)

\* ResetConfig is answered alike whether or not the lock refused it: the host
\* has to ask for every setting again.
ResetConfig ==
    /\ config' = IF handler.locked THEN config ELSE Defaults
    /\ known' = [s \in Settings |-> Unasked]
    /\ UNCHANGED handler

RNodeNext ==
    \/ \E s \in Asked : Get(s) \/ \E n \in ValuesOf(s) : Set(s, n)
    \/ \E switch \in {"online", "locked"}, on \in BOOLEAN : SetSwitch(switch, on)
    \/ Leave \/ ResetConfig

RNodeSpec == RNodeInit /\ [][RNodeNext]_rnodeVars
-----------------------------------------------------------------------------
\* The settings the radio is given when the protocol is detected
\* (configure_radio_for_protocol): sync word, preamble and switches are not
\* the host's.
RadioConfig(c) ==
    [spreading_factor |-> c["SpreadingFactor"], tx_power |-> c["TxPower"],
     coding_rate |-> c["CodingRate"] - 4,
     bandwidth |-> CASE c["Bandwidth"] = 250000 -> 5 [] c["Bandwidth"] = 500000 -> 6
                     [] c["Bandwidth"] = 62500 -> 3  [] OTHER -> 4]

\* What a host was answered is what the handler has, however requests that
\* set, ask, lock and reset follow each other: the answer to a value out of
\* range, to a frame too short and to a locked handler is the value that
\* holds (process_frame).
HostKnowsSettings == \A s \in Settings : known[s] \in {Unasked, config[s]}

\* After any command frames the radio gets settings that it takes
\* (Sx1262::configure refuses others): a power of 200 is -56 dBm and not 22.
RadioTakesSettings ==
    LET r == RadioConfig(config)
    IN  /\ r.spreading_factor \in 7 .. 12 /\ r.bandwidth \in 0 .. 6
        /\ r.tx_power \in -9 .. 22 /\ r.coding_rate \in 1 .. 4

\* The host, the handler and the radio agree on the settings.
SettingsAgree == HostKnowsSettings /\ RadioTakesSettings
=============================================================================

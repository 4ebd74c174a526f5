--------------------------- MODULE RadioLoopProofs ---------------------------
(***************************************************************************)
(* The main loop and the radio, for every set of packets, any number of    *)
(* BLE connections and of failed driver calls.                             *)
(*                                                                         *)
(* The first part says of each driver call what every outcome keeps, and   *)
(* what a call without a fault achieves; the second lifts this to what a   *)
(* handler leaves; the third is the inductive invariant.                   *)
(***************************************************************************)
EXTENDS RadioLoop, TLAPS

\* What the driver believes of the modem is true, or the modem has no
\* complete configuration.
Honest(r) == r.modem \in {r.config, "Reset", "Mixed"}
Tuned(r)  == r.modem = r.config /\ r.routed

\* A call that made x of the radio r flags no reception.
FlagsNothing(r, x) == "RxDone" \in x.irq => "RxDone" \in r.irq

Outcome == [ok : BOOLEAN, faults : Nat, radio : Radio]

\* The outcomes of a call: each leaves one of the radios passed through, and
\* only a success counts no fault.
LEMMA OutcomesIn ==
    ASSUME NEW S, NEW radios \in Seq(S), radios # << >>, NEW o \in Outcomes(radios)
    PROVE  /\ o \in [ok : BOOLEAN, faults : Nat, radio : S]
           /\ o.faults = 0 => o.ok = TRUE /\ o.radio = radios[Len(radios)]
<1>1. Len(radios) \in Nat /\ Len(radios) >= 1 /\ radios[Len(radios)] \in S
      /\ \A i \in 1 .. Len(radios) - 1 : radios[i] \in S
  OBVIOUS
<1>2. CASE o = [ok |-> TRUE, faults |-> 0, radio |-> radios[Len(radios)]]
  BY <1>1, <1>2
<1>3. CASE o \in {[ok |-> FALSE, faults |-> 1, radio |-> radios[i]] :
                     i \in 1 .. Len(radios) - 1}
  <2>1. PICK i \in 1 .. Len(radios) - 1 :
           o = [ok |-> FALSE, faults |-> 1, radio |-> radios[i]]
    BY <1>3
  <2> QED BY <1>1, <2>1
<1> QED BY <1>2, <1>3 DEF Outcomes

LEMMA Appended ==
    ASSUME NEW S, NEW s \in Seq(S), NEW x \in S
    PROVE  /\ s \o <<x>> \in Seq(S) /\ s \o <<x>> # << >>
           /\ (s \o <<x>>)[Len(s \o <<x>>)] = x
  OBVIOUS

(***************************************************************************)
(* start_rx: the modem is left alone; without a fault the chip listens     *)
(* with its flags cleared.                                                 *)
(***************************************************************************)
LEMMA StartRxEffect ==
    ASSUME NEW r \in Radio, NEW o \in StartRx(r)
    PROVE  /\ o \in Outcome
           /\ o.radio.modem = r.modem /\ o.radio.config = r.config
           /\ o.radio.routed = r.routed /\ o.radio.buf = r.buf
           /\ o.faults = 0 => /\ o.ok /\ o.radio.chip = "Rx"
                              /\ o.radio.irq = {}
           /\ FlagsNothing(r, o.radio)
<1> DEFINE S == {x \in Radio : /\ x.modem = r.modem /\ x.config = r.config
                               /\ x.routed = r.routed /\ x.buf = r.buf
                               /\ FlagsNothing(r, x)}
<1>1. StartRxSteps(r) \in Seq(S) /\ StartRxSteps(r) # << >>
      /\ StartRxSteps(r)[Len(StartRxSteps(r))] = InRx(Quiet(InStandby(r)))
  <2>1. r \in S /\ InStandby(r) \in S
    BY DEF Radio, InStandby, FlagsNothing
  <2>2. Quiet(InStandby(r)) \in S
    BY <2>1 DEF Radio, Quiet, FlagsNothing
  <2>3. InRx(Quiet(InStandby(r))) \in S
    BY <2>2 DEF Radio, InRx, FlagsNothing
  <2> HIDE DEF S
  <2> QED BY <2>1, <2>2, <2>3 DEF StartRxSteps
<1>2. /\ o.radio \in S /\ o \in Outcome
      /\ o.faults = 0 => o.ok /\ o.radio = InRx(Quiet(InStandby(r)))
  <2> HIDE DEF S
  <2>1. /\ o \in [ok : BOOLEAN, faults : Nat, radio : S]
        /\ o.faults = 0 => o.ok /\ o.radio = InRx(Quiet(InStandby(r)))
    BY <1>1, OutcomesIn DEF StartRx
  <2> QED BY <2>1 DEF S, Outcome
<1>3. /\ InRx(Quiet(InStandby(r))).chip = "Rx"
      /\ InRx(Quiet(InStandby(r))).irq = {}
  BY DEF Radio, InRx, Quiet, InStandby
<1> QED BY <1>2, <1>3

(***************************************************************************)
(* configure: the modem is set as asked, or has no complete configuration. *)
(***************************************************************************)
LEMMA ConfigureStepsEffect ==
    ASSUME NEW r \in Radio, NEW c \in Configs,
           NEW S, S = {x \in Radio : /\ Honest(r) => Honest(x)
                                     /\ x.chip = r.chip /\ x.state = r.state
                                     /\ x.irq = r.irq /\ x.buf = r.buf}
    PROVE  /\ ConfigureSteps(r, c) \in Seq(S) /\ Len(ConfigureSteps(r, c)) = 4
           /\ ConfigureSteps(r, c)[4] \in S
           /\ ConfigureSteps(r, c)[4].modem = c
           /\ ConfigureSteps(r, c)[4].config = c
           /\ ConfigureSteps(r, c)[4].routed
<1> DEFINE partial == [r EXCEPT !.modem = "Mixed"]
           routed  == [partial EXCEPT !.routed = TRUE]
           done    == [routed EXCEPT !.modem = c, !.config = c]
<1>1. ConfigureSteps(r, c) = <<r, partial, routed, done>>
  BY DEF ConfigureSteps
<1>2. r \in S /\ partial \in S
  BY DEF Radio, Honest
<1>3. routed \in S
  BY DEF Radio, Honest
<1>4. done \in S /\ done.modem = c /\ done.config = c /\ done.routed
  BY DEF Radio, Honest, Configs
<1> HIDE DEF partial, routed, done
<1> QED BY <1>1, <1>2, <1>3, <1>4

LEMMA ConfigureEffect ==
    ASSUME NEW r \in Radio, NEW c \in Configs, NEW o \in Configure(r, c)
    PROVE  /\ o \in Outcome
           /\ Honest(r) => Honest(o.radio)
           /\ o.radio.chip = r.chip /\ o.radio.irq = r.irq /\ o.radio.buf = r.buf
           /\ o.faults = 0 => o.ok /\ Tuned(o.radio) /\ o.radio.modem = c
<1> DEFINE S == {x \in Radio : /\ Honest(r) => Honest(x)
                               /\ x.chip = r.chip /\ x.state = r.state
                               /\ x.irq = r.irq /\ x.buf = r.buf}
<1>1. /\ ConfigureSteps(r, c) \in Seq(S) /\ Len(ConfigureSteps(r, c)) = 4
      /\ ConfigureSteps(r, c)[4].modem = c
      /\ ConfigureSteps(r, c)[4].config = c
      /\ ConfigureSteps(r, c)[4].routed
  BY ConfigureStepsEffect
<1>2. /\ o.radio \in S /\ o \in Outcome
      /\ o.faults = 0 => o.ok /\ o.radio = ConfigureSteps(r, c)[4]
  <2>1. ConfigureSteps(r, c) # << >>
    BY DEF ConfigureSteps
  <2> HIDE DEF S
  <2>2. /\ o \in [ok : BOOLEAN, faults : Nat, radio : S]
        /\ o.faults = 0 => o.ok /\ o.radio = ConfigureSteps(r, c)[4]
    BY <1>1, <2>1, OutcomesIn DEF Configure
  <2> QED BY <2>2 DEF S, Outcome
<1> QED BY <1>1, <1>2 DEF Tuned

(***************************************************************************)
(* init: the chip is reset, and gets the driver's configuration back.      *)
(***************************************************************************)
LEMMA InitRadioEffect ==
    ASSUME NEW r \in Radio, NEW o \in InitRadio(r)
    PROVE  /\ o \in Outcome /\ Honest(o.radio)
           /\ o.radio.irq = {} /\ o.radio.buf = NoPacket
           /\ o.faults = 0 => o.ok /\ Tuned(o.radio) /\ o.radio.modem = r.config
                              /\ o.radio.state = "Standby"
<1> DEFINE reset == [r EXCEPT !.chip = "Standby", !.modem = "Reset",
                              !.routed = FALSE, !.irq = {}, !.buf = NoPacket]
           ready == InStandby(reset)
           S == {x \in Radio : Honest(x) /\ x.irq = {} /\ x.buf = NoPacket}
           T == {x \in Radio : /\ Honest(ready) => Honest(x)
                               /\ x.chip = ready.chip /\ x.state = ready.state
                               /\ x.irq = ready.irq /\ x.buf = ready.buf}
           last == ConfigureSteps(ready, r.config)[4]
<1>1. reset \in Radio /\ Honest(reset) /\ reset.irq = {} /\ reset.buf = NoPacket
  BY DEF Radio, Honest
<1>2. ready \in Radio /\ Honest(ready) /\ ready.irq = {} /\ ready.buf = NoPacket
      /\ ready.state = "Standby"
  BY <1>1 DEF Radio, Honest, InStandby
<1>3. /\ ConfigureSteps(ready, r.config) \in Seq(T)
      /\ Len(ConfigureSteps(ready, r.config)) = 4
      /\ last \in T /\ last.modem = r.config /\ last.config = r.config /\ last.routed
  <2>1. r.config \in Configs
    BY DEF Radio
  <2> HIDE DEF ready, T
  <2> QED BY <1>2, <2>1, ConfigureStepsEffect DEF T
<1>4. T \subseteq S /\ reset \in S
  BY <1>1, <1>2
<1> DEFINE radios == <<reset>> \o ConfigureSteps(ready, r.config)
<1>5. radios \in Seq(S) /\ radios # << >> /\ radios[Len(radios)] = last
  <2> HIDE DEF reset, ready, T, S
  <2>1. ConfigureSteps(ready, r.config) \in Seq(S) /\ <<reset>> \in Seq(S)
    BY <1>3, <1>4
  <2> QED BY <1>3, <2>1
<1>6. /\ o \in [ok : BOOLEAN, faults : Nat, radio : S]
      /\ o.faults = 0 => o.ok /\ o.radio = last
  <2>1. o \in Outcomes(radios)
    BY DEF InitRadio
  <2> HIDE DEF radios, S, last
  <2> QED BY <1>5, <2>1, OutcomesIn
<1> HIDE DEF last
<1> QED BY <1>2, <1>3, <1>6 DEF Outcome, Tuned

LEMMA ClearIrqEffect ==
    ASSUME NEW r \in Radio, NEW flags \in SUBSET Flags, NEW o \in ClearIrq(r, flags)
    PROVE  /\ o \in Outcome
           /\ o.radio.modem = r.modem /\ o.radio.config = r.config
           /\ o.radio.routed = r.routed /\ o.radio.buf = r.buf
           /\ o.radio.chip = r.chip
           /\ o.faults = 0 => o.ok /\ o.radio.irq = r.irq \ flags
           /\ FlagsNothing(r, o.radio)
<1> DEFINE S == {x \in Radio : /\ x.modem = r.modem /\ x.config = r.config
                               /\ x.routed = r.routed /\ x.buf = r.buf
                               /\ x.chip = r.chip /\ FlagsNothing(r, x)}
           cleared == [r EXCEPT !.irq = @ \ flags]
<1>1. r \in S /\ cleared \in S /\ cleared.irq = r.irq \ flags
  BY DEF Radio, FlagsNothing
<1> HIDE DEF S, cleared
<1>2. o \in Outcomes(<<r, cleared>>)
  BY DEF ClearIrq, cleared
<1>3. <<r, cleared>> \in Seq(S) /\ <<r, cleared>> # << >>
      /\ <<r, cleared>>[Len(<<r, cleared>>)] = cleared
  BY <1>1
<1>4. /\ o \in [ok : BOOLEAN, faults : Nat, radio : S]
      /\ o.faults = 0 => o.ok /\ o.radio = cleared
  BY <1>2, <1>3, OutcomesIn
<1> QED BY <1>1, <1>4 DEF S, Outcome

LEMMA TimeoutsIn ==
    ASSUME NEW S, NEW r \in S, InStandby(r) \in S, NEW t \in TransmitTimeouts(r)
    PROVE  t \in [ok : BOOLEAN, faults : Nat, radio : S]
<1>1. CASE t = [ok |-> FALSE, faults |-> 1, radio |-> r]
  BY <1>1
<1>2. CASE t = [ok |-> FALSE, faults |-> 0, radio |-> InStandby(r)]
  <2> DEFINE x == InStandby(r)
  <2> HIDE DEF x
  <2> QED BY <1>2 DEF x
<1> QED BY <1>1, <1>2 DEF TransmitTimeouts

(***************************************************************************)
(* transmit: the modem is left alone.  Without a fault, on a chip whose    *)
(* interrupts are routed, the packet goes out and the chip listens again.  *)
(***************************************************************************)
LEMMA TransmitEffect ==
    ASSUME NEW r \in Radio, NEW p \in Packets \cup {NoPacket}, NEW o \in Transmit(r, p)
    PROVE  /\ o \in Outcome
           /\ o.radio.modem = r.modem /\ o.radio.config = r.config
           /\ o.radio.routed = r.routed
           /\ o.faults = 0 /\ r.routed =>
                 o.ok /\ o.radio.chip = "Rx" /\ o.radio.irq = {}
           /\ FlagsNothing(r, o.radio)
<1> DEFINE S == {x \in Radio : /\ x.modem = r.modem /\ x.config = r.config
                               /\ x.routed = r.routed /\ FlagsNothing(r, x)}
           written == [InStandby(r) EXCEPT !.buf = p]
           sending == [Quiet(written) EXCEPT !.state = "Tx", !.chip = "Tx"]
           sent    == [sending EXCEPT !.chip = "Standby", !.irq = {"TxDone"}]
           rearm   == StartRxSteps(Quiet(sent))
           failing == SubSeq(rearm, 1, Len(rearm) - 1)
           heard   == [rearm[Len(rearm)] EXCEPT !.state = "Standby"]
           before  == <<r, InStandby(r), written, Quiet(written)>>
           waiting == TransmitTimeouts(sending)
<1>1. r \in S /\ InStandby(r) \in S
  BY DEF Radio, InStandby, FlagsNothing
<1>2. written \in S
  BY <1>1 DEF Radio, FlagsNothing
<1>3. Quiet(written) \in S
  BY <1>2 DEF Radio, Quiet, FlagsNothing
<1>4. sending \in S
  BY <1>3 DEF Radio, FlagsNothing
<1>5. sent \in S
  BY <1>4 DEF Radio, Flags, FlagsNothing
<1>6. /\ failing \in Seq(S)
      /\ heard \in S /\ heard.chip = "Rx" /\ heard.irq = {}
  <2> DEFINE q == Quiet(sent)
  <2>1. q \in S
    BY <1>5 DEF Radio, Quiet, FlagsNothing
  <2>2. InStandby(q) \in S
    BY <2>1 DEF Radio, InStandby, FlagsNothing
  <2>3. Quiet(InStandby(q)) \in S /\ Quiet(InStandby(q)).irq = {}
    BY <2>2 DEF Radio, Quiet, FlagsNothing
  <2>4. /\ InRx(Quiet(InStandby(q))) \in S
        /\ InRx(Quiet(InStandby(q))).irq = {}
        /\ InRx(Quiet(InStandby(q))).chip = "Rx"
    BY <2>3 DEF Radio, InRx, FlagsNothing
  <2>5. rearm \in Seq(S) /\ Len(rearm) = 4 /\ rearm[4] = InRx(Quiet(InStandby(q)))
    <3> HIDE DEF q, S
    <3>1. rearm = <<q, InStandby(q), Quiet(InStandby(q)), InRx(Quiet(InStandby(q)))>>
      BY DEF StartRxSteps, q
    <3> HIDE DEF rearm
    <3> QED BY <2>1, <2>2, <2>3, <2>4, <3>1
  <2>6. failing \in Seq(S)
    <3> HIDE DEF S, rearm
    <3> QED BY <2>5, SMTT(30)
  <2> HIDE DEF rearm, q
  <2>7. heard = [InRx(Quiet(InStandby(q))) EXCEPT !.state = "Standby"]
    BY <2>5
  <2>8. heard \in S /\ heard.chip = "Rx" /\ heard.irq = {}
    BY <2>4, <2>7 DEF Radio, FlagsNothing
  <2> QED BY <2>6, <2>8
<1>7. \A t \in TransmitTimeouts(sending) \cup TransmitTimeouts(sent) :
         t \in [ok : BOOLEAN, faults : Nat, radio : S]
  <2> HIDE DEF sending, sent
  <2>1. InStandby(sending) \in S /\ InStandby(sent) \in S
    BY <1>4, <1>5 DEF Radio, InStandby, FlagsNothing
  <2> HIDE DEF S
  <2> QED BY <1>4, <1>5, <2>1, TimeoutsIn
<1> HIDE DEF S, written, sending, sent, rearm, failing, heard
<1>8. CASE r.routed
  <2> DEFINE radios == before \o <<sent>> \o failing \o <<heard>>
  <2>1. before \in Seq(S) /\ <<sent>> \in Seq(S)
    BY <1>1, <1>2, <1>3, <1>5
  <2>2. before \o <<sent>> \o failing \in Seq(S)
    BY <1>6, <2>1
  <2> HIDE DEF before
  <2>3. radios \in Seq(S) /\ radios # << >> /\ radios[Len(radios)] = heard
    BY <1>6, <2>2, Appended
  <2>4. \/ o \in Outcomes(radios)
        \/ o \in {[t EXCEPT !.faults = @ + 1] :
                     t \in waiting \cup TransmitTimeouts(sent)}
    BY <1>8 DEF Transmit, before, written, sending, sent, rearm, failing, heard
  <2> HIDE DEF radios, waiting
  <2>5. CASE o \in Outcomes(radios)
    <3>1. /\ o \in [ok : BOOLEAN, faults : Nat, radio : S]
          /\ o.faults = 0 => o.ok /\ o.radio = heard
      BY <2>3, <2>5, OutcomesIn
    <3> QED BY <1>6, <3>1 DEF S, Outcome
  <2>6. CASE o \in {[t EXCEPT !.faults = @ + 1] :
                       t \in waiting \cup TransmitTimeouts(sent)}
    <3>1. PICK t \in waiting \cup TransmitTimeouts(sent) : o = [t EXCEPT !.faults = @ + 1]
      BY <2>6
    <3>2. o \in [ok : BOOLEAN, faults : Nat, radio : S] /\ o.faults # 0
      BY <1>7, <3>1 DEF waiting
    <3> QED BY <3>2 DEF S, Outcome
  <2> QED BY <2>4, <2>5, <2>6
<1>9. CASE ~ r.routed
  <2> DEFINE radios == before \o <<sending>>
  <2>1. before \in Seq(S) /\ sending \in S
    BY <1>1, <1>2, <1>3, <1>4
  <2> HIDE DEF before
  <2>2. radios \in Seq(S) /\ radios # << >>
    BY <2>1, Appended
  <2>3. o \in Outcomes(radios) \/ o \in waiting
    BY <1>9 DEF Transmit, before, written, sending
  <2> HIDE DEF radios
  <2>4. o \in [ok : BOOLEAN, faults : Nat, radio : S]
    BY <1>7, <2>2, <2>3, OutcomesIn
  <2> QED BY <1>9, <2>4 DEF S, Outcome
<1> QED BY <1>8, <1>9

-----------------------------------------------------------------------------
(***************************************************************************)
(* What the results of a handler keep of the radio r it was called with,   *)
(* when the only modems it may leave without a fault are those of M.  The  *)
(* flags are cleared, or left alone together with the buffer.              *)
(***************************************************************************)
Keeps(r, M, h) ==
    /\ h \in [radio : Radio, rx_active : BOOLEAN, faults : Nat]
    /\ Honest(r) => Honest(h.radio)
    /\ FlagsNothing(r, h.radio)
    /\ h.faults = 0 /\ Tuned(r) =>
          /\ Tuned(h.radio) /\ h.radio.modem \in M
          /\ h.radio.irq = {} \/ (h.radio.irq = r.irq /\ h.radio.buf = r.buf)

\* Without a fault the handler leaves the receiver on, and the program knows.
Listens(r, h) ==
    h.faults = 0 /\ Tuned(r) => h.radio.chip = "Rx" /\ h.rx_active = TRUE

\* What is left of a call whose outcome o on the radio r is reported with the
\* given rx_active.
LEMMA ResultKeeps ==
    ASSUME NEW r, NEW M, NEW o \in Outcome, NEW active \in BOOLEAN,
           Honest(r) => Honest(o.radio), FlagsNothing(r, o.radio),
           o.faults = 0 /\ Tuned(r) =>
              /\ Tuned(o.radio) /\ o.radio.modem \in M
              /\ o.radio.irq = {} \/ (o.radio.irq = r.irq /\ o.radio.buf = r.buf)
    PROVE  Keeps(r, M, Result(o, active))
  BY DEF Keeps, Result, Outcome

LEMMA ResultType ==
    ASSUME NEW x \in Radio, NEW active \in BOOLEAN, NEW n \in Nat
    PROVE  [radio |-> x, rx_active |-> active, faults |-> n]
              \in [radio : Radio, rx_active : BOOLEAN, faults : Nat]
  BY Zenon

\* A handler's first call t, which keeps the modem, and start_rx after it.
LEMMA ThenStartRx ==
    ASSUME NEW r \in Radio, NEW M, r.modem \in M, NEW t \in Outcome,
           t.radio.modem = r.modem, t.radio.config = r.config,
           t.radio.routed = r.routed, FlagsNothing(r, t.radio),
           NEW s \in StartRx(t.radio), NEW active \in BOOLEAN, NEW h,
           h = [radio |-> s.radio, rx_active |-> active, faults |-> s.faults + t.faults]
    PROVE  /\ Keeps(r, M, h)
           /\ h.rx_active = active
           /\ h.faults = 0 => t.faults = 0 /\ s.faults = 0 /\ s.ok /\ h.radio.chip = "Rx"
<1>1. t.radio \in Radio /\ t.faults \in Nat
  BY DEF Outcome
<1>2. /\ s \in Outcome
      /\ s.radio.modem = r.modem /\ s.radio.config = r.config
      /\ s.radio.routed = r.routed /\ FlagsNothing(r, s.radio)
      /\ s.faults = 0 => s.ok /\ s.radio.chip = "Rx" /\ s.radio.irq = {}
  BY <1>1, StartRxEffect DEF FlagsNothing
<1>3. h.radio = s.radio /\ h.rx_active = active /\ h.faults = s.faults + t.faults
  OBVIOUS
<1>4. s.faults \in Nat /\ s.radio \in Radio
  BY <1>2 DEF Outcome
<1>5. h.faults = 0 => t.faults = 0 /\ s.faults = 0
  BY <1>1, <1>3, <1>4
<1>6. h \in [radio : Radio, rx_active : BOOLEAN, faults : Nat]
  <2>1. s.faults + t.faults \in Nat
    BY <1>1, <1>4
  <2> QED BY <1>4, <2>1, ResultType
<1> QED BY <1>2, <1>3, <1>5, <1>6 DEF Keeps, Honest, Tuned

LEMMA BeaconKeeps ==
    ASSUME NEW r \in Radio, NEW M, r.modem \in M, NEW h \in BeaconResults(r),
           PacketsAssumption
    PROVE  Keeps(r, M, h) /\ Listens(r, h)
<1>1. PICK t \in Transmit(r, Beacon) : h = Result(t, t.ok)
  BY DEF BeaconResults
<1>2. /\ t \in Outcome
      /\ t.radio.modem = r.modem /\ t.radio.config = r.config
      /\ t.radio.routed = r.routed /\ FlagsNothing(r, t.radio)
      /\ t.faults = 0 /\ r.routed => t.ok /\ t.radio.chip = "Rx" /\ t.radio.irq = {}
  BY TransmitEffect DEF PacketsAssumption
<1>3. t.ok \in BOOLEAN /\ h.radio = t.radio /\ h.faults = t.faults /\ h.rx_active = t.ok
  BY <1>1, <1>2 DEF Result, Outcome
<1>4. Keeps(r, M, Result(t, t.ok))
  BY <1>2, <1>3, ResultKeeps DEF Honest, Tuned
<1> QED BY <1>1, <1>2, <1>3, <1>4 DEF Listens, Tuned

LEMMA RelayKeeps ==
    ASSUME NEW r \in Radio, NEW M, r.modem \in M, NEW p \in Packets \cup {NoPacket},
           NEW h \in RelayResults(r, p)
    PROVE  Keeps(r, M, h) /\ Listens(r, h)
<1>0. \A t \in Transmit(r, p) :
         /\ t \in Outcome
         /\ t.radio.modem = r.modem /\ t.radio.config = r.config
         /\ t.radio.routed = r.routed /\ FlagsNothing(r, t.radio)
         /\ t.faults = 0 /\ r.routed => t.ok /\ t.radio.chip = "Rx" /\ t.radio.irq = {}
  BY TransmitEffect
<1>1. ASSUME NEW t \in Transmit(r, p), h = Result(t, TRUE)
      PROVE  Keeps(r, M, h) /\ Listens(r, h)
  <2>1. Keeps(r, M, Result(t, TRUE))
    BY <1>0, ResultKeeps DEF Honest, Tuned
  <2> QED BY <1>0, <1>1, <2>1 DEF Listens, Tuned, Result
<1>2. ASSUME NEW t \in Transmit(r, p), NEW s \in StartRx(t.radio),
             h = [Result(s, TRUE) EXCEPT !.faults = @ + t.faults]
      PROVE  Keeps(r, M, h) /\ Listens(r, h)
  <2> DEFINE active == TRUE
  <2>1. h = [radio |-> s.radio, rx_active |-> active, faults |-> s.faults + t.faults]
    BY <1>2 DEF Result
  <2>2. active \in BOOLEAN /\ t \in Outcome
        /\ t.radio.modem = r.modem /\ t.radio.config = r.config
        /\ t.radio.routed = r.routed /\ FlagsNothing(r, t.radio)
    BY <1>0
  <2> HIDE DEF active
  <2>3. Keeps(r, M, h) /\ h.rx_active = active /\ (h.faults = 0 => h.radio.chip = "Rx")
    BY <2>1, <2>2, ThenStartRx
  <2> QED BY <2>3 DEF Listens, active
<1> QED BY <1>1, <1>2 DEF RelayResults

LEMMA HostSendKeeps ==
    ASSUME NEW r \in Radio, NEW M, r.modem \in M, NEW p \in Packets \cup {TooLong},
           NEW h \in HostSendResults(r, p)
    PROVE  Keeps(r, M, h) /\ Listens(r, h)
<1> DEFINE Calls == IF p = TooLong THEN Refused(r) ELSE Transmit(r, p)
<1>0. PICK t \in Calls :
         h \in {[Result(s, t.ok \/ s.ok) EXCEPT !.faults = @ + t.faults] :
                   s \in StartRx(t.radio)}
  BY DEF HostSendResults
<1>1. PICK s \in StartRx(t.radio) :
         h = [Result(s, t.ok \/ s.ok) EXCEPT !.faults = @ + t.faults]
  BY <1>0
<1>2. /\ t \in Outcome
      /\ t.radio.modem = r.modem /\ t.radio.config = r.config
      /\ t.radio.routed = r.routed /\ FlagsNothing(r, t.radio)
  <2>1. CASE p = TooLong
    <3>1. t = [ok |-> FALSE, faults |-> 0, radio |-> r]
      BY <1>0, <2>1 DEF Refused
    <3> QED BY <3>1 DEF Outcome, FlagsNothing
  <2>2. CASE p # TooLong
    BY <1>0, <2>2, TransmitEffect
  <2> QED BY <2>1, <2>2
<1> HIDE DEF Calls
<1> DEFINE active == t.ok \/ s.ok
<1>3. active \in BOOLEAN
  OBVIOUS
<1>4. s.ok => active = TRUE
  OBVIOUS
<1>5. h = [radio |-> s.radio, rx_active |-> active, faults |-> s.faults + t.faults]
  BY <1>1 DEF Result
<1> HIDE DEF active
<1>6. /\ Keeps(r, M, h) /\ h.rx_active = active
      /\ h.faults = 0 => s.ok /\ h.radio.chip = "Rx"
  BY <1>1, <1>2, <1>3, <1>5, ThenStartRx
<1> QED BY <1>4, <1>6 DEF Listens

\* The re-arming at the end of a handler keeps what the handler kept.
LEMMA RestartKeeps ==
    ASSUME NEW r \in Radio, NEW M, NEW h, Keeps(r, M, h), NEW g \in Restart(h)
    PROVE  Keeps(r, M, g) /\ Listens(r, g)
<1>1. PICK s \in StartRx(h.radio) : g = [Result(s, s.ok) EXCEPT !.faults = @ + h.faults]
  BY DEF Restart
<1>2. h.radio \in Radio /\ h.faults \in Nat
  BY DEF Keeps
<1>3. /\ s \in Outcome
      /\ s.radio.modem = h.radio.modem /\ s.radio.config = h.radio.config
      /\ s.radio.routed = h.radio.routed /\ FlagsNothing(h.radio, s.radio)
      /\ s.faults = 0 => s.ok /\ s.radio.chip = "Rx" /\ s.radio.irq = {}
  BY <1>1, <1>2, StartRxEffect
<1>4. s.faults \in Nat /\ s.radio \in Radio /\ s.ok \in BOOLEAN
  BY <1>3 DEF Outcome
<1>5. g = [radio |-> s.radio, rx_active |-> s.ok, faults |-> s.faults + h.faults]
  BY <1>1 DEF Result
<1>6. g.faults = 0 => h.faults = 0 /\ s.faults = 0
  BY <1>2, <1>4, <1>5
<1>7. g \in [radio : Radio, rx_active : BOOLEAN, faults : Nat]
  BY <1>2, <1>4, <1>5
<1> QED BY <1>3, <1>5, <1>6, <1>7 DEF Keeps, Listens, Honest, Tuned, FlagsNothing

LEMMA RelistenKeeps ==
    ASSUME NEW r \in Radio, NEW M, NEW results, NEW stopped \in SUBSET results,
           \A h \in results : Keeps(r, M, h),
           NEW g \in Relisten(results, stopped)
    PROVE  Keeps(r, M, g) /\ (Listens(r, g) \/ g \in results \ stopped)
<1>1. CASE g \in results \ stopped
  BY <1>1
<1>2. ASSUME NEW h \in stopped, g \in Restart(h)
      PROVE  Keeps(r, M, g) /\ Listens(r, g)
  BY <1>2, RestartKeeps
<1> QED BY <1>1, <1>2 DEF Relisten

-----------------------------------------------------------------------------
(***************************************************************************)
(* The inductive invariant.  ReadIsFresh needs to know of the flags, at    *)
(* every point of the loop: a flagged reception that was read already is   *)
(* one this iteration is about to clear, a flagged reception that was      *)
(* broken has its CRC flag beside it, and the CRC flag comes with the      *)
(* reception's.  All of it holds until a driver call fails.                *)
(***************************************************************************)
FlagsInv ==
    faults = 0 =>
        /\ "RxDone" \in radio.irq /\ ghost.holds # "unread" =>
              pc \in {"relay", "clear"} /\ "RxDone" \in irq
        /\ "RxDone" \in radio.irq /\ ghost.holds = "unread" /\ ghost.broken =>
              "CrcErr" \in radio.irq
        /\ "CrcErr" \in radio.irq => "RxDone" \in radio.irq \/ pc = "rearm"
        /\ "CrcErr" \in irq => "RxDone" \in irq
        /\ pc = "read" =>
              /\ "RxDone" \in irq /\ ghost.holds = "unread"
              /\ ghost.broken => ghost.raced

(***************************************************************************)
(* RereadNeedsTwoFaults needs to know where a packet that was read may     *)
(* still be flagged: in the iteration that read it, up to its clear_irq;   *)
(* and, if that failed, up to the start_rx after it.  One failure was      *)
(* counted by then, and a failure of start_rx makes it two.                *)
(***************************************************************************)
RereadInv ==
    /\ pc = "read" => "RxDone" \in irq
    /\ faults <= 1 =>
          /\ pc = "read" => ghost.holds # "read"
          /\ "RxDone" \in radio.irq /\ ghost.holds = "read" =>
                \/ pc \in {"relay", "clear"} /\ "RxDone" \in irq
                \/ pc = "rearm" /\ faults = 1

BootInv == pc = "boot" => radio = NewRadio /\ serial_protocol = "Unknown"

ModemInv == Honest(radio) /\ (Running /\ faults = 0 => Tuned(radio))

\* AT+RESET is the one command after which the receiver may be off.
ListenInv == "RESET" \in AtCommands \/ ListensUntilAFault

IInv ==
    /\ TypeOK
    /\ BootInv
    /\ ModemInv
    /\ AppHasItsModem
    /\ FlagsInv
    /\ RereadInv
    /\ ListenInv

\* What a handler that keeps a radio in running order leaves.
Left(M) ==
    /\ radio' \in Radio /\ rx_active' \in BOOLEAN /\ faults' \in 0 .. MaxFaults
    /\ ghost' \in [holds : {"nothing", "unread", "read", "sent"},
                  broken : BOOLEAN, raced : BOOLEAN]
    /\ Honest(radio')
    /\ ghost'.broken = ghost.broken
    /\ FlagsNothing(radio, radio') /\ faults <= faults'
    /\ ghost'.holds = "read" => ghost.holds = "read"
    /\ faults' = 0 =>
          /\ faults = 0 /\ Tuned(radio') /\ radio'.modem \in M
          /\ radio'.irq = {} \/ (radio'.irq = radio.irq /\ ghost'.holds = ghost.holds)

LEMMA LeaveLeft ==
    ASSUME IInv, Running, BoundsAssumption, NEW M, NEW results, Leave(results),
           \A h \in results : Keeps(radio, M, h)
    PROVE  Left(M)
<1>1. PICK h \in results :
         /\ faults + h.faults <= MaxFaults
         /\ radio' = h.radio
         /\ rx_active' = h.rx_active
         /\ faults' = faults + h.faults
         /\ ghost' = [ghost EXCEPT !.holds =
                         IF h.radio.buf = radio.buf THEN @
                         ELSE IF h.radio.buf = NoPacket THEN "nothing" ELSE "sent"]
  BY DEF Leave
<1>2. /\ h.radio \in Radio /\ h.rx_active \in BOOLEAN /\ h.faults \in Nat
      /\ Honest(h.radio) /\ FlagsNothing(radio, h.radio)
      /\ h.faults = 0 /\ Tuned(radio) =>
            /\ Tuned(h.radio) /\ h.radio.modem \in M
            /\ h.radio.irq = {} \/ (h.radio.irq = radio.irq /\ h.radio.buf = radio.buf)
  BY DEF Keeps, IInv, ModemInv
<1>3. faults \in Nat /\ MaxFaults \in Nat
  BY DEF IInv, TypeOK, BoundsAssumption
<1>4. faults' \in 0 .. MaxFaults /\ (faults' = 0 => faults = 0 /\ h.faults = 0)
      /\ faults <= faults'
  BY <1>1, <1>2, <1>3
<1>5. ghost \in [holds : {"nothing", "unread", "read", "sent"},
                broken : BOOLEAN, raced : BOOLEAN]
  BY DEF IInv, TypeOK
<1>6. /\ ghost' \in [holds : {"nothing", "unread", "read", "sent"},
                    broken : BOOLEAN, raced : BOOLEAN]
      /\ ghost'.broken = ghost.broken
      /\ h.radio.buf = radio.buf => ghost'.holds = ghost.holds
      /\ ghost'.holds = "read" => ghost.holds = "read"
  BY <1>1, <1>5
<1>7. faults = 0 => Tuned(radio)
  BY DEF IInv, ModemInv
<1> QED BY <1>1, <1>2, <1>4, <1>6, <1>7 DEF Left

\* A result that does not turn a listening receiver off.
StaysOn(h) ==
    Tuned(radio) /\ h.faults = 0 /\ radio.chip = "Rx" /\ rx_active = TRUE =>
        h.radio.chip = "Rx" /\ h.rx_active = TRUE

LEMMA LeaveOn ==
    ASSUME IInv, Running, "RESET" \notin AtCommands, NEW results, Leave(results),
           \A h \in results : StaysOn(h) /\ h.faults \in Nat
    PROVE  faults' = 0 => radio'.chip = "Rx" /\ rx_active' = TRUE
<1>1. PICK h \in results :
         radio' = h.radio /\ rx_active' = h.rx_active /\ faults' = faults + h.faults
  BY DEF Leave
<1>2. faults' = 0 => faults = 0 /\ h.faults = 0
  BY <1>1 DEF IInv, TypeOK
<1>3. faults = 0 => Tuned(radio) /\ radio.chip = "Rx" /\ rx_active = TRUE
  BY DEF IInv, ModemInv, ListenInv, ListensUntilAFault, TypeOK
<1> QED BY <1>1, <1>2, <1>3 DEF StaysOn

LEMMA KeepLeft ==
    ASSUME IInv, Running, KeepRadio
    PROVE  /\ Left({radio.modem, "Custom"})
           /\ "RESET" \notin AtCommands =>
                 (faults' = 0 => radio'.chip = "Rx" /\ rx_active' = TRUE)
<1>1. Left({radio.modem, "Custom"})
  BY DEF KeepRadio, IInv, TypeOK, ModemInv, Left, FlagsNothing
<1>2. "RESET" \notin AtCommands =>
         (faults' = 0 => radio'.chip = "Rx" /\ rx_active' = TRUE)
  BY DEF KeepRadio, IInv, TypeOK, ListenInv, ListensUntilAFault
<1> QED BY <1>1, <1>2

\* A step that leaves the radio so, and what it may do besides.
LEMMA LeftInductive ==
    ASSUME IInv, Running, NEW M, Left(M),
           pc \notin {"read", "clear", "rearm"},
           pc' \in ProgramPoints \ {"boot", "read", "rearm"},
           pc' \in {"relay", "clear"} <=> pc = "relay",
           irq' = irq, data' \in Packets \cup {NoPacket},
           serial_protocol' \in AppConfigs \cup {"AtCommand", "Unknown"},
           ble_connections' = ble_connections, repeater_enabled' \in BOOLEAN,
           dedup' \in Ring, online' \in BOOLEAN,
           serial_protocol' \in AppConfigs =>
              \/ M \subseteq {serial_protocol', "Custom"}
              \/ serial_protocol' = serial_protocol /\ M \subseteq {radio.modem, "Custom"},
           "RESET" \notin AtCommands =>
              (faults' = 0 => radio'.chip = "Rx" /\ rx_active' = TRUE)
    PROVE  IInv'
<1>1. TypeOK'
  BY DEF IInv, TypeOK, Left
<1>2. BootInv' /\ ModemInv'
  BY DEF BootInv, ModemInv, Left
<1>3. AppHasItsModem'
  <2> SUFFICES ASSUME serial_protocol' \in AppConfigs, faults' = 0
               PROVE  radio'.modem \in {serial_protocol', "Custom"}
    BY DEF AppHasItsModem
  <2>1. radio'.modem \in M /\ faults = 0
    BY DEF Left
  <2>2. CASE M \subseteq {serial_protocol', "Custom"}
    BY <2>1, <2>2
  <2>3. CASE serial_protocol' = serial_protocol /\ M \subseteq {radio.modem, "Custom"}
    BY <2>1, <2>3 DEF IInv, AppHasItsModem
  <2> QED BY <2>2, <2>3
<1>4. FlagsInv'
  BY DEF IInv, FlagsInv, Left, Running
<1>5. RereadInv'
  <2>1. faults' <= 1 => faults <= 1
    BY DEF IInv, TypeOK, Left
  <2> QED BY <2>1 DEF IInv, RereadInv, Left, FlagsNothing
<1>6. ListenInv'
  BY DEF ListenInv, ListensUntilAFault
<1> QED BY <1>1, <1>2, <1>3, <1>4, <1>5, <1>6 DEF IInv

(***************************************************************************)
(* The ring of fingerprints keeps its shape.                               *)
(***************************************************************************)
LEMMA RingTypes ==
    ASSUME RingSizeAssumption
    PROVE  /\ EmptyRing \in Ring
           /\ \A ring \in Ring, h \in Hashes : Insert(ring, h) \in Ring
<1>1. EmptyRing \in Ring
  BY DEF RingSizeAssumption, EmptyRing, Ring, Slots
<1>2. ASSUME NEW ring \in Ring, NEW h \in Hashes
      PROVE  Insert(ring, h) \in Ring
  <2>1. ring.head \in Slots /\ ring.count \in 0 .. RingSize
        /\ ring.hashes \in [Slots -> Hashes \cup {EmptySlot}]
    BY DEF Ring
  <2>2. (ring.head + 1) % RingSize \in Slots
    BY <2>1 DEF RingSizeAssumption, Slots
  <2> QED BY <2>1, <2>2 DEF RingSizeAssumption, Insert, Ring
<1> QED BY <1>1, <1>2
-----------------------------------------------------------------------------
\* The handlers of the host, and the other steps that leave the loop where
\* it is or take it on with the flags untouched.
LEMMA BeaconInductive ==
    ASSUME PacketsAssumption, BoundsAssumption, IInv, SendBeacon
    PROVE  IInv'
<1> DEFINE M == {radio.modem, "Custom"}
<1>0. radio \in Radio /\ Running /\ radio.modem \in M
  BY DEF IInv, TypeOK, SendBeacon, Goto, Running
<1>1. \A h \in BeaconResults(radio) : Keeps(radio, M, h) /\ Listens(radio, h)
  BY <1>0, BeaconKeeps
<1>2. Leave(BeaconResults(radio))
  BY DEF SendBeacon
<1>3. Left(M)
  BY <1>0, <1>1, <1>2, LeaveLeft
<1>4. "RESET" \notin AtCommands =>
         (faults' = 0 => radio'.chip = "Rx" /\ rx_active' = TRUE)
  <2>1. \A h \in BeaconResults(radio) : StaysOn(h) /\ h.faults \in Nat
    BY <1>1 DEF Keeps, Listens, StaysOn
  <2> QED BY <1>0, <1>2, <2>1, LeaveOn
<1>5. /\ pc = "beacon" /\ pc' = "serial"
      /\ UNCHANGED <<irq, data, serial_protocol, ble_connections,
                     repeater_enabled, dedup, online>>
  BY DEF SendBeacon, Goto
<1> QED BY <1>0, <1>3, <1>4, <1>5, LeftInductive DEF IInv, TypeOK, ProgramPoints

LEMMA RelayInductive ==
    ASSUME BoundsAssumption, IInv, Relay
    PROVE  IInv'
<1> DEFINE M == {radio.modem, "Custom"}
<1>0. radio \in Radio /\ Running /\ radio.modem \in M /\ data \in Packets \cup {NoPacket}
  BY DEF IInv, TypeOK, Relay, Goto, Running
<1>1. \A h \in RelayResults(radio, data) : Keeps(radio, M, h) /\ Listens(radio, h)
  BY <1>0, RelayKeeps
<1>2. Leave(RelayResults(radio, data))
  BY DEF Relay
<1>3. Left(M)
  BY <1>0, <1>1, <1>2, LeaveLeft
<1>4. "RESET" \notin AtCommands =>
         (faults' = 0 => radio'.chip = "Rx" /\ rx_active' = TRUE)
  <2>1. \A h \in RelayResults(radio, data) : StaysOn(h) /\ h.faults \in Nat
    BY <1>1 DEF Keeps, Listens, StaysOn
  <2> QED BY <1>0, <1>2, <2>1, LeaveOn
<1>5. /\ pc = "relay" /\ pc' = "clear" /\ data' = NoPacket
      /\ UNCHANGED <<irq, serial_protocol, ble_connections,
                     repeater_enabled, dedup, online>>
  BY DEF Relay, Goto
<1> QED BY <1>0, <1>3, <1>4, <1>5, LeftInductive DEF IInv, TypeOK, ProgramPoints

(***************************************************************************)
(* The calls that leave rx_active alone.                                   *)
(***************************************************************************)
LEMMA ConfigureKeeps ==
    ASSUME NEW r \in Radio, NEW c \in Configs, NEW o \in Configure(r, c),
           NEW M, c \in M, NEW active \in BOOLEAN
    PROVE  /\ Keeps(r, M, Result(o, active))
           /\ Result(o, active).radio.chip = r.chip
           /\ Result(o, active).rx_active = active
<1>1. /\ o \in Outcome
      /\ Honest(r) => Honest(o.radio)
      /\ o.radio.chip = r.chip /\ o.radio.irq = r.irq /\ o.radio.buf = r.buf
      /\ o.faults = 0 => Tuned(o.radio) /\ o.radio.modem = c
  BY ConfigureEffect
<1> QED BY <1>1, ResultKeeps DEF Result, FlagsNothing

LEMMA RefusedKeeps ==
    ASSUME NEW r \in Radio, NEW o \in Refused(r), NEW M, r.modem \in M,
           NEW active \in BOOLEAN
    PROVE  /\ Keeps(r, M, Result(o, active))
           /\ Result(o, active).radio.chip = r.chip
           /\ Result(o, active).rx_active = active
<1>1. o \in Outcome /\ o.radio = r
  <2>1. o = [ok |-> FALSE, faults |-> 0, radio |-> r]
    BY DEF Refused
  <2> QED BY <2>1 DEF Outcome
<1> QED BY <1>1, ResultKeeps DEF Result, FlagsNothing

LEMMA InitKeeps ==
    ASSUME NEW r \in Radio, NEW o \in InitRadio(r), NEW M, r.modem \in M,
           NEW active \in BOOLEAN
    PROVE  /\ Keeps(r, M, Result(o, active))
           /\ Result(o, active).rx_active = active
           /\ Result(o, active).faults = 0 => Result(o, active).radio.state = "Standby"
<1>1. /\ o \in Outcome /\ Honest(o.radio) /\ o.radio.irq = {}
      /\ o.faults = 0 => /\ Tuned(o.radio) /\ o.radio.modem = r.config
                         /\ o.radio.state = "Standby"
  BY InitRadioEffect
<1>2. Keeps(r, M, Result(o, active))
  BY <1>1, ResultKeeps DEF Tuned, FlagsNothing
<1> QED BY <1>1, <1>2 DEF Result

\* A handler of the drain that changes the radio, the switch of the repeater
\* and the state of the RNode, and nothing else.
LEMMA HostInductive ==
    ASSUME BoundsAssumption, IInv, Serial, NEW results, Leave(results),
           \A h \in results : Keeps(radio, {radio.modem, "Custom"}, h),
           "RESET" \notin AtCommands => \A h \in results : StaysOn(h),
           UNCHANGED <<serial_protocol, repeater_enabled, dedup>>, online' \in BOOLEAN
    PROVE  IInv'
<1>1. /\ pc = "serial" /\ pc' = "serial" /\ Running
      /\ UNCHANGED <<irq, data, ble_connections>>
  BY DEF Serial, Running
<1>2. Left({radio.modem, "Custom"})
  BY <1>1, LeaveLeft
<1>3. "RESET" \notin AtCommands =>
         (faults' = 0 => radio'.chip = "Rx" /\ rx_active' = TRUE)
  <2>1. \A h \in results : h.faults \in Nat
    BY DEF Keeps
  <2> QED BY <1>1, <2>1, LeaveOn
<1> QED BY <1>1, <1>2, <1>3, LeftInductive DEF IInv, TypeOK, ProgramPoints

LEMMA MeshCoreInductive ==
    ASSUME PacketsAssumption, BoundsAssumption, IInv, MeshCoreFrame
    PROVE  IInv'
<1> DEFINE M == {radio.modem, "Custom"}
           stopped == StoppedInStandby(MeshCoreResults)
<1>0. /\ radio \in Radio /\ radio.modem \in M /\ "Custom" \in M
      /\ "Custom" \in Configs /\ rx_active \in BOOLEAN
  BY DEF IInv, TypeOK, Configs
<1> HIDE DEF M
<1>1. ASSUME NEW h \in MeshCoreResults
      PROVE  Keeps(radio, M, h) /\ (StaysOn(h) \/ h \in stopped)
  <2>1. ASSUME NEW p \in Packets, h \in HostSendResults(radio, p)
        PROVE  Keeps(radio, M, h) /\ StaysOn(h)
    BY <1>0, <2>1, HostSendKeeps DEF Listens, StaysOn
  <2>2. ASSUME NEW o \in Configure(radio, "Custom"), h = Result(o, rx_active)
        PROVE  Keeps(radio, M, h) /\ StaysOn(h)
    BY <1>0, <2>2, ConfigureKeeps DEF StaysOn
  <2>3. ASSUME NEW o \in Refused(radio), h = Result(o, rx_active)
        PROVE  Keeps(radio, M, h) /\ StaysOn(h)
    BY <1>0, <2>3, RefusedKeeps DEF StaysOn
  <2>4. ASSUME NEW o \in InitRadio(radio), h = Result(o, FALSE)
        PROVE  Keeps(radio, M, h) /\ (StaysOn(h) \/ h \in stopped)
    <3> DEFINE active == FALSE
    <3>1. active \in BOOLEAN /\ h = Result(o, active)
      BY <2>4
    <3> HIDE DEF active
    <3>2. /\ Keeps(radio, M, h) /\ h.rx_active = active
          /\ h.faults = 0 => h.radio.state = "Standby"
      BY <1>0, <3>1, InitKeeps
    <3>3. h.faults = 0 => h \in stopped
      BY <3>2 DEF active, StoppedInStandby, Stopped
    <3> QED BY <3>2, <3>3 DEF StaysOn
  <2>5. CASE h \in UNION {HostSendResults(radio, p) : p \in Packets}
    <3>1. PICK p \in Packets : h \in HostSendResults(radio, p)
      BY <2>5
    <3> QED BY <2>1, <3>1
  <2>6. CASE h \in {Result(o, rx_active) : o \in Configure(radio, "Custom") \cup Refused(radio)}
    <3>1. PICK o \in Configure(radio, "Custom") \cup Refused(radio) : h = Result(o, rx_active)
      BY <2>6
    <3> QED BY <2>2, <2>3, <3>1
  <2>7. CASE h \in {Result(o, FALSE) : o \in InitRadio(radio)}
    <3>1. PICK o \in InitRadio(radio) : h = Result(o, FALSE)
      BY <2>7
    <3> QED BY <2>4, <3>1
  <2> HIDE DEF stopped
  <2> QED BY <2>5, <2>6, <2>7 DEF MeshCoreResults
<1> DEFINE results == Relisten(MeshCoreResults, stopped)
<1>2. \A h \in results : Keeps(radio, M, h) /\ StaysOn(h)
  <2>1. stopped \in SUBSET MeshCoreResults
    BY DEF StoppedInStandby, Stopped
  <2> HIDE DEF stopped
  <2>2. ASSUME NEW h \in results
        PROVE  Keeps(radio, M, h) /\ (Listens(radio, h) \/ h \in MeshCoreResults \ stopped)
    BY <1>0, <1>1, <2>1, RelistenKeeps
  <2> QED BY <1>1, <2>2 DEF Listens, StaysOn
<1>3. /\ Serial /\ Leave(results)
      /\ UNCHANGED <<serial_protocol, repeater_enabled, dedup>> /\ online' = online
  BY DEF MeshCoreFrame, Host
<1>4. online \in BOOLEAN
  BY DEF IInv, TypeOK
<1> HIDE DEF results
<1> QED BY <1>2, <1>3, <1>4, HostInductive DEF M

\* The re-arming of whatever a handler has stopped.
LEMMA RelistenStaysOn ==
    ASSUME NEW results, NEW M, radio \in Radio,
           \A h \in results : Keeps(radio, M, h) /\ (StaysOn(h) \/ ~ h.rx_active)
    PROVE  \A g \in Relisten(results, Stopped(results)) :
              Keeps(radio, M, g) /\ StaysOn(g)
<1> DEFINE stopped == Stopped(results)
<1>1. stopped \in SUBSET results
  BY DEF Stopped
<1>2. \A h \in results \ stopped : StaysOn(h)
  BY DEF Stopped
<1> HIDE DEF stopped
<1>3. ASSUME NEW g \in Relisten(results, stopped)
      PROVE  Keeps(radio, M, g) /\ (Listens(radio, g) \/ g \in results \ stopped)
  BY <1>1, RelistenKeeps
<1>4. \A g \in Relisten(results, stopped) : Keeps(radio, M, g) /\ StaysOn(g)
  BY <1>2, <1>3 DEF Listens, StaysOn
<1> QED BY <1>4 DEF stopped

LEMMA MeshtasticInductive ==
    ASSUME PacketsAssumption, BoundsAssumption, IInv, MeshtasticFrame
    PROVE  IInv'
<1> DEFINE M == {radio.modem, "Custom"}
<1>0. radio \in Radio /\ radio.modem \in M /\ rx_active \in BOOLEAN /\ online \in BOOLEAN
  BY DEF IInv, TypeOK
<1> HIDE DEF M
<1>1. ASSUME NEW h \in MeshtasticResults
      PROVE  Keeps(radio, M, h) /\ StaysOn(h)
  <2>1. CASE h \in UNION {HostSendResults(radio, p) : p \in Packets}
    <3>1. PICK p \in Packets : h \in HostSendResults(radio, p)
      BY <2>1
    <3> QED BY <1>0, <3>1, HostSendKeeps DEF Listens, StaysOn
  <2>2. CASE h \in {Result(o, rx_active) : o \in Refused(radio)}
    <3>1. PICK o \in Refused(radio) : h = Result(o, rx_active)
      BY <2>2
    <3> QED BY <1>0, <3>1, RefusedKeeps DEF StaysOn
  <2> QED BY <2>1, <2>2 DEF MeshtasticResults
<1> DEFINE results == Relisten(MeshtasticResults, Stopped(MeshtasticResults))
<1>2. \A h \in results : Keeps(radio, M, h) /\ StaysOn(h)
  BY <1>0, <1>1, RelistenStaysOn
<1>3. /\ Serial /\ Leave(results)
      /\ UNCHANGED <<serial_protocol, repeater_enabled, dedup>> /\ online' = online
  BY DEF MeshtasticFrame, Host
<1> HIDE DEF results
<1> QED BY <1>0, <1>2, <1>3, HostInductive DEF M

LEMMA RNodeInductive ==
    ASSUME PacketsAssumption, BoundsAssumption, IInv,
           NEW on \in BOOLEAN, RNodeFrame(on)
    PROVE  IInv'
<1> DEFINE M == {radio.modem, "Custom"}
<1>0. radio \in Radio /\ radio.modem \in M /\ rx_active \in BOOLEAN
  BY DEF IInv, TypeOK
<1> HIDE DEF M
<1>1. ASSUME NEW h \in RNodeResults(on)
      PROVE  Keeps(radio, M, h) /\ StaysOn(h)
  <2> DEFINE Sent == IF on = online THEN Packets \cup {TooLong} ELSE {}
  <2>1. CASE h \in UNION {HostSendResults(radio, p) : p \in Sent}
    <3>1. PICK p \in Packets \cup {TooLong} : h \in HostSendResults(radio, p)
      BY <2>1
    <3> QED BY <1>0, <3>1, HostSendKeeps DEF Listens, StaysOn
  <2>2. CASE h \in {Result(o, rx_active) : o \in Refused(radio)}
    <3>1. PICK o \in Refused(radio) : h = Result(o, rx_active)
      BY <2>2
    <3> QED BY <1>0, <3>1, RefusedKeeps DEF StaysOn
  <2> QED BY <2>1, <2>2 DEF RNodeResults
<1> DEFINE results == IF on THEN Relisten(RNodeResults(on), Stopped(RNodeResults(on)))
                      ELSE RNodeResults(on)
<1>2. \A h \in results : Keeps(radio, M, h) /\ StaysOn(h)
  <2>1. CASE on
    BY <1>0, <1>1, <2>1, RelistenStaysOn
  <2>2. CASE ~ on
    BY <1>1, <2>2
  <2> QED BY <2>1, <2>2
<1>3. /\ Serial /\ Leave(results)
      /\ UNCHANGED <<serial_protocol, repeater_enabled, dedup>> /\ online' = on
  BY DEF RNodeFrame, Host
<1> HIDE DEF results
<1> QED BY <1>2, <1>3, HostInductive DEF M

\* AT+FREQ and its like, AT+RESET, AT+RX.
LEMMA AtRadioInductive ==
    ASSUME BoundsAssumption, IInv, AtTune \/ AtReset \/ AtRx
    PROVE  IInv'
<1> DEFINE M == {radio.modem, "Custom"}
<1>0. /\ radio \in Radio /\ radio.modem \in M /\ "Custom" \in M
      /\ "Custom" \in Configs /\ rx_active \in BOOLEAN /\ online \in BOOLEAN
  BY DEF IInv, TypeOK, Configs
<1>1. /\ Serial /\ online' = online
      /\ UNCHANGED <<serial_protocol, repeater_enabled, dedup>>
  BY DEF AtTune, AtReset, AtRx, AtCommand, Host
<1> HIDE DEF M
<1>2. CASE AtTune
  <2> DEFINE results == {Result(o, rx_active) : o \in Configure(radio, "Custom")}
  <2>1. \A h \in results : Keeps(radio, M, h) /\ StaysOn(h)
    BY <1>0, ConfigureKeeps DEF StaysOn
  <2>2. Leave(results)
    BY <1>2 DEF AtTune, LeaveRadio
  <2> HIDE DEF results
  <2> QED BY <1>0, <1>1, <2>1, <2>2, HostInductive DEF M
<1>3. CASE AtReset
  <2> DEFINE results == {Result(o, rx_active) : o \in InitRadio(radio)}
  <2>1. \A h \in results : Keeps(radio, M, h)
    BY <1>0, InitKeeps
  <2>2. Leave(results) /\ "RESET" \in AtCommands
    BY <1>3 DEF AtReset, LeaveRadio, AtCommand
  <2> HIDE DEF results
  <2> QED BY <1>0, <1>1, <2>1, <2>2, HostInductive DEF M
<1>4. CASE AtRx
  <2> DEFINE results == {Result(o, rx_active \/ o.ok) : o \in StartRx(radio)}
  <2>1. ASSUME NEW o \in StartRx(radio)
        PROVE  LET h == Result(o, rx_active \/ o.ok) IN Keeps(radio, M, h) /\ StaysOn(h)
    <3> DEFINE active == rx_active \/ o.ok
    <3>1. /\ o \in Outcome
          /\ o.radio.modem = radio.modem /\ o.radio.config = radio.config
          /\ o.radio.routed = radio.routed /\ FlagsNothing(radio, o.radio)
          /\ o.faults = 0 => o.ok /\ o.radio.chip = "Rx" /\ o.radio.irq = {}
      BY <1>0, StartRxEffect
    <3>2. active \in BOOLEAN /\ (o.ok => active = TRUE)
      OBVIOUS
    <3> HIDE DEF active
    <3>3. Keeps(radio, M, Result(o, active))
      BY <1>0, <3>1, <3>2, ResultKeeps DEF Honest, Tuned
    <3>4. StaysOn(Result(o, active))
      BY <3>1, <3>2 DEF StaysOn, Result
    <3> QED BY <3>3, <3>4 DEF active
  <2>2. \A h \in results : Keeps(radio, M, h) /\ StaysOn(h)
    BY <2>1
  <2>3. Leave(results)
    BY <1>4 DEF AtRx
  <2> HIDE DEF results
  <2> QED BY <1>0, <1>1, <2>2, <2>3, HostInductive DEF M
<1> QED BY <1>2, <1>3, <1>4

LEMMA KeepInductive ==
    ASSUME RingSizeAssumption, IInv,
           NoBeacon \/ EndDrain \/ AtSwitch \/ \E on \in BOOLEAN : AtRepeater(on)
    PROVE  IInv'
<1>1. Running /\ KeepRadio /\ pc \in {"beacon", "serial"} /\ pc' \in {"serial", "poll"}
      /\ UNCHANGED <<irq, data, ble_connections>>
  BY DEF NoBeacon, EndDrain, AtSwitch, AtRepeater, AtCommand, Host, Serial, Goto, Running
<1>2. /\ Left({radio.modem, "Custom"})
      /\ "RESET" \notin AtCommands =>
            (faults' = 0 => radio'.chip = "Rx" /\ rx_active' = TRUE)
  BY <1>1, KeepLeft
<1>3. /\ serial_protocol' = serial_protocol \/ serial_protocol' = "Unknown"
      /\ repeater_enabled' \in BOOLEAN /\ dedup' \in Ring /\ online' \in BOOLEAN
  BY RingTypes DEF NoBeacon, EndDrain, AtSwitch, AtRepeater, ResetProtocol, IInv, TypeOK
<1>4. serial_protocol' \in AppConfigs => serial_protocol' = serial_protocol
  BY <1>3 DEF AppConfigs
<1> DEFINE M == {radio.modem, "Custom"}
<1>5. M \subseteq {radio.modem, "Custom"}
  OBVIOUS
<1> HIDE DEF M
<1> QED BY <1>1, <1>2, <1>3, <1>4, <1>5, LeftInductive DEF M, IInv, TypeOK, ProgramPoints

LEMMA DetectInductive ==
    ASSUME ProtocolsAssumption, BoundsAssumption, IInv, NEW p \in Protocols, Detect(p)
    PROVE  IInv'
<1>1. /\ Running /\ pc = "serial" /\ pc' = "serial"
      /\ UNCHANGED <<irq, data, ble_connections, repeater_enabled, dedup, online>>
      /\ serial_protocol' = p
  BY DEF Detect, Serial, Running
<1>2. radio \in Radio /\ rx_active \in BOOLEAN
  BY DEF IInv, TypeOK
<1>3. CASE p \in AppConfigs
  <2> DEFINE results == {Result(o, rx_active) : o \in Configure(radio, p)}
             M == {p}
  <2>1. p \in Configs /\ p \in M
    BY <1>3 DEF Configs
  <2> HIDE DEF M
  <2>2. \A h \in results : Keeps(radio, M, h) /\ StaysOn(h)
    BY <1>2, <2>1, ConfigureKeeps DEF StaysOn
  <2>3. Leave(results)
    BY <1>3 DEF Detect, LeaveRadio
  <2> HIDE DEF results
  <2>4. Left(M)
    BY <1>1, <2>2, <2>3, LeaveLeft
  <2>5. "RESET" \notin AtCommands =>
           (faults' = 0 => radio'.chip = "Rx" /\ rx_active' = TRUE)
    <3>1. \A h \in results : h.faults \in Nat
      BY <2>2 DEF Keeps
    <3> QED BY <1>1, <2>2, <2>3, <3>1, LeaveOn
  <2>6. M \subseteq {p, "Custom"}
    BY DEF M
  <2> QED BY <1>1, <1>3, <2>4, <2>5, <2>6, LeftInductive DEF IInv, TypeOK, ProgramPoints
<1>4. CASE p \notin AppConfigs
  <2>1. p = "AtCommand"
    BY <1>4 DEF ProtocolsAssumption
  <2>2. KeepRadio
    BY <1>4 DEF Detect
  <2> DEFINE M == {radio.modem, "Custom"}
  <2>3. /\ Left(M)
        /\ "RESET" \notin AtCommands =>
              (faults' = 0 => radio'.chip = "Rx" /\ rx_active' = TRUE)
    BY <1>1, <2>2, KeepLeft
  <2> HIDE DEF M
  <2> QED BY <1>1, <1>4, <2>1, <2>3, LeftInductive DEF IInv, TypeOK, ProgramPoints
<1> QED BY <1>3, <1>4
-----------------------------------------------------------------------------
\* The rest of an iteration.
LEMMA PollInductive ==
    ASSUME BoundsAssumption, IInv, Poll \/ PollFails
    PROVE  IInv'
<1>1. CASE Poll
  <2>1. AfterPoll(radio.irq) \in {"idle", "read", "clear"}
        /\ (AfterPoll(radio.irq) = "read" =>
               "RxDone" \in radio.irq /\ "CrcErr" \notin radio.irq)
    BY DEF AfterPoll
  <2>2. /\ pc = "poll" /\ pc' = AfterPoll(radio.irq) /\ irq' = radio.irq
        /\ ghost' = [ghost EXCEPT !.raced = FALSE]
        /\ UNCHANGED <<radio, rx_active, data, serial_protocol, ble_connections,
                       repeater_enabled, dedup, online, faults>>
    BY <1>1 DEF Poll, Goto
  <2>3. TypeOK'
    <3>1. irq' \subseteq Flags /\ pc' \in ProgramPoints
      BY <2>1, <2>2 DEF IInv, TypeOK, ProgramPoints, Radio
    <3>2. ghost' \in [holds : {"nothing", "unread", "read", "sent"},
                      broken : BOOLEAN, raced : BOOLEAN]
      BY <2>2 DEF IInv, TypeOK
    <3> QED BY <2>2, <3>1, <3>2 DEF IInv, TypeOK
  <2>4. /\ ghost'.holds = ghost.holds /\ ghost'.broken = ghost.broken
        /\ ghost.broken \in BOOLEAN
    BY <2>2 DEF IInv, TypeOK
  <2>5. FlagsInv'
    BY <2>1, <2>2, <2>4 DEF IInv, FlagsInv
  <2>6. RereadInv'
    BY <2>1, <2>2, <2>4 DEF IInv, RereadInv
  <2> QED BY <2>1, <2>2, <2>3, <2>5, <2>6
          DEF IInv, BootInv, ModemInv, AppHasItsModem, ListenInv, ListensUntilAFault, Running
<1>2. CASE PollFails
  <2>1. faults' # 0 /\ faults' \in 0 .. MaxFaults /\ (faults' <= 1 => faults <= 1)
    BY <1>2 DEF PollFails, IInv, TypeOK, BoundsAssumption
  <2>2. RereadInv'
    BY <1>2, <2>1 DEF PollFails, Goto, IInv, RereadInv
  <2> QED BY <1>2, <2>1, <2>2
          DEF PollFails, Goto, IInv, TypeOK, ProgramPoints, BootInv, ModemInv,
              AppHasItsModem, FlagsInv, ListenInv, ListensUntilAFault, Running
<1> QED BY <1>1, <1>2

LEMMA ReadInductive ==
    ASSUME RingSizeAssumption, PacketsAssumption, IInv, Read
    PROVE  IInv'
<1>1. /\ pc = "read" /\ radio.buf # NoPacket /\ pc' \in {"relay", "clear"}
      /\ ghost' = [ghost EXCEPT !.holds = "read"]
      /\ UNCHANGED <<radio, rx_active, irq, serial_protocol, ble_connections,
                     repeater_enabled, online, faults>>
      /\ data' = data \/ data' = radio.buf
      /\ dedup' = dedup \/ (radio.buf \in Relayable /\ dedup' = Insert(dedup, radio.buf))
  BY DEF Read, Relays
<1>2. TypeOK'
  <2>1. dedup' \in Ring
    BY <1>1, RingTypes DEF IInv, TypeOK, PacketsAssumption
  <2> QED BY <1>1, <2>1 DEF IInv, TypeOK, ProgramPoints, Radio
<1>3. FlagsInv'
  <2>1. ghost'.holds = "read"
    BY <1>1 DEF IInv, TypeOK
  <2> QED BY <1>1, <2>1 DEF IInv, FlagsInv
<1>4. RereadInv'
  BY <1>1 DEF IInv, RereadInv
<1> QED BY <1>1, <1>2, <1>3, <1>4
        DEF IInv, BootInv, ModemInv, AppHasItsModem, ListenInv, ListensUntilAFault, Running

LEMMA ReadFailsInductive ==
    ASSUME BoundsAssumption, IInv, ReadFails
    PROVE  IInv'
<1>1. /\ pc = "read" /\ pc' = "clear"
      /\ UNCHANGED <<radio, rx_active, irq, data, serial_protocol,
                     ble_connections, repeater_enabled, dedup, online, ghost>>
  BY DEF ReadFails, Goto
<1>2. faults' \in 0 .. MaxFaults /\ faults <= faults' /\ (faults' = 0 => faults = 0)
  <2>1. PICK o \in ReadPacket(radio) :
           faults + o.faults <= MaxFaults /\ faults' = faults + o.faults
    BY DEF ReadFails
  <2>2. radio \in Radio
    BY DEF IInv, TypeOK
  <2>3. o.faults \in Nat
    <3>1. CASE radio.buf = NoPacket
      BY <2>1, <3>1 DEF ReadPacket, Refused
    <3>2. CASE radio.buf # NoPacket
      <4> DEFINE radios == <<radio, radio>>
      <4>1. o \in Outcomes(radios)
        BY <2>1, <3>2 DEF ReadPacket
      <4>2. radios \in Seq(Radio) /\ radios # << >>
        BY <2>2
      <4> HIDE DEF radios
      <4>3. o \in [ok : BOOLEAN, faults : Nat, radio : Radio]
        BY <4>1, <4>2, OutcomesIn
      <4> QED BY <4>3
    <3> QED BY <3>1, <3>2
  <2> QED BY <2>1, <2>3 DEF IInv, TypeOK
<1>3. TypeOK'
  BY <1>1, <1>2 DEF IInv, TypeOK, ProgramPoints
<1>4. FlagsInv'
  BY <1>1, <1>2 DEF IInv, FlagsInv
<1>5. RereadInv'
  <2>1. faults' <= 1 => faults <= 1
    BY <1>2 DEF IInv, TypeOK
  <2> QED BY <1>1, <2>1 DEF IInv, RereadInv
<1> QED BY <1>1, <1>2, <1>3, <1>4, <1>5
        DEF IInv, BootInv, ModemInv, AppHasItsModem, ListenInv, ListensUntilAFault, Running

LEMMA ClearInductive ==
    ASSUME IInv, Clear
    PROVE  IInv'
<1>1. /\ pc = "clear" /\ pc' \in {"rearm", "idle"}
      /\ pc' = "idle" => "RxDone" \notin irq
      /\ UNCHANGED <<irq, data, serial_protocol, ble_connections,
                     repeater_enabled, dedup, online>>
  BY DEF Clear, Goto
<1>2. PICK o \in ClearIrq(radio, irq) :
         /\ faults + o.faults <= MaxFaults /\ faults' = faults + o.faults
         /\ radio' = o.radio /\ rx_active' = rx_active
         /\ ghost' = [ghost EXCEPT !.holds =
                         IF o.radio.buf = radio.buf THEN @
                         ELSE IF o.radio.buf = NoPacket THEN "nothing" ELSE "sent"]
  <2> DEFINE results == {Result(o, rx_active) : o \in ClearIrq(radio, irq)}
  <2>1. PICK h \in results :
           /\ faults + h.faults <= MaxFaults /\ faults' = faults + h.faults
           /\ radio' = h.radio /\ rx_active' = h.rx_active
           /\ ghost' = [ghost EXCEPT !.holds =
                           IF h.radio.buf = radio.buf THEN @
                           ELSE IF h.radio.buf = NoPacket THEN "nothing" ELSE "sent"]
    BY DEF Clear, LeaveRadio, Leave
  <2>2. PICK o \in ClearIrq(radio, irq) : h = Result(o, rx_active)
    BY <2>1
  <2>3. h.radio = o.radio /\ h.faults = o.faults /\ h.rx_active = rx_active
    BY <2>2 DEF Result
  <2> QED BY <2>1, <2>3
<1>3. /\ o \in Outcome
      /\ o.radio.modem = radio.modem /\ o.radio.config = radio.config
      /\ o.radio.routed = radio.routed /\ o.radio.buf = radio.buf
      /\ o.radio.chip = radio.chip
      /\ o.faults = 0 => o.radio.irq = radio.irq \ irq
      /\ FlagsNothing(radio, o.radio)
  BY ClearIrqEffect DEF IInv, TypeOK
<1>4. radio' \in Radio /\ faults' \in 0 .. MaxFaults
      /\ (faults' = 0 => faults = 0 /\ radio'.irq = radio.irq \ irq)
  BY <1>2, <1>3 DEF Outcome, IInv, TypeOK
<1>5. ghost' = ghost
  BY <1>2, <1>3 DEF IInv, TypeOK
<1>6. TypeOK'
  BY <1>1, <1>2, <1>4, <1>5 DEF IInv, TypeOK, ProgramPoints
<1>7. FlagsInv'
  BY <1>1, <1>4, <1>5 DEF IInv, FlagsInv
<1>8. ModemInv' /\ AppHasItsModem'
  BY <1>1, <1>2, <1>3, <1>4 DEF IInv, ModemInv, AppHasItsModem, Honest, Tuned, Running
<1>9. BootInv' /\ ListenInv'
  BY <1>1, <1>2, <1>3, <1>4 DEF IInv, BootInv, ListenInv, ListensUntilAFault, Running
<1>10. RereadInv'
  <2> SUFFICES ASSUME faults' <= 1, "RxDone" \in radio'.irq, ghost.holds = "read"
               PROVE  pc' = "rearm" /\ faults' = 1
    BY <1>1, <1>5 DEF RereadInv
  <2>1. o.faults \in Nat /\ faults \in Nat /\ faults' = faults + o.faults
    BY <1>2, <1>3 DEF Outcome, IInv, TypeOK
  <2>2. faults <= 1 /\ (o.faults # 0 => faults' = 1)
    BY <2>1
  <2>3. "RxDone" \in radio.irq
    BY <1>2, <1>3 DEF FlagsNothing
  <2>4. "RxDone" \in irq
    BY <1>1, <2>2, <2>3 DEF IInv, RereadInv
  <2>5. o.faults # 0
    BY <1>2, <1>3, <2>4
  <2> QED BY <1>1, <2>2, <2>4, <2>5
<1> QED BY <1>6, <1>7, <1>8, <1>9, <1>10 DEF IInv

LEMMA RearmInductive ==
    ASSUME IInv, Rearm
    PROVE  IInv'
<1>1. /\ pc = "rearm" /\ pc' = "idle"
      /\ UNCHANGED <<irq, data, serial_protocol, ble_connections,
                     repeater_enabled, dedup, online>>
  BY DEF Rearm, Goto
<1>2. PICK o \in StartRx(radio) :
         /\ faults + o.faults <= MaxFaults /\ faults' = faults + o.faults
         /\ radio' = o.radio /\ rx_active' = TRUE
         /\ ghost' = [ghost EXCEPT !.holds =
                         IF o.radio.buf = radio.buf THEN @
                         ELSE IF o.radio.buf = NoPacket THEN "nothing" ELSE "sent"]
  BY DEF Rearm, Leave, Result
<1>3. /\ o \in Outcome
      /\ o.radio.modem = radio.modem /\ o.radio.config = radio.config
      /\ o.radio.routed = radio.routed /\ o.radio.buf = radio.buf
      /\ o.faults = 0 => o.radio.chip = "Rx" /\ o.radio.irq = {}
      /\ FlagsNothing(radio, o.radio)
  BY StartRxEffect DEF IInv, TypeOK
<1>4. radio' \in Radio /\ faults' \in 0 .. MaxFaults
      /\ (faults' = 0 => faults = 0 /\ radio'.chip = "Rx" /\ radio'.irq = {})
  BY <1>2, <1>3 DEF Outcome, IInv, TypeOK
<1>5. ghost' = ghost
  BY <1>2, <1>3 DEF IInv, TypeOK
<1>6. TypeOK'
  BY <1>1, <1>2, <1>4, <1>5 DEF IInv, TypeOK, ProgramPoints
<1>7. FlagsInv'
  BY <1>1, <1>4, <1>5 DEF IInv, FlagsInv
<1>8. ModemInv' /\ AppHasItsModem'
  BY <1>1, <1>2, <1>3, <1>4 DEF IInv, ModemInv, AppHasItsModem, Honest, Tuned, Running
<1>9. BootInv' /\ ListenInv'
  BY <1>1, <1>2, <1>4 DEF BootInv, ListenInv, ListensUntilAFault
<1>10. RereadInv'
  <2> SUFFICES ASSUME faults' <= 1, "RxDone" \in radio'.irq, ghost.holds = "read"
               PROVE  FALSE
    BY <1>1, <1>5 DEF RereadInv
  <2>1. o.faults \in Nat /\ faults \in Nat /\ faults' = faults + o.faults
    BY <1>2, <1>3 DEF Outcome, IInv, TypeOK
  <2>2. faults <= 1 /\ (faults = 1 => o.faults = 0)
    BY <2>1
  <2>3. "RxDone" \in radio.irq
    BY <1>2, <1>3 DEF FlagsNothing
  <2>4. faults = 1
    BY <1>1, <2>2, <2>3 DEF IInv, RereadInv
  <2> QED BY <1>2, <1>3, <2>2, <2>4
<1> QED BY <1>6, <1>7, <1>8, <1>9, <1>10 DEF IInv

LEMMA IdleInductive ==
    ASSUME RingSizeAssumption, IInv, Idle
    PROVE  IInv'
<1>1. /\ pc = "idle" /\ pc' = "beacon" /\ irq' = {}
      /\ UNCHANGED <<radio, rx_active, faults, ghost, data, ble_connections,
                     repeater_enabled, online>>
      /\ serial_protocol' \in {serial_protocol, "Unknown"}
      /\ dedup' \in {dedup, EmptyRing}
  BY DEF Idle, Goto, KeepRadio, ResetProtocol
<1>2. TypeOK'
  BY <1>1, RingTypes DEF IInv, TypeOK, ProgramPoints
<1>3. AppHasItsModem'
  BY <1>1 DEF IInv, AppHasItsModem, AppConfigs
<1> QED BY <1>1, <1>2, <1>3
        DEF IInv, BootInv, ModemInv, FlagsInv, RereadInv, ListenInv,
            ListensUntilAFault, Running

(***************************************************************************)
(* The chip and the BLE stack.                                             *)
(***************************************************************************)
LEMMA ReceiveInductive ==
    ASSUME IInv, NEW p \in Packets, NEW crcOk \in BOOLEAN, ChipReceives(p, crcOk)
    PROVE  IInv'
<1>1. /\ pc # "boot" /\ radio.chip = "Rx" /\ radio' = Receive(radio, p, crcOk)
      /\ UNCHANGED <<pc, rx_active, irq, data, serial_protocol, repeater_enabled,
                     dedup, online, faults, ble_connections>>
  BY DEF ChipReceives, Environment
<1>2. ghost' \in [holds : {"nothing", "unread", "read", "sent"},
                 broken : BOOLEAN, raced : BOOLEAN]
      /\ ghost'.holds = "unread" /\ ghost'.broken = ~ crcOk /\ ghost'.raced = TRUE
  BY DEF ChipReceives
<1>3. radio \in Radio
  BY DEF IInv, TypeOK
<1> DEFINE flags == IF ~ radio.routed THEN radio.irq
                    ELSE IF crcOk THEN radio.irq \cup {"RxDone"}
                    ELSE radio.irq \cup {"RxDone", "CrcErr"}
<1>4. radio' = [radio EXCEPT !.buf = p, !.irq = flags]
  BY <1>1 DEF Receive
<1>5. flags \in SUBSET Flags
  BY <1>3 DEF Radio, Flags
<1>6. /\ radio' \in Radio /\ radio'.chip = radio.chip /\ radio'.modem = radio.modem
      /\ radio'.config = radio.config /\ radio'.routed = radio.routed
      /\ radio'.irq = flags
  <2> HIDE DEF flags
  <2> QED BY <1>3, <1>4, <1>5 DEF Radio
<1>7. TypeOK'
  BY <1>1, <1>2, <1>6 DEF IInv, TypeOK
<1>8. FlagsInv'
  <2> SUFFICES ASSUME faults' = 0 PROVE FlagsInv'
    BY DEF FlagsInv
  <2>1. faults = 0 /\ radio.routed
    BY <1>1 DEF IInv, ModemInv, Tuned, Running
  <2>2. /\ "RxDone" \in radio'.irq /\ (~ crcOk => "CrcErr" \in radio'.irq)
    BY <1>6, <2>1
  <2> HIDE DEF flags
  <2> QED BY <1>1, <1>2, <2>1, <2>2 DEF IInv, FlagsInv
<1>9. BootInv' /\ ModemInv' /\ AppHasItsModem' /\ ListenInv'
  <2> HIDE DEF flags
  <2> QED BY <1>1, <1>6 DEF IInv, BootInv, ModemInv, AppHasItsModem, ListenInv,
                            ListensUntilAFault, Honest, Tuned, Running
<1>10. RereadInv'
  BY <1>1, <1>2 DEF IInv, RereadInv
<1> QED BY <1>7, <1>8, <1>9, <1>10 DEF IInv

LEMMA FinishTxInductive ==
    ASSUME IInv, ChipFinishesTx
    PROVE  IInv'
<1>1. /\ pc # "boot" /\ radio.chip = "Tx" /\ radio' = FinishTx(radio)
      /\ UNCHANGED <<pc, rx_active, irq, data, serial_protocol, repeater_enabled,
                     dedup, online, faults, ble_connections, ghost>>
  BY DEF ChipFinishesTx, Environment
<1>2. radio \in Radio
  BY DEF IInv, TypeOK
<1> DEFINE flags == IF radio.routed THEN radio.irq \cup {"TxDone"} ELSE radio.irq
<1>3. radio' = [radio EXCEPT !.chip = "Standby", !.irq = flags]
  BY <1>1 DEF FinishTx
<1>4. /\ flags \in SUBSET Flags
      /\ "RxDone" \in flags <=> "RxDone" \in radio.irq
      /\ "CrcErr" \in flags <=> "CrcErr" \in radio.irq
  BY <1>2 DEF Radio, Flags
<1> HIDE DEF flags
<1>5. /\ radio' \in Radio /\ radio'.modem = radio.modem
      /\ radio'.config = radio.config /\ radio'.routed = radio.routed
      /\ radio'.irq = flags
  BY <1>2, <1>3, <1>4 DEF Radio
<1>6. TypeOK'
  BY <1>1, <1>5 DEF IInv, TypeOK
<1>7. FlagsInv'
  BY <1>1, <1>4, <1>5 DEF IInv, FlagsInv
<1>8. BootInv' /\ ModemInv' /\ AppHasItsModem' /\ ListenInv'
  BY <1>1, <1>5 DEF IInv, BootInv, ModemInv, AppHasItsModem, ListenInv,
                    ListensUntilAFault, Honest, Tuned, Running
<1>9. RereadInv'
  BY <1>1, <1>4, <1>5 DEF IInv, RereadInv
<1> QED BY <1>6, <1>7, <1>8, <1>9 DEF IInv

LEMMA LinkInductive ==
    ASSUME BoundsAssumption, IInv, BleConnects \/ BleDisconnects
    PROVE  IInv'
<1>1. /\ ble_connections' \in 0 .. MaxBle
      /\ UNCHANGED <<pc, rx_active, irq, data, serial_protocol, repeater_enabled,
                     dedup, online, faults, radio, ghost>>
  BY DEF BleConnects, BleDisconnects, Environment, IInv, TypeOK, BoundsAssumption
<1> QED BY <1>1 DEF IInv, TypeOK, BootInv, ModemInv, AppHasItsModem, FlagsInv, RereadInv,
                    ListenInv, ListensUntilAFault, Running

LEMMA StutterInductive ==
    ASSUME IInv, UNCHANGED vars
    PROVE  IInv'
  BY DEF vars, IInv, TypeOK, BootInv, ModemInv, AppHasItsModem, FlagsInv, RereadInv,
         ListenInv, ListensUntilAFault, Running

-----------------------------------------------------------------------------
(***************************************************************************)
(* Start-up: three driver calls in a row, none of which waits for the      *)
(* success of the one before.                                              *)
(***************************************************************************)
LEMMA BootInductive ==
    ASSUME BoundsAssumption, IInv, Boot
    PROVE  IInv'
<1>1. /\ pc = "boot" /\ pc' = "beacon" /\ serial_protocol = "Unknown"
      /\ UNCHANGED <<irq, data, serial_protocol, ble_connections,
                     repeater_enabled, dedup, online>>
      /\ radio \in Radio /\ faults \in Nat /\ MaxFaults \in Nat
      /\ "MeshCore" \in Configs
  BY DEF Boot, Goto, IInv, BootInv, TypeOK, BoundsAssumption, Configs, AppConfigs
<1>2. PICK h \in BootResults :
         /\ faults + h.faults <= MaxFaults /\ faults' = faults + h.faults
         /\ radio' = h.radio /\ rx_active' = h.rx_active
         /\ ghost' = [ghost EXCEPT !.holds =
                         IF h.radio.buf = radio.buf THEN @
                         ELSE IF h.radio.buf = NoPacket THEN "nothing" ELSE "sent"]
  BY DEF Boot, Leave
<1>3. PICK i \in InitRadio(radio) :
         h \in UNION {{[Result(s, s.ok) EXCEPT !.faults = @ + i.faults + c.faults] :
                          s \in StartRx(c.radio)} :
                      c \in Configure(i.radio, "MeshCore")}
  BY <1>2 DEF BootResults
<1>4. PICK c \in Configure(i.radio, "MeshCore") :
         h \in {[Result(s, s.ok) EXCEPT !.faults = @ + i.faults + c.faults] :
                   s \in StartRx(c.radio)}
  BY <1>3
<1>5. PICK s \in StartRx(c.radio) :
         h = [Result(s, s.ok) EXCEPT !.faults = @ + i.faults + c.faults]
  BY <1>4
<1>6. h = [radio |-> s.radio, rx_active |-> s.ok,
           faults |-> s.faults + i.faults + c.faults]
  BY <1>5 DEF Result
<1>7. i \in Outcome /\ Honest(i.radio) /\ i.radio.irq = {}
  BY <1>1, InitRadioEffect
<1>8. i.radio \in Radio /\ i.faults \in Nat
  BY <1>7 DEF Outcome
<1>9. /\ c \in Outcome /\ Honest(c.radio) /\ c.radio.irq = {}
      /\ c.faults = 0 => Tuned(c.radio)
  BY <1>1, <1>7, <1>8, ConfigureEffect
<1>10. c.radio \in Radio /\ c.faults \in Nat
  BY <1>9 DEF Outcome
<1>11. /\ s \in Outcome
       /\ s.radio.modem = c.radio.modem /\ s.radio.config = c.radio.config
       /\ s.radio.routed = c.radio.routed /\ FlagsNothing(c.radio, s.radio)
       /\ s.faults = 0 => s.ok /\ s.radio.chip = "Rx" /\ s.radio.irq = {}
  BY <1>10, StartRxEffect
<1>12. s.radio \in Radio /\ s.faults \in Nat /\ s.ok \in BOOLEAN
  BY <1>11 DEF Outcome
<1>13. h.radio = s.radio /\ h.rx_active = s.ok /\ h.faults = s.faults + i.faults + c.faults
  BY <1>6
<1>14. faults' \in 0 .. MaxFaults
       /\ (faults' = 0 => faults = 0 /\ c.faults = 0 /\ s.faults = 0)
  <2> DEFINE n == s.faults + i.faults + c.faults
  <2>1. n \in Nat /\ (n = 0 => c.faults = 0 /\ s.faults = 0)
    <3>1. \A k, l, m \in Nat : k + l + m \in Nat /\ (k + l + m = 0 => k = 0 /\ m = 0)
      OBVIOUS
    <3>2. s.faults \in Nat /\ i.faults \in Nat /\ c.faults \in Nat
      BY <1>8, <1>10, <1>12
    <3> QED BY <3>1, <3>2
  <2>2. faults' = faults + n /\ faults + n <= MaxFaults
    BY <1>2, <1>13
  <2> HIDE DEF n
  <2> QED BY <1>1, <2>1, <2>2
<1>15. ghost' \in [holds : {"nothing", "unread", "read", "sent"},
                  broken : BOOLEAN, raced : BOOLEAN]
  <2>1. ghost \in [holds : {"nothing", "unread", "read", "sent"},
                  broken : BOOLEAN, raced : BOOLEAN]
    BY DEF IInv, TypeOK
  <2> QED BY <1>2, <2>1
<1>16. TypeOK'
  BY <1>1, <1>2, <1>12, <1>13, <1>14, <1>15 DEF IInv, TypeOK, ProgramPoints
<1>17. FlagsInv'
  <2> SUFFICES ASSUME faults' = 0 PROVE FlagsInv'
    BY DEF FlagsInv
  <2>1. faults = 0 /\ radio'.irq = {}
    BY <1>2, <1>11, <1>13, <1>14
  <2> QED BY <1>1, <2>1 DEF IInv, FlagsInv
<1>18. ModemInv'
  BY <1>2, <1>9, <1>11, <1>13, <1>14 DEF ModemInv, Honest, Tuned
<1>19. BootInv' /\ AppHasItsModem' /\ ListenInv'
  BY <1>1, <1>2, <1>11, <1>13, <1>14
     DEF BootInv, AppHasItsModem, ListenInv, ListensUntilAFault, AppConfigs
<1>20. RereadInv'
  BY <1>1, <1>2, <1>9, <1>11, <1>13 DEF RereadInv, FlagsNothing
<1> QED BY <1>16, <1>17, <1>18, <1>19, <1>20 DEF IInv

LEMMA InitIInv ==
    ASSUME RingSizeAssumption, BoundsAssumption, Init
    PROVE  IInv
<1>1. NewRadio \in Radio /\ Honest(NewRadio) /\ NewRadio.irq = {}
  BY DEF NewRadio, Radio, Honest, Configs
<1>2. 0 \in 0 .. MaxBle /\ 0 \in 0 .. MaxFaults
  BY DEF BoundsAssumption
<1>3. TypeOK
  BY <1>1, <1>2, RingTypes DEF Init, TypeOK, ProgramPoints
<1>4. BootInv /\ ModemInv /\ AppHasItsModem /\ FlagsInv /\ RereadInv /\ ListenInv
  BY <1>1 DEF Init, BootInv, ModemInv, AppHasItsModem, FlagsInv, RereadInv, ListenInv,
              ListensUntilAFault, Running, AppConfigs
<1> QED BY <1>3, <1>4 DEF IInv

(***************************************************************************)
(* The inductive invariant holds: one step for each action of the loop,    *)
(* the host, the chip and the BLE stack.                                   *)
(***************************************************************************)
THEOREM RadioInvariant == Spec => []IInv
<1> USE RingSizeAssumption, PacketsAssumption, ProtocolsAssumption, BoundsAssumption
<1>1. Init => IInv
  BY InitIInv
<1>2. IInv /\ [Next]_vars => IInv'
  <2> SUFFICES ASSUME IInv, [Next]_vars PROVE IInv'
    OBVIOUS
  <2>1. CASE Boot
    BY <2>1, BootInductive
  <2>2. CASE SendBeacon
    BY <2>2, BeaconInductive
  <2>3. CASE Relay
    BY <2>3, RelayInductive
  <2>4. CASE \E p \in Protocols : Detect(p)
    BY <2>4, DetectInductive
  <2>5. CASE MeshCoreFrame
    BY <2>5, MeshCoreInductive
  <2>6. CASE MeshtasticFrame
    BY <2>6, MeshtasticInductive
  <2>7. CASE \E on \in BOOLEAN : RNodeFrame(on)
    BY <2>7, RNodeInductive
  <2>8. CASE AtTune \/ AtReset \/ AtRx
    BY <2>8, AtRadioInductive
  <2>9. CASE NoBeacon \/ EndDrain \/ AtSwitch \/ \E on \in BOOLEAN : AtRepeater(on)
    BY <2>9, KeepInductive
  <2>10. CASE Poll \/ PollFails
    BY <2>10, PollInductive
  <2>11. CASE Read
    BY <2>11, ReadInductive
  <2>12. CASE ReadFails
    BY <2>12, ReadFailsInductive
  <2>13. CASE Clear
    BY <2>13, ClearInductive
  <2>14. CASE Rearm
    BY <2>14, RearmInductive
  <2>15. CASE Idle
    BY <2>15, IdleInductive
  <2>16. CASE \E p \in Packets, crcOk \in BOOLEAN : ChipReceives(p, crcOk)
    BY <2>16, ReceiveInductive
  <2>17. CASE ChipFinishesTx
    BY <2>17, FinishTxInductive
  <2>18. CASE BleConnects \/ BleDisconnects
    BY <2>18, LinkInductive
  <2>19. CASE UNCHANGED vars
    BY <2>19, StutterInductive
  <2> QED BY <2>1, <2>2, <2>3, <2>4, <2>5, <2>6, <2>7, <2>8, <2>9, <2>10, <2>11,
             <2>12, <2>13, <2>14, <2>15, <2>16, <2>17, <2>18, <2>19
          DEF Next, LoopStep, HostStep, EnvironmentStep
<1> QED BY <1>1, <1>2, PTL DEF Spec

(***************************************************************************)
(* The radio, the flags and the ring keep their types through every        *)
(* outcome of every driver call.                                           *)
(***************************************************************************)
THEOREM RadioTypes == Spec => []TypeOK
<1>1. IInv => TypeOK
  BY DEF IInv
<1> QED BY <1>1, RadioInvariant, PTL

(***************************************************************************)
(* The driver's record of the configuration is the chip's, or the chip has *)
(* no complete one, whatever driver calls fail; and it is the chip's until *)
(* one does.                                                               *)
(***************************************************************************)
THEOREM ConfigStaysReal == Spec => []ConfigIsReal
<1>1. IInv => ConfigIsReal
  BY DEF IInv, ModemInv, ConfigIsReal, Honest, Tuned
<1> QED BY <1>1, RadioInvariant, PTL

(***************************************************************************)
(* An app works on the modem settings of its protocol, or its own.         *)
(***************************************************************************)
THEOREM AppsHaveTheirModem == Spec => []AppHasItsModem
<1>1. IInv => AppHasItsModem
  BY DEF IInv
<1> QED BY <1>1, RadioInvariant, PTL

(***************************************************************************)
(* Until a driver call fails every packet is handed on once, and none that *)
(* was known to be broken.                                                 *)
(***************************************************************************)
THEOREM ReadsAreFresh == Spec => []ReadIsFresh
<1>1. IInv => ReadIsFresh
  BY DEF IInv, FlagsInv, ReadIsFresh
<1> QED BY <1>1, RadioInvariant, PTL

(***************************************************************************)
(* One failed driver call, whichever it is and wherever in the loop it     *)
(* happens, does not make the program hand a packet on twice: the clearing *)
(* by clear_irq and the one in start_rx cover for each other.              *)
(***************************************************************************)
THEOREM RereadsNeedTwoFaults == Spec => []RereadNeedsTwoFaults
<1>1. IInv => RereadNeedsTwoFaults
  BY DEF IInv, RereadInv, RereadNeedsTwoFaults
<1> QED BY <1>1, RadioInvariant, PTL

(***************************************************************************)
(* Until a driver call fails, or AT+RESET is given, the receiver is on     *)
(* whenever no handler is at work, and the program knows it.               *)
(***************************************************************************)
THEOREM NodeListens ==
    ASSUME "RESET" \notin AtCommands
    PROVE  Spec => []ListensUntilAFault
<1>1. IInv => ListensUntilAFault
  BY DEF IInv, ListenInv
<1> QED BY <1>1, RadioInvariant, PTL
=============================================================================

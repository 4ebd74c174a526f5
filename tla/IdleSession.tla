----------------------------- MODULE IdleSession -----------------------------
(***************************************************************************)
(* The timeouts that end a serial session nobody uses any more (the        *)
(* supervision at the end of the main loop, main.rs).                      *)
(*                                                                         *)
(* The clock is a wrapping counter of ticks.  The loop reads it once, at   *)
(* the top of an iteration, and every byte it drains reads it again; the   *)
(* beacon, a transmission for the host and a relay can take many ticks in  *)
(* between.  BLE connections come and go at any time.                      *)
(***************************************************************************)
EXTENDS Integers

CONSTANTS
    Modulus,        \* the clock counts modulo this (2^32)
    IdleTicks,      \* the 30_000 of the serial timeout
    GraceTicks,     \* the 5_000 of the BLE disconnect
    MaxIteration,   \* bound: ticks one iteration takes at most
    MaxBle          \* bound: BLE connections at one time

ASSUME TimesAssumption ==
    /\ Modulus \in Nat /\ IdleTicks \in Nat /\ GraceTicks \in Nat
    /\ MaxIteration \in Nat /\ MaxBle \in Nat
    /\ GraceTicks <= IdleTicks /\ 0 < MaxIteration
    /\ IdleTicks + MaxIteration + 1 < Modulus

VARIABLES
    pc,                     \* top, drain or supervise
    clock,                  \* what millis() returns
    now,                    \* the reading taken at the top of the iteration
    last_serial_rx,         \* self.last_serial_rx
    session,                \* self.serial_protocol is not Unknown
    ble_connections,        \* self.ble.connection_count()
    prev_ble_connections,   \* self.prev_ble_connections
    elapsed,                \* ticks since the top of the iteration
    silent                  \* history: ticks since the last byte, counted as
                            \* far as IdleTicks + 1

idleVars == <<pc, clock, now, last_serial_rx, session, ble_connections,
              prev_ble_connections, elapsed, silent>>

Times == 0 .. Modulus - 1

IdleTypeOK ==
    /\ pc \in {"top", "drain", "supervise"}
    /\ clock \in Times
    /\ now \in Times
    /\ last_serial_rx \in Times
    /\ session \in BOOLEAN
    /\ ble_connections \in 0 .. MaxBle
    /\ prev_ble_connections \in 0 .. MaxBle
    /\ elapsed \in 0 .. MaxIteration
    /\ silent \in 0 .. IdleTicks + 1

IdleInit ==
    /\ pc = "top"
    /\ clock = 0
    /\ now = 0
    /\ last_serial_rx = 0
    /\ session = FALSE
    /\ ble_connections = 0
    /\ prev_ble_connections = 0
    /\ elapsed = 0
    /\ silent = 0

\* The bug of a subtraction that saturates instead of wrapping.
SinceSaturating(t) == IF t <= now THEN now - t ELSE 0

\* wrapping_sub
Since(t) == IF t <= now THEN now - t ELSE now - t + Modulus

Top ==
    /\ pc = "top"
    /\ pc' = "drain"
    /\ now' = clock
    /\ elapsed' = 0
    /\ UNCHANGED <<clock, last_serial_rx, session, ble_connections,
                   prev_ble_connections, silent>>

\* process_serial_byte: a byte may complete a detection, and the last one of
\* AT+SWITCH ends the session.
Byte(attached) ==
    /\ pc = "drain"
    /\ last_serial_rx' = clock
    /\ session' = attached
    /\ silent' = 0
    /\ UNCHANGED <<pc, clock, now, ble_connections, prev_ble_connections, elapsed>>

EndDrain ==
    /\ pc = "drain"
    /\ pc' = "supervise"
    /\ UNCHANGED <<clock, now, last_serial_rx, session, ble_connections,
                   prev_ble_connections, elapsed, silent>>

\* The bug of a supervision that forgets the BLE app.
SerialIdleDespiteBle ==
    last_serial_rx > 0 /\ Since(last_serial_rx) > IdleTicks

SerialIdle ==
    /\ ble_connections = 0
    /\ last_serial_rx > 0
    /\ Since(last_serial_rx) > IdleTicks

BleGone ==
    /\ prev_ble_connections > 0 /\ ble_connections = 0
    /\ last_serial_rx = 0 \/ Since(last_serial_rx) > GraceTicks

Supervision ==
    /\ pc = "supervise"
    /\ pc' = "top"
    /\ session' = (session /\ ~ SerialIdle /\ ~ BleGone)
    /\ prev_ble_connections' = ble_connections
    /\ UNCHANGED <<clock, now, last_serial_rx, ble_connections, elapsed, silent>>

Tick ==
    /\ elapsed < MaxIteration
    /\ clock' = (clock + 1) % Modulus
    /\ elapsed' = elapsed + 1
    /\ silent' = IF silent > IdleTicks THEN silent ELSE silent + 1
    /\ UNCHANGED <<pc, now, last_serial_rx, session, ble_connections,
                   prev_ble_connections>>

BleConnects ==
    /\ ble_connections < MaxBle
    /\ ble_connections' = ble_connections + 1
    /\ UNCHANGED <<pc, clock, now, last_serial_rx, session,
                   prev_ble_connections, elapsed, silent>>

BleDisconnects ==
    /\ ble_connections > 0
    /\ ble_connections' = ble_connections - 1
    /\ UNCHANGED <<pc, clock, now, last_serial_rx, session,
                   prev_ble_connections, elapsed, silent>>

LoopStep == Top \/ EndDrain \/ Supervision

IdleNext ==
    \/ LoopStep
    \/ \E attached \in BOOLEAN : Byte(attached)
    \/ Tick
    \/ BleConnects
    \/ BleDisconnects

IdleSpec == IdleInit /\ [][IdleNext]_idleVars
-----------------------------------------------------------------------------
\* The supervision ends a session in this step.
EndsSession == pc = "supervise" /\ session /\ ~ session'

\* The last byte was drained after the clock had moved on from `now`.
Late == silent < elapsed

(***************************************************************************)
(* A session ends only while no BLE app is connected, and only because the *)
(* line was silent for the whole timeout, or for the grace period when the *)
(* last BLE connection has gone, with two exceptions: a byte that came in  *)
(* after the loop had read the clock, and one stamped with tick 0.         *)
(***************************************************************************)
EndsForAReason ==
    [][EndsSession =>
         /\ ble_connections = 0
         /\ \/ silent > IdleTicks
            \/ prev_ble_connections > 0 /\ silent > GraceTicks
            \/ prev_ble_connections > 0 /\ last_serial_rx = 0
            \/ Late]_idleVars

(***************************************************************************)
(* A session the host has abandoned ends, also when the clock wraps        *)
(* meanwhile, unless its last byte was stamped with tick 0.                *)
(***************************************************************************)
AbandonedSessionEnds ==
    session /\ last_serial_rx # 0
        ~> ~ session \/ silent = 0 \/ ble_connections > 0

(***************************************************************************)
(* "Serial idle 30s, resetting protocol" (main.rs:2232): when no BLE app   *)
(* is there, a session ends only after that much silence.                  *)
(***************************************************************************)
EndsOnlyWhenIdle == [][EndsSession => silent > IdleTicks]_idleVars
=============================================================================

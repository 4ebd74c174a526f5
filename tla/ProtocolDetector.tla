--------------------------- MODULE ProtocolDetector ---------------------------
(***************************************************************************)
(* The guess at the protocol a host speaks from the bytes that open its    *)
(* first frame (ProtocolDetector, protocol_router.rs).                     *)
(*                                                                         *)
(* bytes_seen and last_detect_ms are left out, as nothing reads them;      *)
(* state_bytes is counted as far as it is compared.                        *)
(***************************************************************************)
EXTENDS Integers

CONSTANTS
    SyncTimeout,    \* SYNC_TIMEOUT_BYTES
    MaxLockCount    \* where lock_count, a u8, saturates

LockThreshold == 3

IsDetector(d) ==
    /\ d.state \in {"Idle", "MeshCore1", "Meshtastic1", "At1"}
    /\ d.detected \in {"Unknown", "MeshCore", "Meshtastic", "RNode", "AtCommand"}
    /\ d.lock_count \in 0 .. MaxLockCount
    /\ d.state_bytes \in 0 .. SyncTimeout + 1

\* new and reset
Fresh == [state |-> "Idle", detected |-> "Unknown", lock_count |-> 0,
          state_bytes |-> 0]

is_locked(d) == d.lock_count >= LockThreshold

confirm_frame(d) == [d EXCEPT !.lock_count = IF @ < MaxLockCount THEN @ + 1 ELSE @]

\* The two counters, and check_timeout.
Counted(d) ==
    LET n == IF d.state_bytes > SyncTimeout THEN d.state_bytes ELSE d.state_bytes + 1
    IN  IF d.state # "Idle" /\ n > SyncTimeout
        THEN [d EXCEPT !.state = "Idle", !.state_bytes = 0]
        ELSE [d EXCEPT !.state_bytes = n]

\* The protocol the byte completes the opening of, if any.
Found(d, b) ==
    CASE d.state = "Idle" /\ b = \hC0 /\ d.detected \in {"Unknown", "RNode"} -> "RNode"
      [] d.state = "MeshCore1" /\ b = \h55   -> "MeshCore"
      [] d.state = "Meshtastic1" /\ b = \hC3 -> "Meshtastic"
      [] d.state = "At1" /\ b = \h54         -> "AtCommand"
      [] OTHER                               -> "Unknown"

\* The state of a byte that completes nothing: a second sync byte keeps a
\* MeshCore opening open, and no other.
Opened(d, b) ==
    CASE d.state \in {"Idle", "MeshCore1"} /\ b = \hAA -> "MeshCore1"
      [] d.state = "Idle" /\ b = \h94                  -> "Meshtastic1"
      [] d.state = "Idle" /\ b = \h41                  -> "At1"
      [] OTHER                                         -> "Idle"

\* feed: the detector afterwards, and the protocol it returns.
feed(d, b) ==
    LET c     == Counted(d)
        found == Found(c, b)
        state == IF found = "Unknown" THEN Opened(c, b) ELSE "Idle"
    IN  IF is_locked(c) THEN c
        ELSE IF found # "Unknown" THEN [c EXCEPT !.state = "Idle", !.detected = found]
        ELSE [c EXCEPT !.state = state,
                       !.state_bytes = IF state = c.state THEN @ ELSE 0]

Answer(d, b) == IF is_locked(d) THEN d.detected ELSE Found(Counted(d), b)
=============================================================================

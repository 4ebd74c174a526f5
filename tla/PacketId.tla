------------------------------- MODULE PacketId -------------------------------
(***************************************************************************)
(* Packet identifiers that are to be unique over wake-ups from deep sleep  *)
(* (packet_id.rs): a session id and a sequence number in static atomics,   *)
(* with a checkpoint in RTC memory, which survives a reset.                *)
(*                                                                         *)
(* Every access to an atomic or to an RTC word is a step of its own, since *)
(* any thread may call in and a reset may come between any two.  Sessions  *)
(* are numbered in the order in which generate_session_id draws them; what *)
(* word it draws is left open, and two sessions may draw the same one.  An *)
(* identifier is PacketIdOf of both numbers, mix32(session ^ odd *         *)
(* sequence): one to one in the sequence number as long as the session     *)
(* stays, and arbitrary over sessions, whose identifiers may coincide.     *)
(***************************************************************************)
EXTENDS Integers

CONSTANTS
    Threads,
    Operations,     \* the public calls in use, of "next", "next64", "rotate"
    Modulus,        \* the sequence counter counts modulo this (2^32)
    PersistEvery,   \* a checkpoint every so many numbers (0xFF + 1)
    WakeSkip,       \* WAKE_SEQUENCE_SKIP
    MaxSessions,    \* bound: session ids drawn in a behaviour
    PacketIdOf(_, _)\* the identifier of a session and a sequence number

ASSUME CounterAssumption ==
    /\ Modulus \in Nat /\ PersistEvery \in Nat /\ WakeSkip \in Nat
    /\ 0 < PersistEvery /\ PersistEvery <= WakeSkip /\ 2 < Modulus
    /\ (Modulus - 1) % PersistEvery # 0 /\ (Modulus - 2) % PersistEvery # 0

ASSUME OperationsAssumption == Operations \subseteq {"next", "next64", "rotate"}

Sequences == 0 .. Modulus - 1

\* mix32, the product with an odd number and the exclusive or with the word
\* of the session are each one to one.
ASSUME MixAssumption ==
    /\ MaxSessions \in Nat \ {0}
    /\ \A s \in 0 .. MaxSessions : \A m, n \in Sequences :
          PacketIdOf(s, m) = PacketIdOf(s, n) => m = n

MaxSequence == Modulus - 2

VARIABLES
    initialized,    \* INITIALIZED
    session,        \* PACKET_ID_SESSION
    sequence,       \* PACKET_ID_SEQUENCE
    rtc,            \* RTC memory: magic, session, sequence
    thread,         \* per thread: where it is, and its locals
    sessions,       \* history: session ids drawn so far
    issued,         \* history: session, sequence and call of what was returned
    twice           \* history: a session returned an identifier a second time

vars == <<initialized, session, sequence, rtc, thread, sessions, issued, twice>>

Steps == {"idle", "recover", "store_session", "store_sequence",
          "save_session", "save_sequence", "take", "load",
          "new_session", "new_sequence", "save_new_session", "save_new_sequence",
          "checkpoint_session", "checkpoint_sequence", "return"}

Locals == [at : Steps, op : {"next", "next64", "rotate"},
           session : Nat, sequence : Sequences, fresh : Nat]

TypeOK ==
    /\ initialized \in BOOLEAN
    /\ session \in Nat
    /\ sequence \in Sequences
    /\ rtc \in [magic : BOOLEAN, session : Nat, sequence : Sequences]
    /\ thread \in [Threads -> Locals]
    /\ sessions \in 1 .. MaxSessions
    /\ issued \subseteq Nat \X Sequences \X {"next", "next64", "rotate"}
    /\ twice \in BOOLEAN

AtRest == [t \in Threads |->
             [at |-> "idle", op |-> "next", session |-> 0, sequence |-> 0,
              fresh |-> 0]]

\* Power has just come: RTC memory holds noise, which is not the magic word
\* and names no session in use.
Init ==
    /\ initialized = FALSE
    /\ session = 0
    /\ sequence = 0
    /\ \E noise \in Sequences :
          rtc = [magic |-> FALSE, session |-> 1, sequence |-> noise]
    /\ thread = AtRest
    /\ sessions = 1
    /\ issued = {}
    /\ twice = FALSE

At(t, here) == thread[t].at = here
Goto(t, there) == thread' = [thread EXCEPT ![t].at = there]

\* generate_session_id
DrawSession == sessions < MaxSessions /\ sessions' = sessions + 1
-----------------------------------------------------------------------------
(***************************************************************************)
(* The entry of every call, and init.  The compare-exchange both claims    *)
(* the initialisation and announces its end: a thread that loses it finds  *)
(* INITIALIZED set and goes on, whatever the winner has stored so far.     *)
(***************************************************************************)
AfterInit(op) == IF op = "rotate" THEN "new_session" ELSE "take"

Call(t, op) ==
    /\ At(t, "idle")
    /\ thread' = [thread EXCEPT ![t].op = op,
                     ![t].at = IF initialized THEN AfterInit(op) ELSE "recover"]
    /\ initialized' = TRUE
    /\ UNCHANGED <<session, sequence, rtc, sessions, issued, twice>>

\* Bugs of the resumption: at the checkpoint itself, or past the end.
ResumeAtCheckpoint(n) == n
ResumeUnsaturated(n)  == n + WakeSkip

\* saturating_add of the skip to the checkpoint that was found.
Resume(n) == IF n + WakeSkip < Modulus THEN n + WakeSkip ELSE Modulus - 1

Recover(t) ==
    /\ At(t, "recover")
    /\ IF rtc.magic /\ rtc.sequence < MaxSequence
       THEN /\ thread' = [thread EXCEPT ![t].at = "store_session",
                                        ![t].session = rtc.session,
                                        ![t].sequence = Resume(rtc.sequence)]
            /\ UNCHANGED sessions
       ELSE /\ DrawSession
            /\ thread' = [thread EXCEPT ![t].at = "store_session",
                                        ![t].session = sessions',
                                        ![t].sequence = 0]
    /\ rtc' = [rtc EXCEPT !.magic = TRUE]
    /\ UNCHANGED <<initialized, session, sequence, issued, twice>>

StoreSession(t) ==
    /\ At(t, "store_session")
    /\ session' = thread[t].session
    /\ Goto(t, "store_sequence")
    /\ UNCHANGED <<initialized, sequence, rtc, sessions, issued, twice>>

StoreSequence(t) ==
    /\ At(t, "store_sequence")
    /\ sequence' = thread[t].sequence
    /\ Goto(t, "save_session")
    /\ UNCHANGED <<initialized, session, rtc, sessions, issued, twice>>

SaveSession(t) ==
    /\ At(t, "save_session")
    /\ rtc' = [rtc EXCEPT !.session = thread[t].session]
    /\ Goto(t, "save_sequence")
    /\ UNCHANGED <<initialized, session, sequence, sessions, issued, twice>>

SaveSequence(t) ==
    /\ At(t, "save_sequence")
    /\ rtc' = [rtc EXCEPT !.sequence = thread[t].sequence]
    /\ Goto(t, AfterInit(thread[t].op))
    /\ UNCHANGED <<initialized, session, sequence, sessions, issued, twice>>
-----------------------------------------------------------------------------
\* fetch_add, which wraps.
Take(t) ==
    /\ At(t, "take")
    /\ sequence' = (sequence + 1) % Modulus
    /\ thread' = [thread EXCEPT ![t].at = "load", ![t].sequence = sequence]
    /\ UNCHANGED <<initialized, session, rtc, sessions, issued, twice>>

\* The checkpoint test of next_packet_id; next_packet_id_64 has none.
Due(l) == l.op = "next" /\ l.sequence % PersistEvery = 0

AfterNumber(l) == IF Due(l) THEN "checkpoint_session" ELSE "return"

Load(t) ==
    /\ At(t, "load")
    /\ thread' = [thread EXCEPT
                     ![t].session = session,
                     ![t].at = IF thread[t].sequence >= MaxSequence
                               THEN "new_session" ELSE AfterNumber(thread[t])]
    /\ UNCHANGED <<initialized, session, sequence, rtc, sessions, issued, twice>>

(***************************************************************************)
(* rotate_session_internal, alone or inside the drawing of a number, which *)
(* then goes on with the session and the sequence number it had.           *)
(***************************************************************************)
NewSession(t) ==
    /\ At(t, "new_session")
    /\ DrawSession
    /\ session' = sessions'
    /\ thread' = [thread EXCEPT ![t].at = "new_sequence", ![t].fresh = sessions']
    /\ UNCHANGED <<initialized, sequence, rtc, issued, twice>>

NewSequence(t) ==
    /\ At(t, "new_sequence")
    /\ sequence' = 0
    /\ Goto(t, "save_new_session")
    /\ UNCHANGED <<initialized, session, rtc, sessions, issued, twice>>

SaveNewSession(t) ==
    /\ At(t, "save_new_session")
    /\ rtc' = [rtc EXCEPT !.session = thread[t].fresh]
    /\ Goto(t, "save_new_sequence")
    /\ UNCHANGED <<initialized, session, sequence, sessions, issued, twice>>

SaveNewSequence(t) ==
    /\ At(t, "save_new_sequence")
    /\ rtc' = [rtc EXCEPT !.sequence = 0]
    /\ Goto(t, IF thread[t].op = "rotate" THEN "idle" ELSE AfterNumber(thread[t]))
    /\ UNCHANGED <<initialized, session, sequence, sessions, issued, twice>>
-----------------------------------------------------------------------------
CheckpointSession(t) ==
    /\ At(t, "checkpoint_session")
    /\ rtc' = [rtc EXCEPT !.session = thread[t].session]
    /\ Goto(t, "checkpoint_sequence")
    /\ UNCHANGED <<initialized, session, sequence, sessions, issued, twice>>

CheckpointSequence(t) ==
    /\ At(t, "checkpoint_sequence")
    /\ rtc' = [rtc EXCEPT !.sequence = thread[t].sequence]
    /\ Goto(t, "return")
    /\ UNCHANGED <<initialized, session, sequence, sessions, issued, twice>>

\* What the caller gets: a word of 32 bits, or next_packet_id_64's of 64 bits,
\* in which the sequence number stands as it is.
Identifier(i) == IF i[3] = "next" THEN PacketIdOf(i[1], i[2]) ELSE i[2]

Return(t) ==
    LET new == <<thread[t].session, thread[t].sequence, thread[t].op>>
    IN  /\ At(t, "return")
        /\ issued' = issued \cup {new}
        /\ twice' = (twice \/ \E i \in issued :
                        /\ i[1] = new[1] /\ i[3] = new[3]
                        /\ Identifier(i) = Identifier(new))
        /\ Goto(t, "idle")
        /\ UNCHANGED <<initialized, session, sequence, rtc, sessions>>

\* invalidate_rtc, which looks at nothing.
InvalidateRtc(t) ==
    /\ At(t, "idle")
    /\ rtc' = [rtc EXCEPT !.magic = FALSE]
    /\ UNCHANGED <<initialized, session, sequence, thread, sessions, issued, twice>>
-----------------------------------------------------------------------------
\* A wake-up from deep sleep or a reset: the statics are new, RTC memory is not.
Reset ==
    /\ initialized' = FALSE
    /\ session' = 0
    /\ sequence' = 0
    /\ thread' = AtRest
    /\ UNCHANGED <<rtc, sessions, issued, twice>>

PowerLoss ==
    /\ initialized' = FALSE
    /\ session' = 0
    /\ sequence' = 0
    /\ thread' = AtRest
    /\ DrawSession
    /\ \E noise \in Sequences :
          rtc' = [magic |-> FALSE, session |-> sessions', sequence |-> noise]
    /\ UNCHANGED <<issued, twice>>

ThreadStep(t) ==
    \/ \E op \in Operations : Call(t, op)
    \/ Recover(t)
    \/ StoreSession(t)
    \/ StoreSequence(t)
    \/ SaveSession(t)
    \/ SaveSequence(t)
    \/ Take(t)
    \/ Load(t)
    \/ NewSession(t)
    \/ NewSequence(t)
    \/ SaveNewSession(t)
    \/ SaveNewSequence(t)
    \/ CheckpointSession(t)
    \/ CheckpointSequence(t)
    \/ Return(t)
    \/ InvalidateRtc(t)

Next == Reset \/ PowerLoss \/ \E t \in Threads : ThreadStep(t)

Spec == Init /\ [][Next]_vars
-----------------------------------------------------------------------------
(***************************************************************************)
(* No session returns one identifier twice, whatever resets, power losses  *)
(* and rotations come between or within the calls ("Duplicate ID",         *)
(* packet_id.rs:376).  Holds for one thread that uses next_packet_id and   *)
(* rotate_session.  Of two sessions it says nothing: their identifiers,    *)
(* 32 bits mixed of both numbers, may be the same.                         *)
(***************************************************************************)
UniqueIds == ~ twice

(***************************************************************************)
(* The checkpoint in RTC memory is never so old that the numbers used      *)
(* since reach beyond the skip a wake-up makes.                            *)
(***************************************************************************)
CheckpointCovers ==
    \A id \in issued : id[1] = rtc.session =>
        id[2] < rtc.sequence + WakeSkip /\ id[2] < MaxSequence
=============================================================================

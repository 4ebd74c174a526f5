------------------------------ MODULE AckTracker ------------------------------
(***************************************************************************)
(* AckTracker of meshtastic/packet.rs: messages that are transmitted again *)
(* until they are acknowledged or given up.  Who polls it and who answers  *)
(* is not in the repository: the clock ticks, get_retransmit is called now *)
(* and then, and an acknowledgement of what was sent comes at any time, or *)
(* never, or twice.  Each identifier is sent to one node, once.            *)
(***************************************************************************)
EXTENDS Integers, FiniteSets

CONSTANTS
    MessageIds,
    AckSlots,       \* 8 in the code
    MaxRetransmit,  \* max_retransmit: transmissions of a message in all
    AckTimeout,     \* retransmit_timeout
    AckClockEnd     \* the last value of the clock, 2^32 - 1 in the code

ASSUME AckAssumption ==
    /\ 0 \notin MessageIds
    /\ AckSlots \in Nat /\ MaxRetransmit \in Nat \ {0}
    /\ AckTimeout \in Nat /\ AckClockEnd \in Nat

VARIABLES
    ackClock,
    pending,        \* the slots
    tries,          \* history: transmissions of each message
    answered        \* history: the messages whose acknowledgement was handled

ackVars == <<ackClock, pending, tries, answered>>

NoAck == [id |-> 0, count |-> 0, last |-> 0]

AckInit ==
    /\ ackClock = 0
    /\ pending = [i \in 1 .. AckSlots |-> NoAck]
    /\ tries = [id \in MessageIds |-> 0]
    /\ answered = {}

First(slots) == CHOOSE i \in slots : \A j \in slots : i <= j
-----------------------------------------------------------------------------
\* A message is sent and added: without a free slot it is not repeated.
SendReliably(id) ==
    LET free == {i \in 1 .. AckSlots : pending[i] = NoAck}
    IN  /\ tries[id] = 0
        /\ tries' = [tries EXCEPT ![id] = 1]
        /\ pending' = IF free = {} THEN pending
                      ELSE [pending EXCEPT ![First(free)] =
                                [id |-> id, count |-> 1, last |-> ackClock]]
        /\ UNCHANGED <<ackClock, answered>>

WaitingFor(id) == {i \in 1 .. AckSlots : pending[i].id = id}

\* handle_ack
HandleAck(id) ==
    /\ tries[id] > 0 /\ WaitingFor(id) # {}
    /\ pending' = [pending EXCEPT ![First(WaitingFor(id))] = NoAck]
    /\ answered' = answered \cup {id}
    /\ UNCHANGED <<ackClock, tries>>

\* The time since the last transmission, by saturating_sub: after the clock has
\* wrapped it is 0 until the clock is past the transmission again.
Elapsed(s) == IF ackClock > s.last THEN ackClock - s.last ELSE 0

Due(i) == pending[i] # NoAck /\ Elapsed(pending[i]) >= AckTimeout

\* The bug of one transmission too many.
SpentLate(i) == pending[i].count > MaxRetransmit

Spent(i) == pending[i].count >= MaxRetransmit

Again(s) == [id |-> s.id, count |-> s.count + 1, last |-> ackClock]

\* The bug of a message that is never given up.
RepeatedForever(i, first) ==
    IF i = first THEN Again(pending[i]) ELSE pending[i]

\* A slot after get_retransmit: those that are due and spent are given up on the
\* way to the first that is due and not spent.
Repeated(i, first) ==
    IF i < first /\ Due(i) THEN NoAck
    ELSE IF i = first THEN Again(pending[i])
    ELSE pending[i]

\* get_retransmit
GetRetransmit ==
    LET again == {i \in 1 .. AckSlots : Due(i) /\ ~Spent(i)}
        first == IF again = {} THEN AckSlots + 1 ELSE First(again)
    IN  /\ \E i \in 1 .. AckSlots : Due(i)
        /\ pending' = [i \in 1 .. AckSlots |-> Repeated(i, first)]
        /\ tries' = IF again = {} THEN tries ELSE [tries EXCEPT ![pending[first].id] = @ + 1]
        /\ UNCHANGED <<ackClock, answered>>

AckTick ==
    /\ ackClock' = IF ackClock = AckClockEnd THEN 0 ELSE ackClock + 1
    /\ UNCHANGED <<pending, tries, answered>>

AckNext ==
    \/ \E id \in MessageIds : SendReliably(id) \/ HandleAck(id)
    \/ GetRetransmit
    \/ AckTick

AckSpec == AckInit /\ [][AckNext]_ackVars
-----------------------------------------------------------------------------
\* The types of the tracker's state.
AckTypeOK ==
    /\ ackClock \in 0 .. AckClockEnd
    /\ \A i \in 1 .. AckSlots : pending[i] = NoAck \/ pending[i].id \in MessageIds
    /\ answered \subseteq MessageIds

\* A message is transmitted MaxRetransmit times at most, and none more once its
\* acknowledgement was handled; a message that waits has not been answered.
TriesAreBounded ==
    /\ \A id \in MessageIds : tries[id] <= MaxRetransmit
    /\ \A i \in 1 .. AckSlots : pending[i].id \notin answered

\* Slot i holds a message whose timeout does not run past the end of the clock.
Waits(i, id) ==
    pending[i].id = id /\ pending[i].last + AckTimeout <= AckClockEnd

\* A message is acknowledged or given up in the end, unless it was transmitted
\* within a timeout of the end of the clock: then saturating_sub never sees the
\* timeout and the message keeps its slot (get_retransmit).
AcksSettle ==
    \A i \in 1 .. AckSlots, id \in MessageIds :
        [](pending[i].id = id => <>(pending[i].id # id \/ ~Waits(i, id)))
=============================================================================

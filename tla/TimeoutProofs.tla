---------------------------- MODULE TimeoutProofs ----------------------------
(***************************************************************************)
(* Two timeouts over a clock that wraps: the supervision of a session      *)
(* (IdleSession) and the repetition of messages nobody has acknowledged    *)
(* (AckTracker).                                                           *)
(***************************************************************************)
EXTENDS IdleSession, AckTracker, FiniteSetTheorems, WellFoundedInduction, TLAPS

(***************************************************************************)
(* A session ends for one of the named reasons, whatever the width of the  *)
(* clock and the timeouts.  The inductive invariant ties the two readings  *)
(* of the clock to the number of ticks that have passed since them.        *)
(***************************************************************************)
\* The wrapping clock, d ticks after it showed t.
After(t, d) == IF t + d < Modulus THEN t + d ELSE t + d - Modulus

ClockInv ==
    /\ clock = After(now, elapsed)
    /\ silent <= IdleTicks => clock = After(last_serial_rx, silent)

IInv == IdleTypeOK /\ ClockInv

LEMMA NextTick ==
    ASSUME TimesAssumption, NEW c \in Times
    PROVE  ((c + 1) % Modulus) = IF c + 1 < Modulus THEN c + 1 ELSE 0
<1>1. Modulus \in Nat \ {0} /\ c \in Nat /\ c < Modulus
  BY DEF TimesAssumption, Times
<1> DEFINE m == (c + 1) % Modulus
           d == (c + 1) \div Modulus
<1>2. d \in Nat /\ m \in Nat /\ m < Modulus /\ c + 1 = Modulus * d + m
  BY <1>1
<1>3. CASE d = 0
  BY <1>1, <1>2, <1>3
<1>4. CASE d = 1
  BY <1>1, <1>2, <1>4
<1>5. CASE d >= 2
  <2>1. Modulus * d >= Modulus * 2
    BY <1>1, <1>2, <1>5
  <2> QED BY <1>1, <1>2, <2>1
<1> QED BY <1>2, <1>3, <1>4, <1>5

LEMMA InitIInv == TimesAssumption /\ IdleInit => IInv
<1> SUFFICES ASSUME TimesAssumption, IdleInit PROVE IInv
  OBVIOUS
<1>1. 0 \in Times /\ 0 \in 0 .. MaxBle /\ 0 \in 0 .. MaxIteration /\ 0 \in 0 .. IdleTicks + 1
  BY DEF TimesAssumption, Times
<1>2. IdleTypeOK
  BY <1>1 DEF IdleInit, IdleTypeOK
<1>3. ClockInv
  BY DEF TimesAssumption, IdleInit, ClockInv, After
<1> QED BY <1>2, <1>3 DEF IInv

LEMMA Inductive ==
    ASSUME TimesAssumption, IInv, [IdleNext]_idleVars
    PROVE  IInv'
<1> USE DEF IInv, IdleTypeOK, ClockInv, After, Times, TimesAssumption
<1>1. CASE Top
  BY <1>1 DEF Top
<1>2. ASSUME NEW attached \in BOOLEAN, Byte(attached)
      PROVE  IInv'
  BY <1>2 DEF Byte
<1>3. CASE EndDrain
  BY <1>3 DEF EndDrain
<1>4. CASE Supervision
  BY <1>4 DEF Supervision
<1>5. CASE Tick
  <2>1. clock' = IF clock + 1 < Modulus THEN clock + 1 ELSE 0
    BY <1>5, NextTick DEF Tick
  <2>2. clock' = After(now, elapsed + 1)
    BY <2>1
  <2>3. silent <= IdleTicks => clock' = After(last_serial_rx, silent + 1)
    BY <2>1
  <2>4. /\ pc' = pc /\ now' = now /\ last_serial_rx' = last_serial_rx
        /\ session' = session /\ ble_connections' = ble_connections
        /\ prev_ble_connections' = prev_ble_connections
        /\ elapsed < MaxIteration /\ elapsed' = elapsed + 1
        /\ silent' = (IF silent > IdleTicks THEN silent ELSE silent + 1)
    BY <1>5 DEF Tick
  <2> QED BY <2>1, <2>2, <2>3, <2>4
<1>6. CASE BleConnects
  BY <1>6 DEF BleConnects
<1>7. CASE BleDisconnects
  BY <1>7 DEF BleDisconnects
<1>8. CASE UNCHANGED idleVars
  BY <1>8 DEF idleVars
<1> QED BY <1>1, <1>2, <1>3, <1>4, <1>5, <1>6, <1>7, <1>8 DEF IdleNext, LoopStep

LEMMA InvariantHolds == IdleSpec => []IInv
<1>1. IdleInit => IInv
  BY TimesAssumption, InitIInv
<1>2. IInv /\ [IdleNext]_idleVars => IInv'
  BY TimesAssumption, Inductive
<1> QED BY <1>1, <1>2, PTL DEF IdleSpec

(***************************************************************************)
(* Unless the byte was late, the silence the supervision computes from its *)
(* two wrapping readings is no longer than the silence there was.          *)
(***************************************************************************)
LEMMA NoFalseSilence ==
    ASSUME TimesAssumption, IInv, ~ Late,
           NEW limit \in Nat, limit <= IdleTicks,
           Since(last_serial_rx) > limit
    PROVE  silent > limit
BY DEF TimesAssumption, IInv, IdleTypeOK, ClockInv, After, Times, Late, Since

(***************************************************************************)
(* The supervision ends a session only for a reason (main.rs, end of the   *)
(* main loop).                                                             *)
(***************************************************************************)
THEOREM SessionEndsForAReason == IdleSpec => EndsForAReason
<1> DEFINE Reason == /\ ble_connections = 0
                     /\ \/ silent > IdleTicks
                        \/ prev_ble_connections > 0 /\ silent > GraceTicks
                        \/ prev_ble_connections > 0 /\ last_serial_rx = 0
                        \/ Late
<1>1. IInv /\ [IdleNext]_idleVars => [EndsSession => Reason]_idleVars
  <2> SUFFICES ASSUME IInv, IdleNext, EndsSession
               PROVE  Reason
    BY DEF idleVars
  <2>1. Supervision
    BY DEF EndsSession, IdleNext, LoopStep, Top, EndDrain, Byte, Tick, BleConnects,
           BleDisconnects
  <2>2. SerialIdle \/ BleGone
    BY <2>1 DEF EndsSession, Supervision
  <2>3. IdleTicks \in Nat /\ GraceTicks \in Nat /\ GraceTicks <= IdleTicks
    BY TimesAssumption DEF TimesAssumption
  <2>4. CASE SerialIdle
    BY <2>3, <2>4, TimesAssumption, NoFalseSilence DEF SerialIdle
  <2>5. CASE BleGone
    BY <2>3, <2>5, TimesAssumption, NoFalseSilence DEF BleGone
  <2> QED BY <2>2, <2>4, <2>5
<1> QED BY <1>1, InvariantHolds, PTL DEF IdleSpec, EndsForAReason
-----------------------------------------------------------------------------
AckSlot == {NoAck} \cup [id : MessageIds, count : Nat, last : Nat]

AckTyped ==
    /\ ackClock \in Nat
    /\ pending \in [1 .. AckSlots -> AckSlot]
    /\ tries \in [MessageIds -> Nat]
    /\ answered \subseteq MessageIds

\* A slot counts the transmissions of its message, which has no other slot and
\* no answer: so that what get_retransmit compares is what was transmitted.
CountsAreTrue ==
    /\ \A i \in 1 .. AckSlots :
          pending[i] # NoAck =>
              /\ pending[i].count = tries[pending[i].id] /\ pending[i].count > 0
              /\ pending[i].id \notin answered
    /\ \A i, j \in 1 .. AckSlots :
          pending[i] # NoAck /\ pending[i].id = pending[j].id => i = j

AckInv ==
    /\ AckTyped /\ CountsAreTrue
    /\ \A id \in MessageIds : tries[id] <= MaxRetransmit
    /\ \A id \in answered : tries[id] > 0

\* First finds the lowest of any set of slots that is not empty.
LEMMA FirstIsLowest ==
    ASSUME NEW slots, slots \subseteq 1 .. AckSlots, slots # {}, AckAssumption
    PROVE  First(slots) \in slots /\ \A j \in slots : First(slots) <= j
<1>1. slots \subseteq Nat
  BY DEF AckAssumption
<1>2. PICK i \in slots : \A j \in slots : ~ (<<j, i>> \in OpToRel(<, Nat))
  BY <1>1, WFMin, NatLessThanWellFounded
<1>3. \A j \in slots : i <= j
  <2> TAKE j \in slots
  <2>1. ~ (j < i)
    BY <1>1, <1>2 DEF OpToRel
  <2> QED BY <1>1, <2>1
<1> QED BY <1>3 DEF First

\* A slot that is taken has the identifier of a message, one that is free has 0.
LEMMA TakenSlots ==
    ASSUME AckAssumption, AckTyped, NEW i \in 1 .. AckSlots
    PROVE  /\ pending[i] # NoAck => /\ pending[i] \in [id : MessageIds, count : Nat, last : Nat]
                                    /\ pending[i].id \in MessageIds
                                    /\ pending[i].count \in Nat
           /\ pending[i] = NoAck => pending[i].id = 0 /\ pending[i].id \notin MessageIds
BY DEF AckAssumption, AckTyped, AckSlot, NoAck

LEMMA SendKeeps ==
    ASSUME AckAssumption, AckInv, NEW id \in MessageIds, SendReliably(id)
    PROVE  AckInv'
<1> DEFINE free == {i \in 1 .. AckSlots : pending[i] = NoAck}
           slot == [id |-> id, count |-> 1, last |-> ackClock]
<1>1. /\ tries[id] = 0 /\ tries' = [tries EXCEPT ![id] = 1]
      /\ pending' = IF free = {} THEN pending ELSE [pending EXCEPT ![First(free)] = slot]
      /\ ackClock' = ackClock /\ answered' = answered
  BY DEF SendReliably
<1>2. AckTyped /\ CountsAreTrue
  BY DEF AckInv
<1>3. slot \in [id : MessageIds, count : Nat, last : Nat] /\ slot # NoAck
  BY <1>2 DEF AckTyped, AckAssumption, NoAck
<1>4. id \notin answered /\ \A i \in 1 .. AckSlots : pending[i].id # id
  <2>1. id \notin answered
    BY <1>1 DEF AckInv
  <2>2. ASSUME NEW i \in 1 .. AckSlots PROVE pending[i].id # id
    <3>1. CASE pending[i] = NoAck
      BY <1>2, <3>1, TakenSlots
    <3>2. CASE pending[i] # NoAck
      BY <1>1, <1>2, <3>2, TakenSlots DEF CountsAreTrue
    <3> QED BY <3>1, <3>2
  <2> QED BY <2>1, <2>2
<1>5. /\ tries' \in [MessageIds -> Nat] /\ tries'[id] = 1
      /\ \A other \in MessageIds \ {id} : tries'[other] = tries[other]
  BY <1>1, <1>2 DEF AckTyped
<1>6. /\ \A m \in MessageIds : tries'[m] <= MaxRetransmit
      /\ \A m \in answered' : tries'[m] > 0
  BY <1>1, <1>4, <1>5 DEF AckInv, AckTyped, AckAssumption
<1>7. CASE free = {}
  <2>1. pending' = pending
    BY <1>1, <1>7
  <2>2. AckTyped'
    BY <1>1, <1>2, <1>5, <2>1 DEF AckTyped
  <2>3. CountsAreTrue'
    BY <1>1, <1>2, <1>4, <1>5, <2>1, TakenSlots DEF CountsAreTrue
  <2> QED BY <1>6, <2>2, <2>3 DEF AckInv
<1>8. CASE free # {}
  <2> DEFINE at == First(free)
  <2>1. at \in 1 .. AckSlots /\ pending[at] = NoAck
    BY <1>8, FirstIsLowest
  <2> HIDE DEF at, slot
  <2>2. /\ pending' = [pending EXCEPT ![at] = slot]
        /\ pending'[at] = slot
        /\ \A i \in 1 .. AckSlots : i # at => pending'[i] = pending[i]
    BY <1>1, <1>2, <1>8, <2>1 DEF AckTyped, at
  <2>3. slot.id = id /\ slot.count = 1
    BY DEF slot
  <2>4. AckTyped'
    BY <1>1, <1>2, <1>3, <1>5, <2>1, <2>2 DEF AckTyped, AckSlot
  <2>5. ASSUME NEW i \in 1 .. AckSlots, pending'[i] # NoAck
        PROVE  /\ pending'[i].count = tries'[pending'[i].id] /\ pending'[i].count > 0
               /\ pending'[i].id \notin answered'
    <3>1. CASE i = at
      BY <1>1, <1>4, <1>5, <2>2, <2>3, <3>1
    <3>2. CASE i # at
      <4>1. pending'[i] = pending[i]
        BY <2>2, <3>2
      <4> QED BY <1>1, <1>2, <1>4, <1>5, <2>5, <4>1, TakenSlots DEF CountsAreTrue
    <3> QED BY <3>1, <3>2
  <2>6. ASSUME NEW i \in 1 .. AckSlots, NEW j \in 1 .. AckSlots,
               pending'[i] # NoAck, pending'[i].id = pending'[j].id
        PROVE  i = j
    BY <1>2, <1>4, <2>2, <2>3, <2>6 DEF CountsAreTrue
  <2>7. CountsAreTrue'
    BY <2>5, <2>6 DEF CountsAreTrue
  <2> QED BY <1>6, <2>4, <2>7 DEF AckInv
<1> QED BY <1>7, <1>8

LEMMA AnswerKeeps ==
    ASSUME AckAssumption, AckInv, NEW id \in MessageIds, HandleAck(id)
    PROVE  AckInv'
<1> DEFINE at == First(WaitingFor(id))
<1>1. /\ tries[id] > 0 /\ WaitingFor(id) # {}
      /\ pending' = [pending EXCEPT ![at] = NoAck]
      /\ answered' = answered \cup {id} /\ ackClock' = ackClock /\ tries' = tries
  BY DEF HandleAck
<1>2. AckTyped /\ CountsAreTrue
  BY DEF AckInv
<1>3. at \in 1 .. AckSlots /\ pending[at].id = id
  BY <1>1, FirstIsLowest DEF WaitingFor
<1> HIDE DEF at
<1>4. pending[at] # NoAck
  BY <1>2, <1>3, TakenSlots
<1>5. /\ pending'[at] = NoAck
      /\ \A i \in 1 .. AckSlots : i # at => pending'[i] = pending[i]
      /\ \A i \in 1 .. AckSlots : pending'[i] # NoAck => i # at
  BY <1>1, <1>2, <1>3 DEF AckTyped
<1>6. AckTyped'
  BY <1>1, <1>2, <1>3 DEF AckTyped, AckSlot
<1>7. ASSUME NEW i \in 1 .. AckSlots, pending'[i] # NoAck
      PROVE  /\ pending'[i].count = tries'[pending'[i].id] /\ pending'[i].count > 0
             /\ pending'[i].id \notin answered'
  <2>1. i # at /\ pending'[i] = pending[i] /\ pending[i] # NoAck
    BY <1>5, <1>7
  <2>2. pending[i].id # id
    BY <1>2, <1>3, <2>1 DEF CountsAreTrue
  <2> QED BY <1>1, <1>2, <2>1, <2>2 DEF CountsAreTrue
<1>8. ASSUME NEW i \in 1 .. AckSlots, NEW j \in 1 .. AckSlots,
             pending'[i] # NoAck, pending'[i].id = pending'[j].id
      PROVE  i = j
  <2>1. i # at /\ pending'[i] = pending[i] /\ pending[i] # NoAck
    BY <1>5, <1>8
  <2>2. CASE j = at
    BY <1>2, <1>5, <1>8, <2>1, <2>2, TakenSlots DEF NoAck, AckAssumption
  <2>3. CASE j # at
    BY <1>2, <1>5, <1>8, <2>1, <2>3 DEF CountsAreTrue
  <2> QED BY <2>2, <2>3
<1>9. CountsAreTrue'
  BY <1>7, <1>8 DEF CountsAreTrue
<1> QED BY <1>1, <1>6, <1>9 DEF AckInv

\* get_retransmit changes a slot that is not the first it looks for only to free it.
LEMMA OthersStay ==
    ASSUME NEW i, NEW first, i # first
    PROVE  Repeated(i, first) \in {pending[i], NoAck}
BY DEF Repeated

LEMMA RepeatKeeps ==
    ASSUME AckAssumption, AckInv, GetRetransmit
    PROVE  AckInv'
<1> DEFINE again == {i \in 1 .. AckSlots : Due(i) /\ ~Spent(i)}
           first == IF again = {} THEN AckSlots + 1 ELSE First(again)
<1>1. /\ pending' = [i \in 1 .. AckSlots |-> Repeated(i, first)]
      /\ tries' = IF again = {} THEN tries ELSE [tries EXCEPT ![pending[first].id] = @ + 1]
      /\ ackClock' = ackClock /\ answered' = answered
  BY DEF GetRetransmit
<1>2. AckTyped /\ CountsAreTrue
  BY DEF AckInv
<1>3. CASE again = {}
  <2>1. first = AckSlots + 1 /\ tries' = tries
    BY <1>1, <1>3
  <2> HIDE DEF first
  <2>2. \A i \in 1 .. AckSlots : pending'[i] \in {pending[i], NoAck}
    BY <1>1, <2>1, OthersStay DEF AckAssumption
  <2>3. AckTyped'
    <3>1. pending' \in [1 .. AckSlots -> AckSlot]
      <4>1. \A i \in 1 .. AckSlots : pending[i] \in AckSlot
        BY <1>2 DEF AckTyped
      <4>2. NoAck \in AckSlot
        BY DEF AckSlot
      <4>3. \A i \in 1 .. AckSlots : Repeated(i, first) \in AckSlot
        BY <1>1, <2>2, <4>1, <4>2
      <4> QED BY <1>1, <4>3
    <3> QED BY <1>1, <1>2, <2>1, <3>1 DEF AckTyped
  <2>4. CountsAreTrue'
    <3>1. ASSUME NEW i \in 1 .. AckSlots, pending'[i] # NoAck PROVE pending'[i] = pending[i]
      BY <2>2, <3>1
    <3>2. ASSUME NEW i \in 1 .. AckSlots, NEW j \in 1 .. AckSlots,
                 pending'[i] # NoAck, pending'[i].id = pending'[j].id
          PROVE  i = j
      <4>1. pending'[j] # NoAck
        BY <1>2, <3>1, <3>2, TakenSlots DEF NoAck, AckAssumption
      <4> QED BY <1>2, <3>1, <3>2, <4>1 DEF CountsAreTrue
    <3> QED BY <1>1, <1>2, <2>1, <3>1, <3>2 DEF CountsAreTrue
  <2> QED BY <1>1, <2>1, <2>3, <2>4 DEF AckInv
<1>4. CASE again # {}
  <2>1. first \in 1 .. AckSlots /\ Due(first) /\ ~Spent(first)
    BY <1>4, FirstIsLowest
  <2>2. tries' = [tries EXCEPT ![pending[first].id] = @ + 1]
    BY <1>1, <1>4
  <2> HIDE DEF first
  <2> DEFINE slot == Again(pending[first])
             m == pending[first].id
  <2>3. /\ pending[first] # NoAck /\ m \in MessageIds /\ m \notin answered
        /\ pending[first].count \in Nat /\ pending[first].count = tries[m]
        /\ pending[first].count < MaxRetransmit
        /\ pending[first] \in [id : MessageIds, count : Nat, last : Nat]
    BY <1>2, <2>1, TakenSlots DEF Due, Spent, CountsAreTrue, AckAssumption
  <2>4. /\ slot.id = m /\ slot.count = tries[m] + 1
        /\ slot \in [id : MessageIds, count : Nat, last : Nat]
    BY <1>2, <2>3 DEF AckTyped, Again
  <2>5. /\ tries' \in [MessageIds -> Nat] /\ tries'[m] = tries[m] + 1
        /\ \A other \in MessageIds \ {m} : tries'[other] = tries[other]
    BY <1>2, <2>2, <2>3 DEF AckTyped
  <2>6. /\ pending'[first] = slot
        /\ \A i \in 1 .. AckSlots : i # first => pending'[i] \in {pending[i], NoAck}
    <3>1. Repeated(first, first) = slot
      BY <2>1 DEF Repeated, AckAssumption
    <3> QED BY <1>1, <2>1, <3>1, OthersStay
  <2> HIDE DEF slot, m
  <2>7. AckTyped'
    <3>1. \A i \in 1 .. AckSlots : pending[i] \in AckSlot
      BY <1>2 DEF AckTyped
    <3>2. NoAck \in AckSlot /\ slot \in AckSlot
      BY <2>4 DEF AckSlot
    <3>3. \A i \in 1 .. AckSlots : pending'[i] \in AckSlot
      BY <2>6, <3>1, <3>2
    <3>4. pending' \in [1 .. AckSlots -> AckSlot]
      BY <1>1, <3>3
    <3> QED BY <1>1, <1>2, <2>5, <3>4 DEF AckTyped
  <2>8. ASSUME NEW i \in 1 .. AckSlots, i # first, pending'[i] # NoAck
        PROVE  /\ pending'[i] = pending[i] /\ pending[i].id # m
               /\ pending[i].id \in MessageIds /\ pending[i] # NoAck
    <3>1. pending'[i] = pending[i]
      BY <2>6, <2>8
    <3>2. pending[i].id # m
      BY <1>2, <2>1, <2>8, <3>1 DEF CountsAreTrue, m
    <3> QED BY <1>2, <2>8, <3>1, <3>2, TakenSlots
  <2>9. ASSUME NEW i \in 1 .. AckSlots, pending'[i] # NoAck
        PROVE  /\ pending'[i].count = tries'[pending'[i].id] /\ pending'[i].count > 0
               /\ pending'[i].id \notin answered'
    <3>1. CASE i = first
      <4>1. pending'[i].id = m /\ pending'[i].count = tries[m] + 1 /\ tries[m] \in Nat
        BY <2>3, <2>4, <2>6, <3>1
      <4>2. m \notin answered'
        BY <1>1, <2>3
      <4> QED BY <2>5, <4>1, <4>2
    <3>2. CASE i # first
      BY <1>1, <1>2, <2>5, <2>8, <2>9, <3>2 DEF CountsAreTrue
    <3> QED BY <3>1, <3>2
  <2>10. ASSUME NEW i \in 1 .. AckSlots, NEW j \in 1 .. AckSlots,
                pending'[i] # NoAck, pending'[i].id = pending'[j].id
         PROVE  i = j
    <3>1. pending'[i].id \in MessageIds
      BY <2>3, <2>4, <2>6, <2>8, <2>10
    <3>2. pending'[j] # NoAck
      BY <2>10, <3>1 DEF NoAck, AckAssumption
    <3>3. CASE i = first \/ j = first
      BY <2>4, <2>6, <2>8, <2>10, <3>2, <3>3
    <3>4. CASE i # first /\ j # first
      BY <1>2, <2>8, <2>10, <3>2, <3>4 DEF CountsAreTrue
    <3> QED BY <3>3, <3>4
  <2>11. CountsAreTrue'
    BY <2>9, <2>10 DEF CountsAreTrue
  <2>12. \A id \in MessageIds : tries'[id] <= MaxRetransmit
    BY <2>3, <2>5 DEF AckInv, AckAssumption
  <2>13. \A id \in answered' : tries'[id] > 0
    BY <1>1, <1>2, <2>3, <2>5 DEF AckInv, AckTyped
  <2> QED BY <2>7, <2>11, <2>12, <2>13 DEF AckInv
<1> QED BY <1>3, <1>4

LEMMA InitAckInv == AckAssumption /\ AckInit => AckInv
BY DEF AckAssumption, AckInit, AckInv, AckTyped, AckSlot, CountsAreTrue

LEMMA NextAckInv == AckAssumption /\ AckInv /\ [AckNext]_ackVars => AckInv'
<1> SUFFICES ASSUME AckAssumption, AckInv, [AckNext]_ackVars PROVE AckInv'
  OBVIOUS
<1>1. CASE UNCHANGED ackVars
  BY <1>1 DEF AckInv, AckTyped, CountsAreTrue, ackVars
<1>2. CASE AckTick
  <2>1. ackClock' \in Nat /\ pending' = pending /\ tries' = tries /\ answered' = answered
    BY <1>2 DEF AckTick, AckInv, AckTyped
  <2> QED BY <2>1 DEF AckInv, AckTyped, CountsAreTrue
<1> QED BY <1>1, <1>2, SendKeeps, AnswerKeeps, RepeatKeeps DEF AckNext

LEMMA BoundFollows == AckAssumption /\ AckInv => TriesAreBounded
<1> SUFFICES ASSUME AckAssumption, AckInv, NEW i \in 1 .. AckSlots
             PROVE  pending[i].id \notin answered
  BY DEF AckInv, TriesAreBounded
<1> QED BY TakenSlots DEF AckInv, AckTyped, CountsAreTrue

\* For any number of slots and of transmissions: no message is transmitted more
\* often than max_retransmit, and none that was acknowledged waits to be
\* (get_retransmit, handle_ack).
THEOREM RepeatsAreBounded == AckSpec => []TriesAreBounded
<1>1. AckAssumption
  BY AckAssumption
<1> QED BY <1>1, InitAckInv, NextAckInv, BoundFollows, PTL DEF AckSpec
=============================================================================

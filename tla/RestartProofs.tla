---------------------------- MODULE RestartProofs -----------------------------
(***************************************************************************)
(* What survives a restart, for every value of the constants: the packet   *)
(* identifiers of packet_id.rs, the identity of main.rs and identity.rs,   *)
(* the firmware of ota.rs, the stores of contacts and sessions, and what a *)
(* sleep of power.rs leaves true of the chip; at the end the composition   *)
(* of the five.                                                            *)
(*                                                                         *)
(* Packet identifiers, for every counter width, checkpoint interval, skip  *)
(* and mix that is one to one within a session, for a program with one     *)
(* thread that does not use next_packet_id_64: UniqueIds is not inductive, *)
(* IInv adds what each program point knows of the identifiers issued so    *)
(* far, of the counter and of the checkpoint.  IdentityInv and OtaInv,     *)
(* further down, add what each step of the boot and of an update relies    *)
(* on, PowerInv how the chip is armed, StoresInv how far a save or a load  *)
(* has come.                                                               *)
(***************************************************************************)
EXTENDS Restarts, FiniteSetTheorems, WellFoundedInduction, TLAPS

OneThread == \A t, u \in Threads : t = u
NoNonces  == "next64" \notin Operations

\* All the identifiers of session s so far are below n; there are none.
Below(s, n) == \A id \in issued : id[1] = s => id[2] < n
Unused(s)   == \A id \in issued : id[1] # s

\* No checkpoint is due between r and n, other than at n itself.
Spaced(r, n) ==
    \E k \in 0 .. r : n <= k + PersistEvery /\ (k + PersistEvery) % PersistEvery = 0

\* The counter stands at n, within reach of the checkpoint.
Current(n) ==
    /\ session = rtc.session
    /\ rtc.sequence <= n
    /\ Below(session, n)

SessionsDrawn ==
    /\ session <= sessions
    /\ rtc.session <= sessions
    /\ \A id \in issued : id[1] <= sessions
    /\ \A t \in Threads : thread[t].session <= sessions /\ thread[t].fresh <= sessions

Recovering(l) ==
    /\ l.at \in {"store_session", "store_sequence", "save_session"} =>
          /\ Below(l.session, l.sequence)
          /\ l.session = rtc.session \/ Unused(l.session)
    /\ l.at \in {"store_sequence", "save_session", "save_sequence"} =>
          session = l.session
    /\ l.at \in {"save_session", "save_sequence"} => sequence = l.sequence
    /\ l.at = "save_sequence" =>
          rtc.session = l.session /\ Below(l.session, l.sequence)

Drawing(l) ==
    /\ l.at \in {"take", "load", "checkpoint_session", "checkpoint_sequence",
                "return"} => l.op = "next"
    /\ initialized /\ l.at \in {"idle", "take"} =>
          Current(sequence) /\ Spaced(rtc.sequence, sequence)
    /\ l.at = "load" =>
          /\ Current(l.sequence) /\ Spaced(rtc.sequence, l.sequence)
          /\ sequence = (l.sequence + 1) % Modulus
    /\ l.at \in {"checkpoint_session", "checkpoint_sequence"} =>
          /\ Current(l.sequence) /\ l.session = session
          /\ l.sequence < MaxSequence /\ sequence = l.sequence + 1
    /\ l.at = "return" =>
          \/ /\ Current(l.sequence) /\ l.session = session
             /\ l.sequence < MaxSequence /\ sequence = l.sequence + 1
             /\ Spaced(rtc.sequence, l.sequence + 1)
          \/ /\ l.session # session /\ Below(l.session, l.sequence)
             /\ Unused(session) /\ rtc.session = session
             /\ sequence = 0 /\ rtc.sequence = 0

Rotating(l) ==
    /\ l.at \in {"new_session", "new_sequence", "save_new_session",
                 "save_new_sequence"} /\ l.op = "next" =>
          l.sequence >= MaxSequence /\ Below(l.session, l.sequence)
    /\ l.at \in {"new_sequence", "save_new_session", "save_new_sequence"} =>
          /\ session = l.fresh /\ Unused(session)
          /\ l.op = "next" => l.session # session
    /\ l.at \in {"save_new_session", "save_new_sequence"} => sequence = 0
    /\ l.at = "save_new_sequence" => rtc.session = session

Point(l) ==
    /\ l.op # "next64"
    /\ ~ initialized => l.at = "idle"
    /\ Recovering(l)
    /\ Drawing(l)
    /\ Rotating(l)

IInv ==
    /\ TypeOK
    /\ UniqueIds
    /\ CheckpointCovers
    /\ SessionsDrawn
    /\ \A t \in Threads : Point(thread[t])

\* IInv but for the types, when t is the only thread.
Held(t) ==
    /\ UniqueIds
    /\ CheckpointCovers
    /\ session <= sessions
    /\ rtc.session <= sessions
    /\ \A id \in issued : id[1] <= sessions
    /\ thread[t].session <= sessions
    /\ thread[t].fresh <= sessions
    /\ Point(thread[t])

LEMMA MultipleMod ==
    ASSUME NEW p \in Nat \ {0}, NEW q \in Nat
    PROVE  (p * q) % p = 0
<1> DEFINE m == (p * q) % p
           d == (p * q) \div p
<1>1. p * q \in Nat /\ d \in Nat /\ m \in Nat /\ m < p /\ p * q = p * d + m
  OBVIOUS
<1>2. m = p * (q - d)
  BY <1>1
<1>3. CASE q - d >= 1
  <2>1. p * (q - d) >= p
    BY <1>1, <1>3
  <2> QED BY <1>1, <1>2, <2>1
<1>4. CASE q - d <= -1
  <2>1. p * (q - d) <= -p
    BY <1>1, <1>4
  <2> QED BY <1>1, <1>2, <2>1
<1>5. CASE q - d = 0
  BY <1>1, <1>2, <1>5
<1> QED BY <1>1, <1>3, <1>4, <1>5
-----------------------------------------------------------------------------
\* Any number has a multiple of the interval at or just below it.
LEMMA SpacedAt ==
    ASSUME CounterAssumption, NEW n \in Nat
    PROVE  Spaced(n, n) /\ Spaced(n, n + 1)
<1> DEFINE q == n \div PersistEvery
           k == PersistEvery * q
<1>1. PersistEvery \in Nat \ {0} /\ q \in Nat
  BY CounterAssumption DEF CounterAssumption
<1>2. n = k + (n % PersistEvery) /\ (n % PersistEvery) \in 0 .. PersistEvery - 1
  BY <1>1
<1>3. k \in 0 .. n /\ n + 1 <= k + PersistEvery
  BY <1>1, <1>2
<1>4. k + PersistEvery = PersistEvery * (q + 1)
  BY <1>1
<1>5. (k + PersistEvery) % PersistEvery = 0
  BY <1>1, <1>4, MultipleMod
<1>6. n <= k + PersistEvery
  BY <1>1, <1>3
<1> HIDE DEF k, q
<1> QED BY <1>1, <1>3, <1>5, <1>6 DEF Spaced

\* A number that is not due leaves the next one within reach.
LEMMA SpacedNext ==
    ASSUME CounterAssumption, NEW r \in Nat, NEW n \in Nat,
           Spaced(r, n), n % PersistEvery # 0
    PROVE  Spaced(r, n + 1)
<1>1. PICK k \in 0 .. r : n <= k + PersistEvery /\ (k + PersistEvery) % PersistEvery = 0
  BY DEF Spaced
<1>2. n # k + PersistEvery
  BY <1>1
<1>3. n + 1 <= k + PersistEvery
  BY <1>1, <1>2, CounterAssumption DEF CounterAssumption
<1> QED BY <1>1, <1>3 DEF Spaced

\* The checkpoint reaches as far as the numbers do.
LEMMA SpacedReach ==
    ASSUME CounterAssumption, NEW r \in Nat, NEW n \in Nat, Spaced(r, n + 1)
    PROVE  n < r + WakeSkip
BY CounterAssumption DEF CounterAssumption, Spaced

\* A counter that does not overflow does not wrap.
LEMMA SmallMod ==
    ASSUME NEW p \in Nat \ {0}, NEW n \in Nat, n < p
    PROVE  (n % p) = n
<1> DEFINE m == n % p
           d == n \div p
<1>1. d \in Nat /\ m \in Nat /\ m < p /\ n = p * d + m
  OBVIOUS
<1>2. CASE d >= 1
  <2>1. p * d >= p
    BY <1>1, <1>2
  <2> QED BY <1>1, <2>1
<1>3. CASE d = 0
  BY <1>1, <1>3
<1> QED BY <1>1, <1>2, <1>3

LEMMA ResumeType ==
    ASSUME CounterAssumption, NEW n \in Sequences
    PROVE  /\ Resume(n) \in Sequences
           /\ \/ Resume(n) = n + WakeSkip
              \/ Resume(n) = Modulus - 1
BY DEF CounterAssumption, Sequences, Resume
-----------------------------------------------------------------------------
LEMMA TypeInductive ==
    ASSUME CounterAssumption, OperationsAssumption, MixAssumption, TypeOK, [Next]_vars
    PROVE  TypeOK'
<1> USE DEF TypeOK
<1>r. AtRest \in [Threads -> Locals]
  BY DEF AtRest, Locals, Steps, Sequences, CounterAssumption
<1>z. 0 \in Sequences
  BY DEF Sequences, CounterAssumption
<1>1. CASE Reset
  BY <1>r, <1>z, <1>1 DEF Reset
<1>2. CASE PowerLoss
  <2>1. sessions' \in 1 .. MaxSessions /\ sessions' \in Nat
    BY <1>2 DEF PowerLoss, DrawSession, MixAssumption
  <2>2. rtc' \in [magic : BOOLEAN, session : Nat, sequence : Sequences]
    BY <1>2, <2>1 DEF PowerLoss
  <2> QED BY <1>r, <1>z, <1>2, <2>1, <2>2 DEF PowerLoss
<1>3. ASSUME NEW t \in Threads, ThreadStep(t)
      PROVE  TypeOK'
  <2>0. thread[t] \in Locals /\ 0 \in Sequences
    BY DEF Sequences, CounterAssumption
  <2>1. ASSUME NEW there \in Steps, Goto(t, there)
        PROVE  thread' \in [Threads -> Locals]
    BY <2>0, <2>1 DEF Goto, Locals
  <2>2. AfterInit(thread[t].op) \in Steps /\ AfterNumber(thread[t]) \in Steps
    BY DEF AfterInit, AfterNumber, Steps
  <2>3. ASSUME NEW op \in Operations, Call(t, op)
        PROVE  TypeOK'
    <3>1. op \in {"next", "next64", "rotate"} /\ AfterInit(op) \in Steps
      BY OperationsAssumption DEF OperationsAssumption, AfterInit, Steps
    <3>2. thread' \in [Threads -> Locals]
      BY <2>0, <2>3, <3>1, ZenonT(60) DEF Call, Locals, Steps
    <3> QED BY <2>3, <3>2 DEF Call
  <2>4. CASE Recover(t)
    <3>1. sessions' \in 1 .. MaxSessions /\ sessions' \in Nat
      BY <2>4 DEF Recover, DrawSession, MixAssumption
    <3>2. thread' \in [Threads -> Locals]
      BY <2>0, <2>4, <3>1, ResumeType DEF Recover, Locals, Steps
    <3> QED BY <2>4, <3>1, <3>2 DEF Recover
  <2>5. CASE StoreSession(t)
    BY <2>0, <2>1, <2>5 DEF StoreSession, Locals, Steps
  <2>6. CASE StoreSequence(t)
    BY <2>0, <2>1, <2>6 DEF StoreSequence, Locals, Steps
  <2>7. CASE SaveSession(t)
    BY <2>0, <2>1, <2>7 DEF SaveSession, Locals, Steps
  <2>8. CASE SaveSequence(t)
    BY <2>0, <2>1, <2>2, <2>8 DEF SaveSequence, Locals
  <2>9. CASE Take(t)
    <3>1. (sequence + 1) % Modulus \in Sequences
      BY DEF Sequences, CounterAssumption
    <3>2. thread' \in [Threads -> Locals]
      BY <2>0, <2>9 DEF Take, Locals, Steps
    <3> QED BY <2>9, <3>1, <3>2 DEF Take
  <2>10. CASE Load(t)
    <3>1. thread' \in [Threads -> Locals]
      BY <2>0, <2>2, <2>10 DEF Load, Locals, Steps
    <3> QED BY <2>10, <3>1 DEF Load
  <2>11. CASE NewSession(t)
    <3>1. sessions' \in 1 .. MaxSessions /\ sessions' \in Nat
      BY <2>11 DEF NewSession, DrawSession, MixAssumption
    <3>2. thread' \in [Threads -> Locals]
      BY <2>0, <2>11, <3>1 DEF NewSession, Locals, Steps
    <3> QED BY <2>11, <3>1, <3>2 DEF NewSession
  <2>12. CASE NewSequence(t)
    BY <2>0, <2>1, <2>12 DEF NewSequence, Steps
  <2>13. CASE SaveNewSession(t)
    BY <2>0, <2>1, <2>13 DEF SaveNewSession, Locals, Steps
  <2>14. CASE SaveNewSequence(t)
    <3>1. thread' \in [Threads -> Locals]
      BY <2>1, <2>2, <2>14 DEF SaveNewSequence, Steps
    <3> QED BY <2>0, <2>14, <3>1 DEF SaveNewSequence
  <2>15. CASE CheckpointSession(t)
    BY <2>0, <2>1, <2>15 DEF CheckpointSession, Locals, Steps
  <2>16. CASE CheckpointSequence(t)
    BY <2>0, <2>1, <2>16 DEF CheckpointSequence, Locals, Steps
  <2>17. CASE Return(t)
    <3>1. thread' \in [Threads -> Locals]
      BY <2>1, <2>17 DEF Return, Steps
    <3> QED BY <2>0, <2>17, <3>1 DEF Return, Locals
  <2>18. CASE InvalidateRtc(t)
    BY <2>18 DEF InvalidateRtc
  <2> QED BY <1>3, <2>3, <2>4, <2>5, <2>6, <2>7, <2>8, <2>9, <2>10, <2>11,
             <2>12, <2>13, <2>14, <2>15, <2>16, <2>17, <2>18 DEF ThreadStep
<1>4. CASE UNCHANGED vars
  BY <1>4 DEF vars
<1> QED BY <1>1, <1>2, <1>3, <1>4 DEF Next
-----------------------------------------------------------------------------
\* What a step of thread t must leave true of t is enough: there is no other.
LEMMA InitIInv == CounterAssumption /\ MixAssumption /\ Init => IInv
<1> SUFFICES ASSUME CounterAssumption, MixAssumption, Init PROVE IInv
  OBVIOUS
<1>z. 0 \in Sequences
  BY DEF Sequences, CounterAssumption
<1>1. TypeOK
  <2>1. thread \in [Threads -> Locals]
    BY <1>z DEF Init, AtRest, Locals, Steps
  <2>2. rtc \in [magic : BOOLEAN, session : Nat, sequence : Sequences]
    BY DEF Init
  <2>3. /\ initialized \in BOOLEAN /\ twice \in BOOLEAN
        /\ session \in Nat /\ sequence \in Sequences
    BY <1>z DEF Init
  <2>4. issued \subseteq Nat \X Sequences \X {"next", "next64", "rotate"}
    BY DEF Init
  <2>5. sessions \in 1 .. MaxSessions
    <3>1. MaxSessions \in Nat \ {0}
      BY DEF MixAssumption
    <3>2. sessions = 1
      BY DEF Init
    <3> QED BY <3>1, <3>2
  <2> QED BY <2>1, <2>2, <2>3, <2>4, <2>5 DEF TypeOK
<1>2. \A t \in Threads : Point(thread[t]) /\ thread[t].session = 0 /\ thread[t].fresh = 0
  BY DEF Init, AtRest, Point, Recovering, Drawing, Rotating
<1>3. rtc.session = 1 /\ session = 0 /\ sessions = 1
  BY DEF Init
<1>4. UniqueIds /\ CheckpointCovers
  BY DEF Init, UniqueIds, CheckpointCovers
<1>5. SessionsDrawn
  BY <1>2, <1>3 DEF Init, SessionsDrawn
<1> QED BY <1>1, <1>2, <1>4, <1>5 DEF IInv

LEMMA RestartKeeps ==
    ASSUME IInv, CounterAssumption, TypeOK', Reset \/ PowerLoss
    PROVE  IInv'
<1>1. \A t \in Threads : (Point(thread[t]) /\ thread[t].session = 0 /\ thread[t].fresh = 0)'
  BY DEF Reset, PowerLoss, AtRest, Point, Recovering, Drawing, Rotating
<1>2. /\ issued' = issued /\ twice' = twice /\ session' = 0
      /\ sessions \in Nat /\ sessions' >= sessions
  BY DEF IInv, TypeOK, Reset, PowerLoss, DrawSession
<1>3. \/ rtc'.session = rtc.session /\ rtc'.sequence = rtc.sequence
      \/ rtc'.session = sessions + 1
  BY DEF Reset, PowerLoss, DrawSession
<1>4. \A id \in issued : id[1] \in Nat /\ id[1] <= sessions
  BY DEF IInv, TypeOK, SessionsDrawn
<1>5. CheckpointCovers'
  BY <1>2, <1>3, <1>4 DEF IInv, CheckpointCovers
<1>6. SessionsDrawn'
  <2>1. rtc'.session <= sessions'
    BY DEF Reset, PowerLoss, DrawSession, IInv, TypeOK, SessionsDrawn
  <2>2. \A id \in issued' : id[1] <= sessions'
    BY <1>2, <1>4, TypeOK' DEF TypeOK
  <2>3. 0 <= sessions'
    BY TypeOK' DEF TypeOK
  <2> QED BY <1>1, <1>2, <2>1, <2>2, <2>3 DEF SessionsDrawn
<1>7. UniqueIds'
  BY <1>2 DEF IInv, UniqueIds
<1> QED BY <1>1, <1>5, <1>6, <1>7 DEF IInv

LEMMA StepKeeps ==
    ASSUME IInv, CounterAssumption, OperationsAssumption, MixAssumption, TypeOK',
           OneThread, NoNonces, NEW t \in Threads, ThreadStep(t)
    PROVE  IInv'
<1> DEFINE l == thread[t]
<1>t. TypeOK /\ l \in Locals /\ l' \in Locals /\ rtc' \in [magic : BOOLEAN, session : Nat, sequence : Sequences]
  BY DEF IInv, TypeOK
<1>n. /\ Sequences \subseteq Nat /\ 0 \in Sequences /\ MaxSequence \in Nat
      /\ WakeSkip \in Nat /\ PersistEvery \in Nat /\ Modulus \in Nat
  BY DEF Sequences, CounterAssumption, MaxSequence
<1>p. Point(l)
  BY DEF IInv
<1>s. SUFFICES Held(t)'
  <2>1. \A u \in Threads : u = t
    BY DEF OneThread
  <2> QED BY <2>1 DEF IInv, SessionsDrawn, Held
<1>d. sessions \in Nat /\ \A id \in issued : id[1] \in Nat /\ id[2] \in Sequences
  BY <1>t, MixAssumption DEF TypeOK, MixAssumption
<1>i. /\ \A id \in issued : /\ id[1] \in Nat /\ id[2] \in Sequences /\ id[2] \in Nat
                             /\ id[1] <= sessions
      /\ session <= sessions /\ rtc.session <= sessions
      /\ l.session <= sessions /\ l.fresh <= sessions
      /\ session \in Nat /\ sessions \in Nat /\ sequence \in Sequences
      /\ rtc.session \in Nat /\ rtc.sequence \in Sequences
      /\ sequence \in Nat /\ rtc.sequence \in Nat
      /\ UniqueIds /\ CheckpointCovers
  BY <1>t, <1>n, <1>d DEF IInv, TypeOK, SessionsDrawn
<1>g. ASSUME NEW there, Goto(t, there)
      PROVE  /\ l'.at = there /\ l'.op = l.op /\ l'.session = l.session
             /\ l'.sequence = l.sequence /\ l'.fresh = l.fresh
  <2>1. l' = [l EXCEPT !.at = there]
    BY <1>t, <1>g DEF Goto, TypeOK
  <2> QED BY <1>t, <2>1 DEF Locals
<1>r. ASSUME NEW s, rtc' = [rtc EXCEPT !.session = s]
      PROVE  rtc'.session = s /\ rtc'.sequence = rtc.sequence
  BY <1>t, <1>r DEF TypeOK
<1>q. ASSUME NEW n, rtc' = [rtc EXCEPT !.sequence = n]
      PROVE  rtc'.sequence = n /\ rtc'.session = rtc.session
  BY <1>t, <1>q DEF TypeOK
<1>m. /\ l.op \in {"next", "rotate"} /\ l.session \in Nat /\ l.fresh \in Nat
      /\ l.sequence \in Sequences /\ l.sequence \in Nat /\ initialized \in BOOLEAN
  BY <1>t, <1>p, <1>n DEF Point, TypeOK, Locals
<1>1. ASSUME NEW op \in Operations, Call(t, op)
      PROVE  Held(t)'
  <2>1. op \in {"next", "rotate"}
    BY OperationsAssumption DEF NoNonces, OperationsAssumption
  <2>2. /\ l.at = "idle" /\ initialized' = TRUE
        /\ session' = session /\ sequence' = sequence /\ rtc' = rtc
        /\ sessions' = sessions /\ issued' = issued /\ twice' = twice
    BY <1>1 DEF Call, At
  <2>5. l' = [l EXCEPT !.op = op,
                       !.at = IF initialized THEN AfterInit(op) ELSE "recover"]
    BY <1>t, <1>1 DEF Call, TypeOK
  <2>6. /\ l'.at = (IF initialized THEN AfterInit(op) ELSE "recover") /\ l'.op = op
        /\ l'.session = l.session /\ l'.fresh = l.fresh /\ l'.sequence = l.sequence
    BY <1>t, <2>5 DEF Locals
  <2>3. Recovering(l)' /\ Rotating(l)'
    BY <2>1, <2>6 DEF AfterInit, Recovering, Rotating
  <2>4. Drawing(l)'
    BY <1>p, <2>1, <2>2, <2>6 DEF AfterInit, Point, Drawing, Current, Below, Spaced
  <2>7. Point(l)'
    BY <2>1, <2>2, <2>3, <2>4, <2>6 DEF Point
  <2> QED BY <1>i, <2>2, <2>6, <2>7 DEF Held, UniqueIds, CheckpointCovers
<1>2. CASE Recover(t)
  <2>1. /\ l.at = "recover" /\ initialized' = initialized
        /\ session' = session /\ sequence' = sequence
        /\ issued' = issued /\ twice' = twice
    BY <1>2 DEF Recover, At
  <2>2. rtc'.session = rtc.session /\ rtc'.sequence = rtc.sequence
    <3>1. rtc' = [rtc EXCEPT !.magic = TRUE]
      BY <1>2 DEF Recover
    <3> QED BY <1>t, <3>1 DEF TypeOK
  <2>3. /\ l'.at = "store_session" /\ l'.op = l.op /\ l'.fresh = l.fresh
        /\ \/ /\ l'.session = rtc.session /\ l'.sequence = Resume(rtc.sequence)
              /\ sessions' = sessions
           \/ /\ l'.session = sessions + 1 /\ l'.sequence = 0
              /\ sessions' = sessions + 1
    <3>1. CASE rtc.magic /\ rtc.sequence < MaxSequence
      <4>1. /\ l' = [l EXCEPT !.at = "store_session", !.session = rtc.session,
                              !.sequence = Resume(rtc.sequence)]
            /\ sessions' = sessions
        BY <1>t, <1>2, <3>1 DEF Recover, TypeOK
      <4> QED BY <1>t, <4>1 DEF Locals
    <3>2. CASE ~ (rtc.magic /\ rtc.sequence < MaxSequence)
      <4>1. /\ l' = [l EXCEPT !.at = "store_session", !.session = sessions',
                              !.sequence = 0]
            /\ sessions' = sessions + 1
        BY <1>t, <1>2, <3>2 DEF Recover, DrawSession, TypeOK
      <4> QED BY <1>t, <4>1 DEF Locals
    <3> QED BY <3>1, <3>2
  <2>4. Below(l.session, l.sequence)' /\ (l'.session = rtc'.session \/ Unused(l.session)')
    <3>1. CASE l'.session = rtc.session /\ l'.sequence = Resume(rtc.sequence)
      <4>1. \/ l'.sequence = rtc.sequence + WakeSkip
            \/ l'.sequence = MaxSequence + 1
        BY <1>i, <1>n, <3>1, ResumeType DEF MaxSequence
      <4>2. \A id \in issued : id[1] = rtc.session =>
               id[2] < rtc.sequence + WakeSkip /\ id[2] < MaxSequence /\ id[2] \in Nat
        BY <1>i, <1>n DEF CheckpointCovers
      <4>3. \A id \in issued : id[1] = rtc.session => id[2] < l'.sequence
        BY <1>n, <4>1, <4>2
      <4> QED BY <2>1, <2>2, <3>1, <4>3 DEF Below
    <3>2. CASE l'.session = sessions + 1
      <4>1. \A id \in issued : id[1] # l'.session
        BY <1>i, <3>2
      <4> QED BY <2>1, <4>1 DEF Below, Unused
    <3> QED BY <2>3, <3>1, <3>2
  <2>5. Recovering(l)' /\ Drawing(l)' /\ Rotating(l)'
    BY <2>3, <2>4 DEF Recovering, Drawing, Rotating
  <2>6. l'.session <= sessions' /\ sessions <= sessions' /\ sessions' \in Nat
    BY <1>i, <2>3
  <2>7. Point(l)'
    BY <1>p, <2>1, <2>3, <2>5 DEF Point
  <2>8. /\ session <= sessions' /\ rtc.session <= sessions' /\ l.fresh <= sessions'
        /\ \A id \in issued : id[1] <= sessions'
    BY <1>i, <1>m, <2>6
  <2> QED BY <1>i, <2>1, <2>2, <2>3, <2>6, <2>7, <2>8 DEF Held, UniqueIds, CheckpointCovers
<1>3. CASE StoreSession(t)
  <2>1. /\ l.at = "store_session" /\ session' = l.session
        /\ initialized' = initialized /\ sequence' = sequence /\ rtc' = rtc
        /\ sessions' = sessions /\ issued' = issued /\ twice' = twice
    BY <1>3 DEF StoreSession, At
  <2>2. l'.at = "store_sequence" /\ l'.op = l.op /\ l'.session = l.session
        /\ l'.sequence = l.sequence /\ l'.fresh = l.fresh
    BY <1>3, <1>g DEF StoreSession
  <2>3. Point(l)'
    BY <1>p, <2>1, <2>2 DEF Point, Recovering, Drawing, Rotating, Below, Unused
  <2> QED BY <1>i, <2>1, <2>2, <2>3 DEF Held, UniqueIds, CheckpointCovers
<1>4. CASE StoreSequence(t)
  <2>1. /\ l.at = "store_sequence" /\ sequence' = l.sequence
        /\ initialized' = initialized /\ session' = session /\ rtc' = rtc
        /\ sessions' = sessions /\ issued' = issued /\ twice' = twice
    BY <1>4 DEF StoreSequence, At
  <2>2. l'.at = "save_session" /\ l'.op = l.op /\ l'.session = l.session
        /\ l'.sequence = l.sequence /\ l'.fresh = l.fresh
    BY <1>4, <1>g DEF StoreSequence
  <2>3. Point(l)'
    BY <1>p, <2>1, <2>2 DEF Point, Recovering, Drawing, Rotating, Below, Unused
  <2> QED BY <1>i, <2>1, <2>2, <2>3 DEF Held, UniqueIds, CheckpointCovers
<1>5. CASE SaveSession(t)
  <2>1. /\ l.at = "save_session" /\ initialized' = initialized
        /\ session' = session /\ sequence' = sequence
        /\ sessions' = sessions /\ issued' = issued /\ twice' = twice
    BY <1>5 DEF SaveSession, At
  <2>2. l'.at = "save_sequence" /\ l'.op = l.op /\ l'.session = l.session
        /\ l'.sequence = l.sequence /\ l'.fresh = l.fresh
    BY <1>5, <1>g DEF SaveSession
  <2>3. rtc'.session = l.session /\ rtc'.sequence = rtc.sequence
    BY <1>5, <1>r DEF SaveSession
  <2>4. Point(l)'
    BY <1>p, <2>1, <2>2, <2>3 DEF Point, Recovering, Drawing, Rotating, Below, Unused
  <2>5. CheckpointCovers'
    BY <1>i, <1>p, <2>1, <2>3 DEF Point, Recovering, CheckpointCovers, Unused
  <2> QED BY <1>i, <2>1, <2>2, <2>3, <2>4, <2>5 DEF Held, UniqueIds
<1>6. CASE SaveSequence(t)
  <2>1. /\ l.at = "save_sequence" /\ initialized' = initialized
        /\ session' = session /\ sequence' = sequence
        /\ sessions' = sessions /\ issued' = issued /\ twice' = twice
    BY <1>6 DEF SaveSequence, At
  <2>2. l'.at = AfterInit(l.op) /\ l'.op = l.op /\ l'.session = l.session
        /\ l'.sequence = l.sequence /\ l'.fresh = l.fresh
    BY <1>6, <1>g DEF SaveSequence
  <2>3. rtc'.sequence = l.sequence /\ rtc'.session = rtc.session
    BY <1>6, <1>q DEF SaveSequence
  <2>4. /\ session = l.session /\ sequence = l.sequence
        /\ rtc.session = l.session /\ Below(l.session, l.sequence)
    BY <1>p, <2>1 DEF Point, Recovering
  <2>5. Spaced(sequence, sequence)
    BY <1>i, <1>n, SpacedAt
  <2>6. Current(sequence)' /\ Spaced(rtc.sequence, sequence)'
    BY <1>i, <1>n, <2>1, <2>3, <2>4, <2>5 DEF Current, Below, Spaced
  <2>7. Point(l)'
    BY <1>p, <1>m, <2>1, <2>2, <2>6 DEF Point, Recovering, Drawing, Rotating, AfterInit
  <2>8. CheckpointCovers'
    BY <1>i, <1>n, <2>1, <2>3, <2>4 DEF CheckpointCovers, Below
  <2> QED BY <1>i, <2>1, <2>2, <2>3, <2>7, <2>8 DEF Held, UniqueIds
<1>7. CASE Take(t)
  <2>1. /\ l.at = "take" /\ sequence' = (sequence + 1) % Modulus
        /\ initialized' = initialized /\ session' = session /\ rtc' = rtc
        /\ sessions' = sessions /\ issued' = issued /\ twice' = twice
    BY <1>7 DEF Take, At
  <2>2. l' = [l EXCEPT !.at = "load", !.sequence = sequence]
    BY <1>t, <1>7 DEF Take, TypeOK
  <2>3. l'.at = "load" /\ l'.op = l.op /\ l'.session = l.session
        /\ l'.sequence = sequence /\ l'.fresh = l.fresh
    BY <1>t, <2>2 DEF Locals
  <2>4. /\ initialized /\ l.op = "next"
        /\ Current(sequence) /\ Spaced(rtc.sequence, sequence)
    BY <1>p, <2>1 DEF Point, Drawing
  <2>5. Current(l.sequence)' /\ Spaced(rtc.sequence, l.sequence)'
    BY <2>1, <2>3, <2>4 DEF Current, Below, Spaced
  <2>6. Point(l)'
    BY <2>1, <2>3, <2>4, <2>5 DEF Point, Recovering, Drawing, Rotating
  <2> QED BY <1>i, <2>1, <2>3, <2>6 DEF Held, UniqueIds, CheckpointCovers
<1>8. CASE Load(t)
  <2>1. /\ l.at = "load" /\ sequence' = sequence
        /\ initialized' = initialized /\ session' = session /\ rtc' = rtc
        /\ sessions' = sessions /\ issued' = issued /\ twice' = twice
    BY <1>8 DEF Load, At
  <2>2. l' = [l EXCEPT !.session = session,
                       !.at = IF l.sequence >= MaxSequence
                              THEN "new_session" ELSE AfterNumber(l)]
    BY <1>t, <1>8 DEF Load, TypeOK
  <2>3. /\ l'.at = (IF l.sequence >= MaxSequence THEN "new_session" ELSE AfterNumber(l))
        /\ l'.op = l.op /\ l'.session = session
        /\ l'.sequence = l.sequence /\ l'.fresh = l.fresh
    BY <1>t, <2>2 DEF Locals
  <2>4. /\ initialized /\ l.op = "next"
        /\ Current(l.sequence) /\ Spaced(rtc.sequence, l.sequence)
        /\ sequence = (l.sequence + 1) % Modulus
    BY <1>p, <2>1 DEF Point, Drawing
  <2>5. Current(l.sequence)'
    BY <2>1, <2>3, <2>4 DEF Current, Below
  <2>6. ASSUME l.sequence >= MaxSequence
        PROVE  Point(l)'
    <3>1. l'.at = "new_session"
      BY <2>3, <2>6
    <3>2. Below(l.session, l.sequence)'
      BY <2>1, <2>3, <2>4 DEF Current, Below
    <3> QED BY <2>1, <2>3, <2>4, <2>6, <3>1, <3>2
               DEF Point, Recovering, Drawing, Rotating
  <2>7. ASSUME l.sequence < MaxSequence
        PROVE  Point(l)'
    <3>1. sequence = l.sequence + 1
      <4>1. /\ l.sequence + 1 \in Nat /\ l.sequence + 1 < Modulus
            /\ Modulus \in Nat \ {0}
        BY <1>m, <1>n, <2>7 DEF MaxSequence
      <4>2. ((l.sequence + 1) % Modulus) = l.sequence + 1
        BY <4>1, SmallMod
      <4> QED BY <2>4, <4>2
    <3>2. l'.at = AfterNumber(l) /\ l'.at \in {"checkpoint_session", "return"}
      BY <1>m, <1>n, <2>3, <2>7 DEF AfterNumber
    <3>3. ASSUME l'.at = "return"
          PROVE  Spaced(rtc.sequence, l.sequence + 1)'
      <4>1. l.sequence % PersistEvery # 0
        BY <2>4, <3>2, <3>3 DEF AfterNumber, Due
      <4>2. Spaced(rtc.sequence, l.sequence + 1)
        BY <1>i, <1>m, <1>n, <2>4, <4>1, SpacedNext
      <4> QED BY <2>1, <2>3, <4>2
    <3> QED BY <2>1, <2>3, <2>4, <2>5, <2>7, <3>1, <3>2, <3>3
               DEF Point, Recovering, Drawing, Rotating
  <2>8. Point(l)'
    BY <1>m, <1>n, <2>6, <2>7
  <2> QED BY <1>i, <2>1, <2>3, <2>8 DEF Held, UniqueIds, CheckpointCovers
<1>9. CASE NewSession(t)
  <2>1. /\ l.at = "new_session" /\ session' = sessions + 1 /\ sessions' = sessions + 1
        /\ initialized' = initialized /\ sequence' = sequence /\ rtc' = rtc
        /\ issued' = issued /\ twice' = twice
    BY <1>9 DEF NewSession, DrawSession, At
  <2>2. l' = [l EXCEPT !.at = "new_sequence", !.fresh = sessions']
    BY <1>t, <1>9 DEF NewSession, TypeOK
  <2>3. l'.at = "new_sequence" /\ l'.op = l.op /\ l'.session = l.session
        /\ l'.sequence = l.sequence /\ l'.fresh = sessions + 1
    BY <1>t, <2>1, <2>2 DEF Locals
  <2>4. l'.session # session' /\ \A id \in issued : id[1] # session'
    BY <1>i, <1>m, <2>1, <2>3
  <2>5. Point(l)'
    BY <1>p, <2>1, <2>3, <2>4 DEF Point, Recovering, Drawing, Rotating, Below, Unused
  <2>6. /\ rtc.session <= sessions' /\ l.session <= sessions'
        /\ \A id \in issued : id[1] <= sessions'
    BY <1>i, <1>m, <2>1
  <2> QED BY <1>i, <2>1, <2>3, <2>5, <2>6 DEF Held, UniqueIds, CheckpointCovers
<1>10. CASE NewSequence(t)
  <2>1. /\ l.at = "new_sequence" /\ sequence' = 0
        /\ initialized' = initialized /\ session' = session /\ rtc' = rtc
        /\ sessions' = sessions /\ issued' = issued /\ twice' = twice
    BY <1>10 DEF NewSequence, At
  <2>2. l'.at = "save_new_session" /\ l'.op = l.op /\ l'.session = l.session
        /\ l'.sequence = l.sequence /\ l'.fresh = l.fresh
    BY <1>10, <1>g DEF NewSequence
  <2>3. Point(l)'
    BY <1>p, <2>1, <2>2 DEF Point, Recovering, Drawing, Rotating, Below, Unused
  <2> QED BY <1>i, <2>1, <2>2, <2>3 DEF Held, UniqueIds, CheckpointCovers
<1>11. CASE SaveNewSession(t)
  <2>1. /\ l.at = "save_new_session" /\ initialized' = initialized
        /\ session' = session /\ sequence' = sequence
        /\ sessions' = sessions /\ issued' = issued /\ twice' = twice
    BY <1>11 DEF SaveNewSession, At
  <2>2. l'.at = "save_new_sequence" /\ l'.op = l.op /\ l'.session = l.session
        /\ l'.sequence = l.sequence /\ l'.fresh = l.fresh
    BY <1>11, <1>g DEF SaveNewSession
  <2>3. rtc'.session = l.fresh /\ rtc'.sequence = rtc.sequence
    BY <1>11, <1>r DEF SaveNewSession
  <2>4. Point(l)'
    BY <1>p, <2>1, <2>2, <2>3 DEF Point, Recovering, Drawing, Rotating, Below, Unused
  <2>5. CheckpointCovers'
    BY <1>p, <2>1, <2>3 DEF Point, Rotating, CheckpointCovers, Unused
  <2> QED BY <1>i, <2>1, <2>2, <2>3, <2>4, <2>5 DEF Held, UniqueIds
<1>12. CASE SaveNewSequence(t)
  <2>1. /\ l.at = "save_new_sequence" /\ initialized' = initialized
        /\ session' = session /\ sequence' = sequence
        /\ sessions' = sessions /\ issued' = issued /\ twice' = twice
    BY <1>12 DEF SaveNewSequence, At
  <2>2. l'.at = (IF l.op = "rotate" THEN "idle" ELSE AfterNumber(l))
        /\ l'.op = l.op /\ l'.session = l.session
        /\ l'.sequence = l.sequence /\ l'.fresh = l.fresh
    BY <1>12, <1>g DEF SaveNewSequence
  <2>3. rtc'.sequence = 0 /\ rtc'.session = rtc.session
    BY <1>12, <1>q DEF SaveNewSequence
  <2>4. rtc.session = session /\ Unused(session) /\ sequence = 0 /\ initialized
    BY <1>p, <2>1 DEF Point, Rotating
  <2>5. CheckpointCovers'
    BY <2>1, <2>3, <2>4 DEF CheckpointCovers, Unused
  <2>6. ASSUME l.op = "rotate"
        PROVE  Point(l)'
    <3>1. Current(sequence)'
      BY <1>n, <2>1, <2>3, <2>4 DEF Current, Below, Unused
    <3>2. Spaced(rtc.sequence, sequence)'
      <4>1. Spaced(0, 0)
        BY SpacedAt
      <4> QED BY <2>1, <2>3, <2>4, <4>1
    <3> QED BY <2>1, <2>2, <2>4, <2>6, <3>1, <3>2
               DEF Point, Recovering, Drawing, Rotating
  <2>7. ASSUME l.op = "next"
        PROVE  Point(l)'
    <3>1. l.sequence >= MaxSequence /\ Below(l.session, l.sequence) /\ l.session # session
      BY <1>p, <2>1, <2>7 DEF Point, Rotating
    <3>2. l.sequence = Modulus - 2 \/ l.sequence = Modulus - 1
      BY <1>m, <1>n, <3>1 DEF Sequences, MaxSequence
    <3>3. l'.at = "return"
      BY <2>2, <2>7, <3>2 DEF AfterNumber, Due, CounterAssumption
    <3>4. Below(l.session, l.sequence)' /\ Unused(session)'
      BY <2>1, <2>2, <2>4, <3>1 DEF Below, Unused
    <3> QED BY <2>1, <2>2, <2>3, <2>4, <2>7, <3>1, <3>3, <3>4
               DEF Point, Recovering, Drawing, Rotating
  <2> QED BY <1>i, <1>m, <2>1, <2>2, <2>3, <2>5, <2>6, <2>7 DEF Held, UniqueIds
<1>13. CASE CheckpointSession(t)
  <2>1. /\ l.at = "checkpoint_session" /\ initialized' = initialized
        /\ session' = session /\ sequence' = sequence
        /\ sessions' = sessions /\ issued' = issued /\ twice' = twice
    BY <1>13 DEF CheckpointSession, At
  <2>2. l'.at = "checkpoint_sequence" /\ l'.op = l.op /\ l'.session = l.session
        /\ l'.sequence = l.sequence /\ l'.fresh = l.fresh
    BY <1>13, <1>g DEF CheckpointSession
  <2>3. rtc'.session = rtc.session /\ rtc'.sequence = rtc.sequence
    BY <1>13, <1>r, <1>p, <2>1 DEF CheckpointSession, Point, Drawing, Current
  <2>4. Point(l)'
    BY <1>p, <2>1, <2>2, <2>3 DEF Point, Recovering, Drawing, Rotating, Current, Below
  <2> QED BY <1>i, <2>1, <2>2, <2>3, <2>4 DEF Held, UniqueIds, CheckpointCovers
<1>14. CASE CheckpointSequence(t)
  <2>1. /\ l.at = "checkpoint_sequence" /\ initialized' = initialized
        /\ session' = session /\ sequence' = sequence
        /\ sessions' = sessions /\ issued' = issued /\ twice' = twice
    BY <1>14 DEF CheckpointSequence, At
  <2>2. l'.at = "return" /\ l'.op = l.op /\ l'.session = l.session
        /\ l'.sequence = l.sequence /\ l'.fresh = l.fresh
    BY <1>14, <1>g DEF CheckpointSequence
  <2>3. rtc'.sequence = l.sequence /\ rtc'.session = rtc.session
    BY <1>14, <1>q DEF CheckpointSequence
  <2>4. /\ Current(l.sequence) /\ l.session = session /\ l.op = "next"
        /\ l.sequence < MaxSequence /\ sequence = l.sequence + 1
    BY <1>p, <2>1 DEF Point, Drawing
  <2>5. Current(l.sequence)'
    BY <1>m, <1>n, <2>1, <2>2, <2>3, <2>4 DEF Current, Below
  <2>6. Spaced(rtc.sequence, l.sequence + 1)'
    <3>1. Spaced(l.sequence, l.sequence + 1)
      BY <1>m, <1>n, SpacedAt
    <3> QED BY <2>2, <2>3, <3>1
  <2>7. Point(l)'
    BY <1>p, <2>1, <2>2, <2>4, <2>5, <2>6 DEF Point, Recovering, Drawing, Rotating
  <2>8. CheckpointCovers'
    BY <1>i, <1>m, <1>n, <2>1, <2>3, <2>4 DEF CheckpointCovers, Current, Below
  <2> QED BY <1>i, <2>1, <2>2, <2>3, <2>7, <2>8 DEF Held, UniqueIds
<1>15. CASE Return(t)
  <2> DEFINE new == <<l.session, l.sequence, l.op>>
             Again == \E i \in issued : /\ i[1] = new[1] /\ i[3] = new[3]
                                         /\ Identifier(i) = Identifier(new)
  <2>1. /\ l.at = "return" /\ initialized' = initialized
        /\ session' = session /\ sequence' = sequence /\ rtc' = rtc
        /\ sessions' = sessions
        /\ issued' = issued \cup {new} /\ twice' = (twice \/ Again)
    BY <1>15 DEF Return, At
  <2>2. l'.at = "idle" /\ l'.op = l.op /\ l'.session = l.session
        /\ l'.sequence = l.sequence /\ l'.fresh = l.fresh
    BY <1>15, <1>g DEF Return
  <2>3. new[1] = l.session /\ new[2] = l.sequence /\ new[3] = l.op
    OBVIOUS
  <2>4. Below(l.session, l.sequence) /\ initialized /\ l.op = "next"
    BY <1>p, <2>1 DEF Point, Drawing, Current
  <2> HIDE DEF new
  <2>5. ~ Again
    <3> SUFFICES ASSUME NEW i \in issued, i[1] = l.session, i[3] = "next",
                        Identifier(i) = Identifier(new)
                 PROVE  FALSE
      BY <2>3, <2>4
    <3>1. PacketIdOf(l.session, i[2]) = PacketIdOf(l.session, l.sequence)
      BY <2>3, <2>4 DEF Identifier
    <3>2. l.session \in 0 .. MaxSessions
      BY <1>t, <1>i, <1>m, MixAssumption DEF TypeOK, MixAssumption
    <3>3. i[2] = l.sequence
      BY <1>i, <1>m, <3>1, <3>2, MixAssumption DEF MixAssumption
    <3> QED BY <1>i, <1>m, <2>4, <3>3 DEF Below
  <2> HIDE DEF Again
  <2>6. UniqueIds'
    BY <1>i, <2>1, <2>5 DEF UniqueIds
  <2>7. ASSUME Current(l.sequence), l.session = session,
               l.sequence < MaxSequence, sequence = l.sequence + 1,
               Spaced(rtc.sequence, l.sequence + 1)
        PROVE  CheckpointCovers' /\ Point(l)'
    <3>1. l.sequence < rtc.sequence + WakeSkip
      BY <1>i, <1>m, <1>n, <2>7, SpacedReach
    <3>2. CheckpointCovers'
      BY <1>i, <2>1, <2>3, <2>7, <3>1 DEF CheckpointCovers
    <3>3. \A id \in issued' : id[1] = session => id[2] < l.sequence + 1
      BY <1>i, <1>m, <1>n, <2>1, <2>3, <2>7 DEF Current, Below
    <3>4. Current(sequence)' /\ Spaced(rtc.sequence, sequence)'
      BY <1>i, <1>m, <1>n, <2>1, <2>7, <3>3 DEF Current, Below
    <3>5. Point(l)'
      BY <1>p, <2>1, <2>2, <3>4 DEF Point, Recovering, Drawing, Rotating
    <3> QED BY <3>2, <3>5
  <2>8. ASSUME l.session # session, Unused(session), rtc.session = session,
               sequence = 0, rtc.sequence = 0
        PROVE  CheckpointCovers' /\ Point(l)'
    <3>1. CheckpointCovers'
      BY <1>i, <2>1, <2>3, <2>8 DEF CheckpointCovers
    <3>2. Spaced(0, 0)
      BY SpacedAt
    <3>3. Current(sequence)' /\ Spaced(rtc.sequence, sequence)'
      BY <1>n, <2>1, <2>3, <2>8, <3>2 DEF Current, Below, Unused
    <3>4. Point(l)'
      BY <1>p, <2>1, <2>2, <3>3 DEF Point, Recovering, Drawing, Rotating
    <3> QED BY <3>1, <3>4
  <2>9. CheckpointCovers' /\ Point(l)'
    BY <1>p, <2>1, <2>7, <2>8 DEF Point, Drawing
  <2>10. \A id \in issued' : id[1] <= sessions'
    BY <1>i, <2>1, <2>3
  <2> QED BY <1>i, <2>1, <2>2, <2>6, <2>9, <2>10 DEF Held
<1>16. CASE InvalidateRtc(t)
  <2>1. /\ l.at = "idle" /\ thread' = thread /\ initialized' = initialized
        /\ session' = session /\ sequence' = sequence
        /\ sessions' = sessions /\ issued' = issued /\ twice' = twice
    BY <1>16 DEF InvalidateRtc, At
  <2>2. rtc'.session = rtc.session /\ rtc'.sequence = rtc.sequence
    <3>1. rtc' = [rtc EXCEPT !.magic = FALSE]
      BY <1>16 DEF InvalidateRtc
    <3> QED BY <1>t, <3>1 DEF TypeOK
  <2>3. l' = l
    BY <2>1
  <2>4. Point(l)'
    BY <1>p, <2>1, <2>2, <2>3 DEF Point, Recovering, Drawing, Rotating, Current, Below
  <2> QED BY <1>i, <2>1, <2>2, <2>3, <2>4 DEF Held, UniqueIds, CheckpointCovers
<1> QED BY <1>1, <1>2, <1>3, <1>4, <1>5, <1>6, <1>7, <1>8, <1>9, <1>10, <1>11,
           <1>12, <1>13, <1>14, <1>15, <1>16 DEF ThreadStep
-----------------------------------------------------------------------------
LEMMA Inductive ==
    ASSUME OneThread, NoNonces, CounterAssumption, OperationsAssumption,
           MixAssumption, IInv, [Next]_vars
    PROVE  IInv'
<1>1. TypeOK'
  BY TypeInductive DEF IInv
<1>2. CASE Reset \/ PowerLoss
  BY <1>1, <1>2, RestartKeeps
<1>3. CASE \E t \in Threads : ThreadStep(t)
  BY <1>1, <1>3, StepKeeps
<1>4. CASE UNCHANGED vars
  BY <1>4 DEF vars, IInv, TypeOK, UniqueIds, CheckpointCovers, SessionsDrawn, Point,
              Recovering, Drawing, Rotating, Current, Below, Unused, Spaced
<1> QED BY <1>2, <1>3, <1>4 DEF Next

(***************************************************************************)
(* The statics, the RTC words and every thread's locals keep their types   *)
(* and the counter its width, however many threads call in.                *)
(***************************************************************************)
THEOREM PacketIdTypes == Spec => []TypeOK
<1>1. Init => TypeOK
  BY CounterAssumption, MixAssumption, InitIInv DEF IInv
<1>2. TypeOK /\ [Next]_vars => TypeOK'
  BY CounterAssumption, OperationsAssumption, MixAssumption, TypeInductive
<1> QED BY <1>1, <1>2, PTL DEF Spec

(***************************************************************************)
(* One thread never gets an identifier twice from one session, and the RTC *)
(* checkpoint always covers what it got, through any sequence of resets,   *)
(* power losses and rotations at any point of any call.                    *)
(***************************************************************************)
THEOREM PacketIdsAreUnique ==
    ASSUME OneThread, NoNonces
    PROVE  Spec => []UniqueIds /\ []CheckpointCovers
<1>1. Init => IInv
  BY CounterAssumption, MixAssumption, InitIInv
<1>2. IInv /\ [Next]_vars => IInv'
  BY CounterAssumption, OperationsAssumption, MixAssumption, Inductive
<1>3. IInv => UniqueIds /\ CheckpointCovers
  BY DEF IInv
<1> QED BY <1>1, <1>2, <1>3, PTL DEF Spec

-------------------------------------------------------------------------------
Items == {"node_id", "priv_key", "repeater", "identity"}

\* Identifier and key are promised together, and what is promised is stored; a
\* node that has yet to store them has promised nothing.
PairKept ==
    /\ kept.node_id = Unset <=> kept.priv_key = Unset
    /\ kept.node_id # Unset => nvs.node_id = kept.node_id /\ nvs.priv_key = kept.priv_key
    /\ node.step \in {"store_id", "store_key"} =>
          kept.node_id = Unset /\ node.node_id = node.priv_key
    /\ node.step # "off" => node.node_id # Unset
    /\ node.step = "reset" => node.before # Unset

\* Until NVS has refused something, what is in NVS is what was promised, but for
\* an identifier whose key is not stored yet; and the node runs with it.
NothingRefused ==
    /\ kept.node_id = kept.priv_key
    /\ nvs.priv_key # Unset => kept.node_id # Unset
    /\ kept.repeater = nvs.repeater /\ kept.identity = nvs.identity
    /\ node.node_id = node.priv_key
    /\ node.step = "store_key" => nvs.node_id = node.node_id
    /\ node.step \in {"loaded", "up"} => node.node_id = kept.node_id
    /\ (node.step = "up" \/ node.before # Unset) /\ kept.repeater # Unset =>
          node.repeater = kept.repeater
    /\ node.identity # Unset => node.identity = kept.identity

IdentityInv ==
    /\ DOMAIN nvs = Items /\ DOMAIN kept = Items /\ DOMAIN node = Items \cup {"step", "before"}
    /\ drawn \in Nat /\ nvsFaults \in Nat
    /\ PairKept
    /\ nvsFaults = 0 => NothingRefused

\* A device with an empty NVS and no node.
LEMMA InitIdentityInv == IdentityInit => IdentityInv
BY DEF IdentityInit, IdentityInv, Items, NoNode, PairKept, NothingRefused

\* Every step of the boot, of main.rs's setting and of identity.rs keeps the
\* invariant, whichever write NVS refuses.
LEMMA NextIdentityInv ==
    IdentityAssumption /\ IdentityInv /\ [IdentityNext]_identityVars => IdentityInv'
<1> SUFFICES ASSUME IdentityAssumption, IdentityInv, [IdentityNext]_identityVars
             PROVE  IdentityInv'
  OBVIOUS
<1> USE DEF IdentityInv, Items, PairKept, NothingRefused
<1>1. CASE LoadIdentity
  BY <1>1 DEF LoadIdentity, Asks, Known, HasIdentity
<1>2. CASE CreateIdentity
  BY <1>2 DEF CreateIdentity, Asks, HasIdentity, Draw, IdentityAssumption
<1>3. CASE EphemeralIdentity
  BY <1>3 DEF EphemeralIdentity, Asks, Known, Draw, Nvs
<1>4. CASE InitManager
  BY <1>4 DEF InitManager
<1>5. CASE PowerCycle
  BY <1>5 DEF PowerCycle, NoNode
<1>6. CASE FactoryReset
  BY <1>6 DEF FactoryReset
<1>7. ASSUME NEW ok \in BOOLEAN, StoreNodeId(ok) PROVE IdentityInv'
  BY <1>7 DEF StoreNodeId, Nvs
<1>8. ASSUME NEW ok \in BOOLEAN, StorePrivateKey(ok) PROVE IdentityInv'
  <2>1. CASE ok
    BY <1>8, <2>1 DEF StorePrivateKey, Known, Nvs
  <2>2. CASE ~ ok
    BY <1>8, <2>2 DEF StorePrivateKey, Known, Nvs
  <2> QED BY <2>1, <2>2
<1>9. ASSUME NEW ok \in BOOLEAN, LoadRepeater(ok) PROVE IdentityInv'
  <2>1. CASE ok /\ nvs.repeater # Unset
    BY <1>9, <2>1 DEF LoadRepeater, Nvs
  <2>2. CASE ok /\ nvs.repeater = Unset
    BY <1>9, <2>2 DEF LoadRepeater, Nvs
  <2>3. CASE ~ ok
    <3>1. /\ node.step = "loaded" /\ nvs' = nvs /\ drawn' = drawn /\ kept' = kept
          /\ \E on : node' = [node EXCEPT !.step = "up", !.repeater = on]
      BY <1>9 DEF LoadRepeater
    <3>2. nvsFaults' = nvsFaults + 1
      BY <1>9, <2>3 DEF LoadRepeater, Nvs
    <3> QED BY <3>1, <3>2
  <2> QED BY <2>1, <2>2, <2>3
<1>10. ASSUME NEW ok \in BOOLEAN, NewIdentity(ok) PROVE IdentityInv'
  BY <1>10 DEF NewIdentity, SaveIdentity, Nvs
<1>11. ASSUME NEW ok \in BOOLEAN, InitManagerBlind(ok) PROVE IdentityInv'
  BY <1>11 DEF InitManagerBlind, SaveIdentity, Nvs
<1>12. ASSUME NEW ok \in BOOLEAN, NEW on \in BOOLEAN, SetRepeater(on, ok) PROVE IdentityInv'
  BY <1>12 DEF SetRepeater, StoredRepeater, Nvs
<1>13. ASSUME NEW ok \in BOOLEAN, NEW seed \in Seeds, ImportSeed(seed, ok) PROVE IdentityInv'
  BY <1>13 DEF ImportSeed, SaveIdentity, Nvs
<1>14. CASE UNCHANGED identityVars
  BY <1>14 DEF identityVars
<1> QED
  BY <1>1, <1>2, <1>3, <1>4, <1>5, <1>6, <1>7, <1>8, <1>9, <1>10, <1>11, <1>12, <1>13,
     <1>14 DEF IdentityNext

\* The invariant is stronger than the property.
LEMMA ItselfFollows == IdentityInv => NodeIsItself
<1> SUFFICES ASSUME IdentityInv PROVE NodeIsItself
  OBVIOUS
<1>1. \A item \in {"node_id", "priv_key"} : kept[item] # Unset => nvs[item] = kept[item]
  BY DEF IdentityInv, PairKept, Items
<1> QED BY <1>1 DEF IdentityInv, NothingRefused, NodeIsItself

\* For any number of power cycles, resets, refused writes, seeds and draws: the
\* node's identifier and key that load_or_create_identity stored stay stored, and
\* while NVS refuses nothing the node runs with them, with the setting that
\* save_repeater_setting stored and with the identity of IdentityManager.
THEOREM NodesStayThemselves == IdentitySpec => []NodeIsItself
<1>1. IdentityAssumption
  BY IdentityAssumption
<1> QED BY <1>1, InitIdentityInv, NextIdentityInv, ItselfFollows, PTL DEF IdentitySpec

\* The type of the identities is kept with how far they are drawn.
IdentityTypeInv ==
    /\ IdentityTypeOK
    /\ DOMAIN nvs = Items /\ DOMAIN node = Items \cup {"step", "before"}
    /\ drawn \in 0 .. MaxDrawn
    /\ node.node_id \in Drawn \cup {Unset} /\ node.priv_key \in Drawn \cup {Unset}
    /\ node.step \in {"store_id", "store_key"} =>
          node.node_id \in Drawn /\ node.priv_key \in Drawn

LEMMA IdentityTypeSteps ==
    ASSUME IdentityAssumption, IdentityTypeInv, [IdentityNext]_identityVars
    PROVE  IdentityTypeInv'
<1> USE DEF IdentityTypeInv, IdentityTypeOK, Items, Drawn, IdentityAssumption
<1>1. CASE LoadIdentity
  BY <1>1 DEF LoadIdentity, Asks, Known, HasIdentity
<1>2. CASE CreateIdentity
  BY <1>2 DEF CreateIdentity, Asks, HasIdentity, Draw
<1>3. CASE EphemeralIdentity
  BY <1>3 DEF EphemeralIdentity, Asks, Known, Draw, Nvs
<1>4. CASE InitManager
  BY <1>4 DEF InitManager
<1>5. CASE PowerCycle
  BY <1>5 DEF PowerCycle, NoNode
<1>6. CASE FactoryReset
  BY <1>6 DEF FactoryReset
<1>7. ASSUME NEW ok \in BOOLEAN, StoreNodeId(ok) PROVE IdentityTypeInv'
  BY <1>7 DEF StoreNodeId, Nvs
<1>8. ASSUME NEW ok \in BOOLEAN, StorePrivateKey(ok) PROVE IdentityTypeInv'
  BY <1>8 DEF StorePrivateKey, Known, Nvs
<1>9. ASSUME NEW ok \in BOOLEAN, LoadRepeater(ok) PROVE IdentityTypeInv'
  BY <1>9 DEF LoadRepeater, Nvs
<1>10. ASSUME NEW ok \in BOOLEAN, NewIdentity(ok) PROVE IdentityTypeInv'
  BY <1>10 DEF NewIdentity, SaveIdentity, Nvs
<1>11. ASSUME NEW ok \in BOOLEAN, InitManagerBlind(ok) PROVE IdentityTypeInv'
  BY <1>11 DEF InitManagerBlind, SaveIdentity, Nvs
<1>12. ASSUME NEW ok \in BOOLEAN, NEW on \in BOOLEAN, SetRepeater(on, ok) PROVE IdentityTypeInv'
  BY <1>12 DEF SetRepeater, StoredRepeater, Nvs
<1>13. ASSUME NEW ok \in BOOLEAN, NEW seed \in Seeds, ImportSeed(seed, ok) PROVE IdentityTypeInv'
  BY <1>13 DEF ImportSeed, SaveIdentity, Nvs
<1>14. CASE UNCHANGED identityVars
  BY <1>14 DEF identityVars
<1> QED
  BY <1>1, <1>2, <1>3, <1>4, <1>5, <1>6, <1>7, <1>8, <1>9, <1>10, <1>11, <1>12, <1>13,
     <1>14 DEF IdentityNext

LEMMA IdentityTypes == IdentitySpec => []IdentityTypeOK
<1>1. IdentityInit => IdentityTypeInv
  BY IdentityAssumption DEF IdentityAssumption, IdentityInit, IdentityTypeInv, IdentityTypeOK,
     Items, NoNode, Drawn
<1>2. IdentityTypeInv /\ [IdentityNext]_identityVars => IdentityTypeInv'
  BY IdentityAssumption, IdentityTypeSteps
<1>3. IdentityTypeInv => IdentityTypeOK
  BY DEF IdentityTypeInv
<1> QED BY <1>1, <1>2, <1>3, PTL DEF IdentitySpec

-------------------------------------------------------------------------------
OtaFields == {"state", "header_buf", "header", "hasher", "handle", "keys", "min_version"}
FlashFields == {"content", "running", "boot", "open", "present"}

\* A header that write_header lets through.
Accepted(i) == i.signed /\ i.key \in ToSet(Owners) /\ i.size <= MaxFirmware

Verified(firmware) ==
    firmware = Factory \/ \E i \in Images : Accepted(i) /\ firmware = i.hash

\* While an update is on its way the partition that will boot is the one that
\* runs, and the other one holds what has been hashed.
Sound(o, f) ==
    /\ DOMAIN o = OtaFields /\ DOMAIN f = FlashFields
    /\ DOMAIN f.content = {0, 1} /\ f.running \in {0, 1} /\ f.boot \in {0, 1}
    /\ o.keys \in Seq(ToSet(Owners))
    /\ o.state \in {"ReceivingHeader", "Receiving"} =>
          f.boot = f.running /\ f.content[1 - f.running] = o.hasher
    /\ o.state = "Receiving" => \E i \in Images : o.header = <<i>> /\ Accepted(i)
    /\ Verified(f.content[f.boot])

OtaInv ==
    /\ doubtful \in BOOLEAN
    /\ doubtful \/ Sound(ota, flash)

\* verify_and_finish switches the boot partition only after the hash agreed.
LEMMA FinishSound ==
    ASSUME NEW o, NEW f, NEW fails, Sound(o, f), o.state = "Receiving",
           f.running = flash.running
    PROVE  Sound(Finish(o, f, fails).ota, Finish(o, f, fails).flash)
<1> DEFINE result == Finish(o, f, fails)
<1>1. PICK i \in Images : o.header = <<i>> /\ Accepted(i)
  BY DEF Sound
<1>2. o.header[1] = i
  BY <1>1
<1>3. CASE o.hasher # i.hash
  <2>1. result = [ota |-> Aborted(o), flash |-> [f EXCEPT !.open = FALSE]]
    BY <1>2, <1>3 DEF Finish
  <2>2. Sound(Aborted(o), [f EXCEPT !.open = FALSE])
    BY DEF Sound, Aborted, OtaFields, FlashFields
  <2> QED BY <2>1, <2>2
<1>4. CASE o.hasher = i.hash /\ fails = "finish"
  <2>1. result = [ota |-> Failed(o), flash |-> [f EXCEPT !.open = FALSE]]
    BY <1>2, <1>4 DEF Finish
  <2>2. Sound(Failed(o), [f EXCEPT !.open = FALSE])
    BY DEF Sound, Failed, OtaFields, FlashFields
  <2> QED BY <2>1, <2>2
<1>5. CASE o.hasher = i.hash /\ fails # "finish"
  <2> DEFINE o2 == [o EXCEPT !.state = "Complete"]
             f2 == [f EXCEPT !.open = FALSE, !.boot = NextPartition]
  <2>1. result = [ota |-> o2, flash |-> f2]
    BY <1>2, <1>5 DEF Finish
  <2>2. /\ f2.boot = 1 - f.running /\ f2.content = f.content /\ f2.running = f.running
        /\ DOMAIN f2 = FlashFields
        /\ DOMAIN o2 = OtaFields /\ o2.keys = o.keys /\ o2.state = "Complete"
    BY DEF Sound, OtaFields, FlashFields, NextPartition
  <2>3. Verified(f2.content[f2.boot])
    BY <1>1, <1>5, <2>2 DEF Sound, Verified
  <2> HIDE DEF o2, f2
  <2>4. Sound(o2, f2)
    BY <2>2, <2>3 DEF Sound
  <2> QED BY <2>1, <2>4
<1> QED BY <1>3, <1>4, <1>5

\* write_firmware hashes what it writes, and hands over to verify_and_finish.
LEMMA FirmwareSound ==
    ASSUME NEW o, NEW f, NEW data, NEW fails, Sound(o, f), o.state = "Receiving",
           f.running = flash.running
    PROVE  Sound(WriteFirmware(o, f, data, fails).ota, WriteFirmware(o, f, data, fails).flash)
<1> DEFINE left  == o.header[1].size - Len(o.hasher)
           taken == SubSeq(data, 1, IF Len(data) < left THEN Len(data) ELSE left)
           o2    == [o EXCEPT !.hasher = @ \o taken]
           f2    == [f EXCEPT !.content[NextPartition] = @ \o taken]
           result == WriteFirmware(o, f, data, fails)
<1>1. result = IF taken = << >> THEN [ota |-> o, flash |-> f]
               ELSE IF fails = "write" THEN [ota |-> Failed(o2), flash |-> f]
               ELSE IF Len(taken) < left THEN [ota |-> o2, flash |-> f2]
               ELSE Finish(o2, f2, fails)
  BY DEF WriteFirmware
<1> HIDE DEF taken, left, result
<1>2. Sound(Failed(o2), f)
  BY DEF Sound, Failed, OtaFields
<1>3. /\ DOMAIN f2 = FlashFields /\ f2.running = f.running /\ f2.boot = f.boot
      /\ DOMAIN f2.content = {0, 1} /\ f2.content[f.running] = f.content[f.running]
      /\ f2.content[1 - f.running] = o.hasher \o taken
  <2>1. NextPartition = 1 - f.running /\ f.running \in {0, 1} /\ 1 - f.running \in {0, 1}
        /\ 1 - f.running # f.running
    BY DEF NextPartition, Sound
  <2> QED BY <2>1 DEF Sound, FlashFields
<1>4. /\ DOMAIN o2 = OtaFields /\ o2.state = "Receiving" /\ o2.header = o.header
      /\ o2.keys = o.keys /\ o2.hasher = o.hasher \o taken
  BY DEF Sound, OtaFields
<1> HIDE DEF o2, f2
<1>5. Sound(o2, f2)
  BY <1>3, <1>4 DEF Sound
<1>6. Sound(Finish(o2, f2, fails).ota, Finish(o2, f2, fails).flash)
  BY <1>3, <1>4, <1>5, FinishSound
<1>7. CASE taken = << >>
  <2>1. result = [ota |-> o, flash |-> f]
    BY <1>1, <1>7
  <2> QED BY <2>1 DEF result
<1>8. CASE taken # << >> /\ fails = "write"
  <2>1. result = [ota |-> Failed(o2), flash |-> f]
    BY <1>1, <1>8
  <2> QED BY <1>2, <2>1 DEF result, o2
<1>9. CASE taken # << >> /\ fails # "write" /\ Len(taken) < left
  <2>1. result = [ota |-> o2, flash |-> f2]
    BY <1>1, <1>9
  <2> QED BY <1>5, <2>1 DEF result
<1>10. CASE taken # << >> /\ fails # "write" /\ ~ (Len(taken) < left)
  <2>1. result = Finish(o2, f2, fails)
    BY <1>1, <1>10
  <2> QED BY <1>6, <2>1 DEF result
<1> QED BY <1>7, <1>8, <1>9, <1>10

\* write_header goes on only with a header it accepts.
LEMMA HeaderSound ==
    ASSUME OtaAssumption, NEW data, NEW fails, Sound(ota, flash), ota.state = "ReceivingHeader"
    PROVE  Sound(WriteHeader(data, fails).ota, WriteHeader(data, fails).flash)
<1> DEFINE need  == 2 - Len(ota.header_buf)
           taken == SubSeq(data, 1, IF Len(data) < need THEN Len(data) ELSE need)
           rest  == SubSeq(data, Len(taken) + 1, Len(data))
           buf   == ota.header_buf \o taken
           o     == [ota EXCEPT !.header_buf = buf]
           valid == buf[1] \in Halves /\ buf[1].half = "front" /\ buf[1].image.magic
           image == buf[1].image
           o2    == [o EXCEPT !.header = <<image>>, !.state = "Receiving"]
           refused == \/ image.size > MaxFirmware \/ ota.keys = << >>
                      \/ image.version < ota.min_version
                      \/ buf[2] \notin Halves
                      \/ ~ Trusted(buf[1], buf[2])
           result == WriteHeader(data, fails)
<1>1. result = IF Len(buf) < 2 \/ ~ valid THEN [ota |-> o, flash |-> flash]
               ELSE IF refused THEN [ota |-> Failed(o), flash |-> flash]
               ELSE WriteFirmware(o2, flash, rest, fails)
  BY DEF WriteHeader
<1> HIDE DEF buf, rest, taken, need
<1>2. /\ DOMAIN o = OtaFields /\ o.state = ota.state /\ o.keys = ota.keys
      /\ o.hasher = ota.hasher /\ o.header = ota.header
  BY DEF Sound, OtaFields
<1>3. Sound(o, flash)
  <2> HIDE DEF o
  <2> QED BY <1>2 DEF Sound
<1>4. Sound(Failed(o), flash)
  <2> HIDE DEF o
  <2> QED BY <1>3 DEF Sound, Failed, OtaFields
<1>5. ASSUME valid, ~ refused PROVE Sound(o2, flash) /\ o2.state = "Receiving"
  <2>1. image \in Images
    BY <1>5 DEF Halves
  <2>2. Accepted(image)
    <3>1. image.signed /\ image.key \in ToSet(ota.keys)
      BY <1>5 DEF Trusted
    <3>2. ToSet(ota.keys) \subseteq ToSet(Owners)
      BY DEF Sound, ToSet
    <3>3. ~ (image.size > MaxFirmware)
      BY <1>5
    <3>4. image.size <= MaxFirmware
      BY <2>1, <3>3 DEF OtaAssumption
    <3> QED BY <3>1, <3>2, <3>4 DEF Accepted
  <2> HIDE DEF o, image, refused, valid
  <2>3. /\ DOMAIN o2 = OtaFields /\ o2.state = "Receiving" /\ o2.keys = ota.keys
        /\ o2.hasher = ota.hasher /\ o2.header = <<image>>
    BY <1>2 DEF OtaFields
  <2> HIDE DEF o2
  <2>4. Sound(o2, flash)
    BY <2>1, <2>2, <2>3 DEF Sound
  <2> QED BY <2>3, <2>4
<1> HIDE DEF o, o2, valid, refused, result
<1>6. CASE Len(buf) < 2 \/ ~ valid
  <2>1. result = [ota |-> o, flash |-> flash]
    BY <1>1, <1>6
  <2> QED BY <1>3, <2>1 DEF result
<1>7. CASE ~ (Len(buf) < 2 \/ ~ valid) /\ refused
  <2>1. result = [ota |-> Failed(o), flash |-> flash]
    BY <1>1, <1>7
  <2> QED BY <1>4, <2>1 DEF result
<1>8. CASE ~ (Len(buf) < 2 \/ ~ valid) /\ ~ refused
  <2>1. result = WriteFirmware(o2, flash, rest, fails)
    BY <1>1, <1>8
  <2>2. Sound(o2, flash) /\ o2.state = "Receiving"
    BY <1>5, <1>8
  <2> QED BY <2>1, <2>2, FirmwareSound DEF result
<1> QED BY <1>6, <1>7, <1>8

\* A device runs the firmware it was flashed with.
LEMMA InitOtaInv == OtaInit => OtaInv
BY DEF OtaInit, OtaInv, Sound, NewOta, OtaFields, FlashFields, Verified

\* Every call, whether the flash takes it or not, and every restart keep it.
LEMMA NextOtaInv == OtaAssumption /\ OtaInv /\ [OtaNext]_otaVars => OtaInv'
<1> SUFFICES ASSUME OtaAssumption, OtaInv, [OtaNext]_otaVars PROVE OtaInv'
  OBVIOUS
<1>1. CASE doubtful
  BY <1>1 DEF OtaInv, OtaNext, otaVars, AddTrustedKey, SetMinVersion, Begin, Abort, Write,
              Apply, OtaReboot
<1>2. CASE ~ doubtful
  <2>1. Sound(ota, flash)
    BY <1>2 DEF OtaInv
  <2>2. CASE AddTrustedKey
    <3>1. ota' = [ota EXCEPT !.keys = Append(@, Owners[Len(ota.keys) + 1])]
          /\ flash' = flash /\ doubtful' = doubtful
      BY <2>2 DEF AddTrustedKey
    <3>2. Owners[Len(ota.keys) + 1] \in ToSet(Owners)
      BY <2>1, <2>2 DEF AddTrustedKey, OtaAssumption, ToSet, Sound
    <3>3. Append(ota.keys, Owners[Len(ota.keys) + 1]) \in Seq(ToSet(Owners))
      BY <2>1, <3>2 DEF Sound
    <3>4. Sound(ota', flash')
      BY <2>1, <3>1, <3>3 DEF Sound, OtaFields
    <3> QED BY <1>2, <3>1, <3>4 DEF OtaInv
  <2>3. ASSUME NEW v \in MinVersions, SetMinVersion(v) PROVE OtaInv'
    <3>1. Sound(ota', flash')
      BY <2>1, <2>3 DEF SetMinVersion, Sound, OtaFields
    <3> QED BY <1>2, <2>3, <3>1 DEF SetMinVersion, OtaInv
  <2>4. ASSUME NEW ok \in BOOLEAN, Begin(ok) PROVE OtaInv'
    <3>1. CASE ~ (flash.present /\ ok)
      <4>1. Sound(ota', flash')
        BY <2>1, <2>4, <3>1 DEF Begin, Sound, OtaFields
      <4> QED BY <1>2, <2>4, <3>1, <4>1 DEF Begin, OtaInv
    <3>2. CASE flash.present /\ ok /\ flash.boot = flash.running
      <4>1. /\ flash' = [flash EXCEPT !.content[NextPartition] = << >>, !.open = TRUE]
            /\ ota' = [ota EXCEPT !.state = "ReceivingHeader", !.header_buf = << >>,
                                  !.header = << >>, !.hasher = << >>, !.handle = TRUE]
            /\ doubtful' = FALSE
        BY <1>2, <2>4, <3>2 DEF Begin
      <4>2. NextPartition = 1 - flash.running /\ NextPartition \in {0, 1}
            /\ NextPartition # flash.running
        BY <2>1 DEF NextPartition, Sound
      <4>3. /\ DOMAIN flash' = FlashFields /\ DOMAIN flash'.content = {0, 1}
            /\ flash'.running = flash.running /\ flash'.boot = flash.boot
            /\ flash'.content[flash.running] = flash.content[flash.running]
            /\ flash'.content[1 - flash.running] = << >>
        BY <2>1, <4>1, <4>2 DEF Sound, FlashFields
      <4>4. /\ DOMAIN ota' = OtaFields /\ ota'.state = "ReceivingHeader"
            /\ ota'.keys = ota.keys /\ ota'.hasher = << >>
        BY <2>1, <4>1 DEF Sound, OtaFields
      <4>5. Sound(ota', flash')
        BY <2>1, <3>2, <4>3, <4>4 DEF Sound
      <4> QED BY <4>1, <4>5 DEF OtaInv
    <3>3. CASE flash.present /\ ok /\ flash.boot # flash.running
      BY <2>4, <3>3 DEF Begin, OtaInv
    <3> QED BY <3>1, <3>2, <3>3
  <2>5. CASE Abort
    <3>1. Sound(ota', flash')
      BY <2>1, <2>5 DEF Abort, Aborted, Sound, OtaFields, FlashFields
    <3> QED BY <1>2, <2>5, <3>1 DEF Abort, OtaInv
  <2>6. ASSUME NEW data \in Chunks, Write(data) PROVE OtaInv'
    <3>1. \/ /\ ota.state = "ReceivingHeader"
             /\ \E fails : Apply(WriteHeader(data, fails))
          \/ /\ ota.state = "Receiving"
             /\ \E fails : Apply(WriteFirmware(ota, flash, data, fails))
      BY <2>6 DEF Write
    <3>2. Sound(ota', flash') /\ doubtful' = doubtful
      BY <2>1, <3>1, HeaderSound, FirmwareSound DEF Apply
    <3> QED BY <1>2, <3>2 DEF OtaInv
  <2>7. CASE OtaReboot
    <3>1. /\ ota' = NewOta /\ doubtful' = doubtful
          /\ flash' = [flash EXCEPT !.running = flash.boot, !.boot = flash.boot, !.open = FALSE]
      BY <1>2, <2>7 DEF OtaReboot
    <3>2. Sound(ota', flash')
      BY <2>1, <3>1 DEF Sound, NewOta, OtaFields, FlashFields
    <3> QED BY <1>2, <3>1, <3>2 DEF OtaInv
  <2>8. CASE UNCHANGED otaVars
    BY <2>8 DEF otaVars, OtaInv, Sound
  <2> QED BY <2>2, <2>3, <2>4, <2>5, <2>6, <2>7, <2>8 DEF OtaNext
<1> QED BY <1>1, <1>2

\* The invariant is stronger than the property.
LEMMA VerifiedFollows == OtaInv => BootsVerified
BY DEF OtaInv, Sound, Verified, Accepted, BootsVerified

\* For any images, owners and chunks, in any order of the calls and with any of
\* them failing, what OtaUpdater lets boot is the firmware that ran or one whose
\* header an owner signed and whose content has the hash of that header.
THEOREM OnlyVerifiedBoots == OtaSpec => []BootsVerified
<1>1. OtaAssumption
  BY OtaAssumption
<1> QED BY <1>1, InitOtaInv, NextOtaInv, VerifiedFollows, PTL DEF OtaSpec

\* The units a chunk is made of.
Pieces == UNION {ToSet(Stream(i)) : i \in Images}

LEMMA ChunkOfPieces ==
    ASSUME OtaAssumption, NEW data \in Chunks
    PROVE  data \in Seq(Pieces) /\ Len(data) \in Nat
<1>1. PICK i \in Images : \E m, n \in 1 .. Len(Stream(i)) : data = SubSeq(Stream(i), m, n)
  BY DEF Chunks
<1>2. PICK m \in 1 .. Len(Stream(i)), n \in 1 .. Len(Stream(i)) : data = SubSeq(Stream(i), m, n)
  BY <1>1
<1>3. Stream(i) \in Seq(ToSet(Stream(i)))
  <2> DEFINE h == i.hash
             S == ToSet(h) \cup {[image |-> i, half |-> "front"], [image |-> i, half |-> "back"]}
  <2>1. h \in Seq(ToSet(h)) /\ h # << >> /\ Len(h) \in Nat \ {0} /\ h[1] \in ToSet(h)
    <3>1. h \in Seq(ToSet(h)) /\ h # << >>
      BY DEF OtaAssumption
    <3> QED BY <3>1
  <2>2. h \in Seq(S)
    BY <2>1
  <2> HIDE DEF h
  <2>3. <<[image |-> i, half |-> "front"], [image |-> i, half |-> "back"]>> \in Seq(S)
    OBVIOUS
  <2>4. <<h[1]>> \in Seq(S)
    BY <2>1
  <2>5. Stream(i) = (<<[image |-> i, half |-> "front"], [image |-> i, half |-> "back"]>> \o h)
                       \o <<h[1]>>
    BY Zenon DEF Stream, h
  <2> HIDE DEF S
  <2>6. Stream(i) \in Seq(S)
    BY <2>2, <2>3, <2>4, <2>5
  <2>7. Stream(i) \in [1 .. Len(Stream(i)) -> ToSet(Stream(i))]
    BY <2>6 DEF ToSet
  <2> QED BY <2>6, <2>7
<1>4. Stream(i) \in Seq(Pieces)
  BY <1>3 DEF Pieces
<1> QED BY <1>2, <1>4

\* OtaUpdater's buffers, and that it holds a handle while an update is open.
Shaped(o, f) ==
    /\ DOMAIN o = OtaFields /\ DOMAIN f = FlashFields
    /\ o.state \in OtaStates
    /\ o.header_buf \in Seq(Pieces) /\ Len(o.header_buf) <= 2
    /\ Len(o.header) \in 0 .. 1
    /\ Len(o.keys) \in 0 .. 2 /\ o.keys \in Seq(ToSet(Owners))
    /\ o.state = "Receiving" => o.header # << >>
    /\ o.state \in {"ReceivingHeader", "Receiving"} => o.handle
    /\ f.open => o.handle
    /\ f.running \in {0, 1} /\ f.boot \in {0, 1}

LEMMA FinishShaped ==
    ASSUME NEW o, NEW f, NEW fails, Shaped(o, f), flash.running \in {0, 1}
    PROVE  Shaped(Finish(o, f, fails).ota, Finish(o, f, fails).flash)
<1> DEFINE result == Finish(o, f, fails)
           shut == [f EXCEPT !.open = FALSE]
           done == [o EXCEPT !.state = "Complete"]
<1>1. \/ result = [ota |-> Aborted(o), flash |-> shut]
      \/ result = [ota |-> Failed(o), flash |-> shut]
      \/ result = [ota |-> done, flash |-> [shut EXCEPT !.boot = NextPartition]]
  <2>1. [f EXCEPT !.open = FALSE, !.boot = NextPartition] = [shut EXCEPT !.boot = NextPartition]
    OBVIOUS
  <2> QED BY <2>1, Zenon DEF Finish
<1>2. Shaped(Aborted(o), shut)
  <2> DEFINE idle == [o EXCEPT !.state = "Idle"]
  <2>1. Aborted(o) = [idle EXCEPT !.handle = FALSE]
    BY DEF Aborted
  <2> QED BY <2>1 DEF Shaped, OtaFields, FlashFields, OtaStates
<1>3. Shaped(Failed(o), shut)
  BY DEF Shaped, Failed, OtaFields, FlashFields, OtaStates
<1>4. Shaped(done, [shut EXCEPT !.boot = NextPartition])
  BY DEF Shaped, OtaFields, FlashFields, OtaStates, NextPartition
<1> HIDE DEF result, shut, done
<1> QED BY <1>1, <1>2, <1>3, <1>4 DEF result

LEMMA FirmwareShaped ==
    ASSUME NEW o, NEW f, NEW data, NEW fails, Shaped(o, f), o.state = "Receiving",
           flash.running \in {0, 1}
    PROVE  LET result == WriteFirmware(o, f, data, fails)
           IN  Shaped(result.ota, result.flash)
<1> DEFINE left  == o.header[1].size - Len(o.hasher)
           taken == SubSeq(data, 1, IF Len(data) < left THEN Len(data) ELSE left)
           o2    == [o EXCEPT !.hasher = @ \o taken]
           f2    == [f EXCEPT !.content[NextPartition] = @ \o taken]
           result == WriteFirmware(o, f, data, fails)
<1>1. \/ result = [ota |-> o, flash |-> f]
      \/ result = [ota |-> Failed(o2), flash |-> f]
      \/ result = [ota |-> o2, flash |-> f2]
      \/ result = Finish(o2, f2, fails)
  BY Zenon DEF WriteFirmware
<1> HIDE DEF taken, result
<1>2. Shaped(o2, f2)
  BY DEF Shaped, OtaFields, FlashFields
<1>3. Shaped(Failed(o2), f)
  BY DEF Shaped, Failed, OtaFields, FlashFields, OtaStates
<1>4. Shaped(Finish(o2, f2, fails).ota, Finish(o2, f2, fails).flash)
  BY <1>2, FinishShaped
<1> HIDE DEF o2, f2
<1> QED BY <1>1, <1>2, <1>3, <1>4 DEF result

LEMMA HeaderShaped ==
    ASSUME OtaAssumption, Shaped(ota, flash), ota.state = "ReceivingHeader",
           NEW data \in Chunks, NEW fails
    PROVE  LET result == WriteHeader(data, fails)
           IN  Shaped(result.ota, result.flash)
<1> DEFINE need  == 2 - Len(ota.header_buf)
           end   == IF Len(data) < need THEN Len(data) ELSE need
           taken == SubSeq(data, 1, end)
           rest  == SubSeq(data, Len(taken) + 1, Len(data))
           buf   == ota.header_buf \o taken
           o     == [ota EXCEPT !.header_buf = buf]
           image == buf[1].image
           o1    == [o EXCEPT !.header = <<image>>]
           o2    == [o1 EXCEPT !.state = "Receiving"]
           result == WriteHeader(data, fails)
<1>1. data \in Seq(Pieces) /\ Len(data) \in Nat
  BY ChunkOfPieces
<1>2. buf \in Seq(Pieces) /\ Len(buf) <= 2
  <2>1. ota.header_buf \in Seq(Pieces) /\ Len(ota.header_buf) \in 0 .. 2 /\ need \in 0 .. 2
    <3>1. ota.header_buf \in Seq(Pieces) /\ Len(ota.header_buf) <= 2
      BY DEF Shaped
    <3>2. Len(ota.header_buf) \in Nat
      BY <3>1
    <3> DEFINE n == Len(ota.header_buf)
    <3>3. n \in Nat /\ n <= 2
      BY <3>1, <3>2
    <3> HIDE DEF n
    <3>4. n \in 0 .. 2 /\ 2 - n \in 0 .. 2
      BY <3>3, SMT
    <3> QED BY <3>1, <3>4 DEF n
  <2>2. end \in 0 .. Len(data) /\ end <= need /\ end \in Nat
    <3> HIDE DEF need
    <3> QED BY <1>1, <2>1
  <2> HIDE DEF end, need
  <2>3. taken \in Seq(Pieces) /\ Len(taken) = end
    BY <1>1, <2>2
  <2> HIDE DEF taken
  <2> QED BY <2>1, <2>2, <2>3 DEF need
<1>3. [o EXCEPT !.header = <<image>>, !.state = "Receiving"] = o2
  OBVIOUS
<1>4. \/ result = [ota |-> o, flash |-> flash]
      \/ result = [ota |-> Failed(o), flash |-> flash]
      \/ result = WriteFirmware(o2, flash, rest, fails)
  BY <1>3, Zenon DEF WriteHeader
<1> HIDE DEF buf, image, rest, result
<1>5. Shaped(o, flash)
  BY <1>2 DEF Shaped, OtaFields
<1>6. Shaped(Failed(o), flash)
  BY <1>2 DEF Shaped, Failed, OtaFields, OtaStates
<1>7. Shaped(o2, flash) /\ o2.state = "Receiving"
  <2>1. o2.state = "Receiving" /\ o2.header = <<image>> /\ DOMAIN o2 = OtaFields
        /\ o2.header_buf = buf /\ o2.keys = ota.keys /\ o2.handle = ota.handle
    BY DEF Shaped, OtaFields
  <2> HIDE DEF o2
  <2>2. Len(<<image>>) = 1 /\ <<image>> # << >>
    OBVIOUS
  <2> QED BY <1>2, <2>1, <2>2 DEF Shaped, OtaStates
<1> HIDE DEF o, o2
<1>8. LET r == WriteFirmware(o2, flash, rest, fails) IN Shaped(r.ota, r.flash)
  BY <1>7, FirmwareShaped DEF Shaped
<1> QED BY <1>4, <1>5, <1>6, <1>8 DEF result

LEMMA OtaTypeSteps ==
    ASSUME OtaAssumption, Shaped(ota, flash), [OtaNext]_otaVars
    PROVE  Shaped(ota, flash)'
<1>1. CASE AddTrustedKey
  <2>1. ota' = [ota EXCEPT !.keys = Append(ota.keys, Owners[Len(ota.keys) + 1])] /\ flash' = flash
        /\ Len(ota.keys) < 2 /\ Len(ota.keys) < Len(Owners)
    BY <1>1 DEF AddTrustedKey
  <2>2. Owners[Len(ota.keys) + 1] \in ToSet(Owners)
    BY <1>1 DEF AddTrustedKey, OtaAssumption, ToSet, Shaped
  <2>3. Append(ota.keys, Owners[Len(ota.keys) + 1]) \in Seq(ToSet(Owners))
        /\ Len(Append(ota.keys, Owners[Len(ota.keys) + 1])) = Len(ota.keys) + 1
    BY <2>2 DEF Shaped
  <2> QED BY <2>1, <2>3 DEF Shaped, OtaFields
<1>2. ASSUME NEW v \in MinVersions, SetMinVersion(v) PROVE Shaped(ota, flash)'
  BY <1>2 DEF SetMinVersion, Shaped, OtaFields
<1>3. ASSUME NEW ok \in BOOLEAN, Begin(ok) PROVE Shaped(ota, flash)'
  <2> DEFINE o1 == [ota EXCEPT !.header_buf = << >>]
             o2 == [o1 EXCEPT !.header = << >>]
             o3 == [o2 EXCEPT !.hasher = << >>]
             o4 == [o3 EXCEPT !.state = "ReceivingHeader"]
             o5 == [o4 EXCEPT !.handle = TRUE]
             g1 == [flash EXCEPT !.content[NextPartition] = << >>]
             g2 == [g1 EXCEPT !.open = TRUE]
  <2>1. << >> \in Seq(Pieces) /\ Len(<< >>) = 0
    OBVIOUS
  <2>2. /\ DOMAIN o3 = OtaFields /\ o3.state = ota.state /\ o3.header_buf = << >>
        /\ o3.header = << >> /\ o3.keys = ota.keys /\ o3.handle = ota.handle
    BY DEF Shaped, OtaFields
  <2>3. ota.state = "Idle"
    BY <1>3 DEF Begin
  <2>4. CASE flash.present /\ ok
    <3>1. flash' = g2 /\ ota' = o5
      <4>1. /\ flash' = [flash EXCEPT !.content[NextPartition] = << >>, !.open = TRUE]
            /\ ota' = [ota EXCEPT !.state = "ReceivingHeader", !.header_buf = << >>,
                                  !.header = << >>, !.hasher = << >>, !.handle = TRUE]
        BY <1>3, <2>4 DEF Begin
      <4>2. [flash EXCEPT !.content[NextPartition] = << >>, !.open = TRUE] = g2
        OBVIOUS
      <4>3. [ota EXCEPT !.state = "ReceivingHeader", !.header_buf = << >>,
                        !.header = << >>, !.hasher = << >>, !.handle = TRUE] = o5
        OBVIOUS
      <4> QED BY <4>1, <4>2, <4>3, Zenon
    <3> HIDE DEF o3
    <3>2. /\ DOMAIN o5 = OtaFields /\ o5.state = "ReceivingHeader" /\ o5.header_buf = << >>
          /\ o5.header = << >> /\ o5.keys = ota.keys /\ o5.handle
      BY <2>2 DEF OtaFields
    <3>3. DOMAIN g2 = FlashFields /\ g2.running = flash.running /\ g2.boot = flash.boot
      BY DEF Shaped, FlashFields
    <3> HIDE DEF o5, g2
    <3> QED BY <2>1, <3>1, <3>2, <3>3 DEF Shaped, OtaStates
  <2>5. CASE ~ (flash.present /\ ok)
    <3>1. flash' = flash /\ ota' = o3
      <4>1. flash' = flash /\ ota' = [ota EXCEPT !.header_buf = << >>, !.header = << >>, !.hasher = << >>]
        BY <1>3, <2>5 DEF Begin
      <4>2. [ota EXCEPT !.header_buf = << >>, !.header = << >>, !.hasher = << >>] = o3
        OBVIOUS
      <4> QED BY <4>1, <4>2, Zenon
    <3>2. flash.open => o3.handle
      BY DEF Shaped, OtaFields
    <3> HIDE DEF o3
    <3>3. /\ DOMAIN ota' = OtaFields /\ DOMAIN flash' = FlashFields /\ ota'.state = "Idle"
          /\ ota'.header_buf = << >> /\ ota'.header = << >> /\ ota'.keys = ota.keys
          /\ flash'.running = flash.running /\ flash'.boot = flash.boot
          /\ flash'.open => ota'.handle
      BY <2>2, <2>3, <3>1, <3>2 DEF Shaped
    <3> QED BY <2>1, <3>3 DEF Shaped, OtaStates
  <2> QED BY <2>4, <2>5
<1>4. CASE Abort
  <2> DEFINE idle == [ota EXCEPT !.state = "Idle"]
  <2>1. ota' = [idle EXCEPT !.handle = FALSE] /\ flash' = [flash EXCEPT !.open = FALSE]
    BY <1>4 DEF Abort, Aborted
  <2> QED BY <2>1 DEF Shaped, OtaFields, FlashFields, OtaStates
<1>5. ASSUME NEW data \in Chunks, Write(data) PROVE Shaped(ota, flash)'
  <2>1. \/ /\ ota.state = "ReceivingHeader"
           /\ \E fails : Apply(WriteHeader(data, fails))
        \/ /\ ota.state = "Receiving"
           /\ \E fails : Apply(WriteFirmware(ota, flash, data, fails))
    BY <1>5 DEF Write
  <2>2. flash.running \in {0, 1}
    BY DEF Shaped
  <2>3. ASSUME NEW fails, Apply(WriteHeader(data, fails)), ota.state = "ReceivingHeader"
        PROVE  Shaped(ota', flash')
    BY <2>3, HeaderShaped DEF Apply
  <2>4. ASSUME NEW fails, Apply(WriteFirmware(ota, flash, data, fails)), ota.state = "Receiving"
        PROVE  Shaped(ota', flash')
    BY <2>2, <2>4, FirmwareShaped DEF Apply
  <2> QED BY <2>1, <2>3, <2>4
<1>6. CASE OtaReboot
  <2>1. PICK p \in {0, 1} : flash' = [flash EXCEPT !.running = p, !.boot = p, !.open = FALSE]
    BY <1>6 DEF OtaReboot
  <2> DEFINE f1 == [flash EXCEPT !.running = p]
             f2 == [f1 EXCEPT !.boot = p]
             f3 == [f2 EXCEPT !.open = FALSE]
  <2>2. flash' = f3
    <3>1. [flash EXCEPT !.running = p, !.boot = p, !.open = FALSE] = f3
      OBVIOUS
    <3> QED BY <2>1, <3>1, Zenon
  <2>3. DOMAIN f3 = FlashFields /\ f3.running = p /\ f3.boot = p /\ f3.open = FALSE
    BY DEF Shaped, FlashFields
  <2> HIDE DEF f3
  <2>4. ota' = NewOta
    BY <1>6 DEF OtaReboot
  <2>5. << >> \in Seq(Pieces) /\ << >> \in Seq(ToSet(Owners)) /\ Len(<< >>) = 0
    OBVIOUS
  <2> QED BY <2>2, <2>3, <2>4, <2>5 DEF Shaped, NewOta, OtaFields, OtaStates
<1>7. CASE UNCHANGED otaVars
  BY <1>7 DEF otaVars
<1> QED BY <1>1, <1>2, <1>3, <1>4, <1>5, <1>6, <1>7 DEF OtaNext

LEMMA OtaTypes == OtaSpec => []OtaTypeOK
<1>1. OtaInit => Shaped(ota, flash)
  <2>1. << >> \in Seq(Pieces) /\ << >> \in Seq(ToSet(Owners)) /\ Len(<< >>) = 0
    OBVIOUS
  <2> QED BY <2>1 DEF OtaInit, Shaped, NewOta, OtaFields, FlashFields, OtaStates
<1>2. Shaped(ota, flash) /\ [OtaNext]_otaVars => Shaped(ota, flash)'
  BY OtaAssumption, OtaTypeSteps
<1>3. Shaped(ota, flash) => OtaTypeOK
  <2> SUFFICES ASSUME Shaped(ota, flash) PROVE OtaTypeOK
    OBVIOUS
  <2>1. /\ Len(ota.header_buf) <= 2 /\ Len(ota.header) <= 1 /\ Len(ota.keys) <= 2
    <3>1. Len(ota.header_buf) <= 2 /\ Len(ota.header) \in 0 .. 1 /\ Len(ota.keys) \in 0 .. 2
      BY DEF Shaped
    <3>2. (\A n \in 0 .. 1 : n <= 1) /\ \A n \in 0 .. 2 : n <= 2
      BY SMT
    <3> QED BY <3>1, <3>2, Zenon
  <2>2. ota.state = "Receiving" => ota.header # << >> /\ ota.handle
    BY DEF Shaped
  <2> QED BY <2>1, <2>2, Zenon DEF Shaped, OtaTypeOK
<1> QED BY <1>1, <1>2, <1>3, PTL DEF OtaSpec

-----------------------------------------------------------------------------
(***************************************************************************)
(* What PowerAsReported needs: no two entries are for one pin; the chip is *)
(* never armed for a pin that was not configured; and asleep it is armed   *)
(* with the pins as they are configured, since nothing configures one      *)
(* while the chip sleeps.                                                  *)
(***************************************************************************)
WakePin == [pin : Pins, high : BOOLEAN]

PowerInv ==
    /\ power \in [mode : Modes, freq : Allowed, wake_pins : Seq(WakePin),
                  cause : {"PowerOn", "Timer", "Gpio"}, naps : Nat, ready : BOOLEAN]
    /\ chip \in [freq : Allowed, mask : SUBSET Pins, any_high : BOOLEAN,
                 timer : BOOLEAN, asleep : {"no", "light", "deep"}, naps : Nat]
    /\ rtc_data \in [0 .. 7 -> 0 .. 1]
    /\ Len(power.wake_pins) <= WakeSlots
    /\ \A i, j \in 1 .. Len(power.wake_pins) :
          power.wake_pins[i].pin = power.wake_pins[j].pin => i = j
    /\ power.ready => power.freq = chip.freq
    /\ chip.mask \subseteq Armed.mask
    /\ chip.asleep # "no" =>
          chip.mask = Armed.mask /\ (chip.mask # {} => chip.any_high = Armed.any_high)

LEMMA InitPowerInv == PowerAssumption /\ PowerInit => PowerInv
<1> SUFFICES ASSUME PowerAssumption, PowerInit PROVE PowerInv
  OBVIOUS
<1>1. << >> \in Seq(WakePin) /\ Len(<< >>) = 0
  OBVIOUS
<1>2. NewPower("PowerOn") \in
         [mode : Modes, freq : Allowed, wake_pins : Seq(WakePin),
          cause : {"PowerOn", "Timer", "Gpio"}, naps : Nat, ready : BOOLEAN]
  BY <1>1 DEF NewPower, Modes, Allowed
<1>3. NewChip \in [freq : Allowed, mask : SUBSET Pins, any_high : BOOLEAN,
                   timer : BOOLEAN, asleep : {"no", "light", "deep"}, naps : Nat]
  BY DEF NewChip, Allowed
<1>4. power.wake_pins = << >> /\ power.ready = FALSE
      /\ chip.mask = {} /\ chip.asleep = "no"
  BY DEF PowerInit, NewPower, NewChip
<1> QED BY <1>1, <1>2, <1>3, <1>4 DEF PowerInv, PowerInit, PowerAssumption

\* set_cpu_frequency notes a frequency if and only if the chip has taken it.
LEMMA FrequencyTaken ==
    ASSUME PowerInv, NEW p, NEW mhz, NEW ok \in BOOLEAN,
           p \in [mode : Modes, freq : Allowed, wake_pins : Seq(WakePin),
                  cause : {"PowerOn", "Timer", "Gpio"}, naps : Nat, ready : BOOLEAN],
           p.freq = power.freq, p.wake_pins = power.wake_pins,
           p.ready => power.ready \/ (ok /\ mhz \in Allowed),
           Awake, WithFrequency(p, mhz, ok), UNCHANGED rtc_data
    PROVE  PowerInv'
<1>1. CASE mhz \in Allowed /\ ok
  <2>1. power' = [p EXCEPT !.freq = mhz] /\ chip' = [chip EXCEPT !.freq = mhz]
    BY <1>1 DEF WithFrequency
  <2>2. power'.wake_pins = power.wake_pins /\ chip'.mask = chip.mask
        /\ chip'.asleep = "no" /\ chip'.any_high = chip.any_high
        /\ power'.freq = mhz /\ chip'.freq = mhz
    BY <2>1 DEF PowerInv, Awake
  <2>3. power' \in [mode : Modes, freq : Allowed, wake_pins : Seq(WakePin),
                    cause : {"PowerOn", "Timer", "Gpio"}, naps : Nat, ready : BOOLEAN]
    BY <1>1, <2>1
  <2>5. chip' \in [freq : Allowed, mask : SUBSET Pins, any_high : BOOLEAN,
                   timer : BOOLEAN, asleep : {"no", "light", "deep"}, naps : Nat]
    BY <1>1, <2>1 DEF PowerInv
  <2>4. Armed' = Armed
    BY <2>2 DEF Armed, Usable, Configured
  <2> QED BY <2>2, <2>3, <2>4, <2>5 DEF PowerInv
<1>2. CASE ~ (mhz \in Allowed /\ ok)
  <2>1. power' = p /\ chip' = chip
    BY <1>2 DEF WithFrequency
  <2>2. power'.wake_pins = power.wake_pins
    BY <2>1
  <2>3. Armed' = Armed
    BY <2>2 DEF Armed, Usable, Configured
  <2> QED BY <1>2, <2>1, <2>2, <2>3 DEF PowerInv, Awake
<1> QED BY <1>1, <1>2

\* The pins that are armed are those of the usable entries.
LEMMA ConfigureKeeps ==
    ASSUME PowerAssumption, PowerInv, NEW pin \in Pins, NEW high \in BOOLEAN,
           ConfigureGpioWake(pin, high)
    PROVE  PowerInv'
<1> DEFINE p == power.wake_pins
           new == [pin |-> pin, high |-> high]
           mine == {i \in DOMAIN p : p[i].pin = pin}
           after == IF mine # {} THEN [i \in DOMAIN p |-> IF i \in mine THEN new ELSE p[i]]
                    ELSE IF Len(p) < WakeSlots THEN Append(p, new) ELSE p
<1>1. p \in Seq(WakePin) /\ DOMAIN p = 1 .. Len(p) /\ Len(p) \in Nat /\ new \in WakePin
      /\ Len(p) <= WakeSlots /\ WakeSlots \in Nat
      /\ \A i, j \in 1 .. Len(p) : p[i].pin = p[j].pin => i = j
  BY DEF PowerInv, WakePin, PowerAssumption
<1>2. power' = [power EXCEPT !.wake_pins = after] /\ chip' = chip
      /\ rtc_data' = rtc_data /\ chip.asleep = "no"
  BY DEF ConfigureGpioWake, Awake
<1>3. /\ after \in Seq(WakePin) /\ Len(after) <= WakeSlots
      /\ \A i, j \in 1 .. Len(after) : after[i].pin = after[j].pin => i = j
      /\ Len(p) <= Len(after)
      /\ \A i \in 1 .. Len(p) : after[i].pin = p[i].pin
  <2>1. CASE mine # {}
    <3>1. after = [i \in 1 .. Len(p) |-> IF i \in mine THEN new ELSE p[i]]
      BY <1>1, <2>1
    <3>2. after \in Seq(WakePin) /\ Len(after) = Len(p)
      BY <1>1, <3>1
    <3>3. \A i \in 1 .. Len(p) : after[i].pin = p[i].pin
      BY <1>1, <3>1
    <3> HIDE DEF after
    <3> QED BY <1>1, <3>2, <3>3
  <2>2. CASE mine = {} /\ Len(p) < WakeSlots
    <3>1. after = Append(p, new)
      BY <2>2
    <3>2. \A i \in 1 .. Len(p) : p[i].pin # pin
      BY <1>1, <2>2
    <3> HIDE DEF after, p
    <3>3. after \in Seq(WakePin) /\ Len(after) = Len(p) + 1 /\ after[Len(p) + 1] = new
          /\ \A i \in 1 .. Len(p) : after[i] = p[i]
      BY <1>1, <3>1
    <3> QED BY <1>1, <2>2, <3>2, <3>3, SMTT(30)
  <2>3. CASE mine = {} /\ ~ (Len(p) < WakeSlots)
    BY <1>1, <2>3
  <2> QED BY <2>1, <2>2, <2>3
<1>4. power'.wake_pins = after /\ power'.ready = power.ready /\ power'.freq = power.freq
  BY <1>2 DEF PowerInv
<1> HIDE DEF after
<1>5. power' \in [mode : Modes, freq : Allowed, wake_pins : Seq(WakePin),
                  cause : {"PowerOn", "Timer", "Gpio"}, naps : Nat, ready : BOOLEAN]
  BY <1>2, <1>3 DEF PowerInv
<1>6. Armed.mask \subseteq Armed'.mask
  <2> SUFFICES ASSUME NEW q \in Armed.mask PROVE q \in Armed'.mask
    OBVIOUS
  <2>1. PICK i \in 1 .. Len(p) : q = p[i].pin /\ p[i].pin < 64
    BY <1>1 DEF Armed, Usable, Configured
  <2>2. i \in DOMAIN after /\ after[i].pin = q
    BY <1>1, <1>3, <2>1
  <2> QED BY <1>4, <2>1, <2>2 DEF Armed, Usable, Configured
<1> QED BY <1>2, <1>3, <1>4, <1>5, <1>6 DEF PowerInv

\* The chip goes to sleep armed for the pins that are configured.
LEMMA SleepKeeps ==
    ASSUME PowerInv, NEW how \in {"no", "light", "deep"},
           chip' = [WithPins(chip) EXCEPT !.timer = TRUE, !.asleep = how],
           UNCHANGED <<power, rtc_data>>
    PROVE  PowerInv'
<1>1. Armed.mask \in SUBSET Pins /\ Armed.any_high \in BOOLEAN
  <2>1. \A i \in DOMAIN power.wake_pins : power.wake_pins[i] \in WakePin
    BY DEF PowerInv
  <2>4. \A c \in Usable : c.pin \in Pins
    BY <2>1 DEF Usable, Configured, WakePin
  <2>2. (\A c \in Usable : c.high) \in BOOLEAN
    BY Zenon
  <2>3. Armed.any_high = (\A c \in Usable : c.high) /\ Armed.mask = {c.pin : c \in Usable}
    BY Zenon DEF Armed
  <2> QED BY <2>2, <2>3, <2>4
<1>2. WithPins(chip) \in [freq : Allowed, mask : SUBSET Pins, any_high : BOOLEAN,
                          timer : BOOLEAN, asleep : {"no", "light", "deep"}, naps : Nat]
      /\ WithPins(chip).mask = Armed.mask /\ WithPins(chip).freq = chip.freq
      /\ (Armed.mask # {} => WithPins(chip).any_high = Armed.any_high)
  BY <1>1 DEF WithPins, PowerInv
<1> DEFINE armed == WithPins(chip)
<1> HIDE DEF armed
<1>3. chip' = [armed EXCEPT !.timer = TRUE, !.asleep = how]
  BY DEF armed
<1>4. chip' \in [freq : Allowed, mask : SUBSET Pins, any_high : BOOLEAN,
                 timer : BOOLEAN, asleep : {"no", "light", "deep"}, naps : Nat]
      /\ chip'.mask = Armed.mask /\ chip'.freq = chip.freq
      /\ (Armed.mask # {} => chip'.any_high = Armed.any_high)
  BY <1>2, <1>3 DEF armed
<1>5. Armed' = Armed
  BY DEF Armed, Usable, Configured
<1> QED BY <1>4, <1>5 DEF PowerInv

LEMMA WakeKeeps ==
    ASSUME PowerAssumption, PowerInv, NEW cause \in {"Timer", "Gpio"}, Wake(cause)
    PROVE  PowerInv'
<1>1. CASE WakeLight(cause)
  <2>1. /\ chip' = [chip EXCEPT !.asleep = "no", !.naps = @ + 1]
        /\ power' = [power EXCEPT !.naps = @ + 1, !.cause = cause]
        /\ rtc_data' = rtc_data
    BY <1>1 DEF WakeLight
  <2>2. power'.wake_pins = power.wake_pins
    BY <2>1 DEF PowerInv
  <2>3. Armed' = Armed
    BY <2>2 DEF Armed, Usable, Configured
  <2>4. power' \in [mode : Modes, freq : Allowed, wake_pins : Seq(WakePin),
                    cause : {"PowerOn", "Timer", "Gpio"}, naps : Nat, ready : BOOLEAN]
        /\ power'.freq = power.freq /\ power'.ready = power.ready
    <3>1. power.naps + 1 \in Nat
      BY DEF PowerInv
    <3> QED BY <2>1, <3>1 DEF PowerInv
  <2>5. chip' \in [freq : Allowed, mask : SUBSET Pins, any_high : BOOLEAN,
                   timer : BOOLEAN, asleep : {"no", "light", "deep"}, naps : Nat]
        /\ chip'.freq = chip.freq /\ chip'.mask = chip.mask /\ chip'.asleep = "no"
    <3>1. chip.naps + 1 \in Nat
      BY DEF PowerInv
    <3> QED BY <2>1, <3>1 DEF PowerInv
  <2> QED BY <2>1, <2>2, <2>3, <2>4, <2>5 DEF PowerInv
<1>2. CASE WakeDeep(cause)
  <2>1. << >> \in Seq(WakePin) /\ Len(<< >>) = 0
    OBVIOUS
  <2>2. power' = NewPower(cause) /\ chip' = NewChip /\ rtc_data' = rtc_data
    BY <1>2 DEF WakeDeep
  <2>3. power' \in
           [mode : Modes, freq : Allowed, wake_pins : Seq(WakePin),
            cause : {"PowerOn", "Timer", "Gpio"}, naps : Nat, ready : BOOLEAN]
    BY <2>1, <2>2 DEF NewPower, Modes, Allowed
  <2>4. chip' \in [freq : Allowed, mask : SUBSET Pins, any_high : BOOLEAN,
                   timer : BOOLEAN, asleep : {"no", "light", "deep"}, naps : Nat]
    BY <2>2 DEF NewChip, Allowed
  <2>5. power'.wake_pins = << >> /\ power'.ready = FALSE
        /\ chip'.mask = {} /\ chip'.asleep = "no"
    BY <2>2 DEF NewPower, NewChip
  <2> QED BY <2>1, <2>2, <2>3, <2>4, <2>5 DEF PowerInv, PowerAssumption
<1> QED BY <1>1, <1>2 DEF Wake

\* Every call of power.rs, refused by the chip or not, and every way to wake.
LEMMA NextPowerInv ==
    PowerAssumption /\ PowerInv /\ [PowerNext]_powerVars => PowerInv'
<1> SUFFICES ASSUME PowerAssumption, PowerInv, [PowerNext]_powerVars PROVE PowerInv'
  OBVIOUS
<1> DEFINE Powers == [mode : Modes, freq : Allowed, wake_pins : Seq(WakePin),
                      cause : {"PowerOn", "Timer", "Gpio"}, naps : Nat, ready : BOOLEAN]
<1>0. \A mode \in Modes : FrequencyOf(mode) \in Allowed
  BY DEF Modes, FrequencyOf, Allowed
<1>1. ASSUME NEW ok \in BOOLEAN, InitPower(ok) PROVE PowerInv'
  <2> DEFINE p == [power EXCEPT !.ready = @ \/ ok]
  <2>1. p \in Powers /\ p.freq = power.freq /\ p.wake_pins = power.wake_pins
        /\ (p.ready => power.ready \/ ok) /\ power.mode \in Modes
    BY DEF PowerInv
  <2> HIDE DEF p
  <2>2. Awake /\ WithFrequency(p, FrequencyOf(power.mode), ok) /\ UNCHANGED rtc_data
    BY <1>1 DEF InitPower, p
  <2> QED BY <1>0, <2>1, <2>2, FrequencyTaken
<1>2. ASSUME NEW mode \in Modes, NEW ok \in BOOLEAN, SetMode(mode, ok) PROVE PowerInv'
  <2> DEFINE p == [power EXCEPT !.mode = mode, !.ready = @ \/ ok]
  <2>1. p \in Powers /\ p.freq = power.freq /\ p.wake_pins = power.wake_pins
        /\ (p.ready => power.ready \/ ok)
    BY DEF PowerInv
  <2> HIDE DEF p
  <2>2. Awake /\ WithFrequency(p, FrequencyOf(mode), ok) /\ UNCHANGED rtc_data
    BY <1>2 DEF SetMode, p
  <2> QED BY <1>0, <2>1, <2>2, FrequencyTaken
<1>3. ASSUME NEW mhz, NEW ok \in BOOLEAN, SetCpuFrequency(mhz, ok) PROVE PowerInv'
  <2>1. power \in Powers
    BY DEF PowerInv
  <2> QED BY <1>3, <2>1, FrequencyTaken DEF SetCpuFrequency
<1>4. ASSUME NEW pin \in Pins, NEW high \in BOOLEAN, ConfigureGpioWake(pin, high)
      PROVE  PowerInv'
  BY <1>4, ConfigureKeeps
<1>5. ASSUME NEW refused \in BOOLEAN, LightSleep(refused) PROVE PowerInv'
  <2>1. (IF refused THEN "no" ELSE "light") \in {"no", "light", "deep"}
    OBVIOUS
  <2> QED BY <1>5, <2>1, SleepKeeps DEF LightSleep
<1>6. CASE DeepSleep
  BY <1>6, SleepKeeps DEF DeepSleep
<1>7. CASE WakeByTimer \/ WakeByPins
  BY <1>7, WakeKeeps DEF WakeByTimer, WakeByPins
<1>8. ASSUME NEW slot, NEW value \in {0, 1}, SetRtcData(slot, value) PROVE PowerInv'
  <2>1. power' = power /\ chip' = chip /\ rtc_data' \in [0 .. 7 -> 0 .. 1]
    BY <1>8 DEF SetRtcData, PowerInv
  <2>2. Armed' = Armed
    BY <2>1 DEF Armed, Usable, Configured
  <2> QED BY <2>1, <2>2 DEF PowerInv
<1>9. CASE UNCHANGED powerVars
  <2>1. Armed' = Armed
    BY <1>9 DEF Armed, Usable, Configured, powerVars
  <2> QED BY <1>9, <2>1 DEF PowerInv, powerVars
<1> QED BY <1>1, <1>2, <1>3, <1>4, <1>5, <1>6, <1>7, <1>8, <1>9 DEF PowerNext

\* Two usable entries for one pin are one.
LEMMA ReportedFollows == PowerInv => PowerAsReported
<1> SUFFICES ASSUME PowerInv PROVE PowerAsReported
  OBVIOUS
<1>1. Armed.mask = {c.pin : c \in Usable} /\ Armed.any_high = (\A c \in Usable : c.high)
  BY Zenon DEF Armed
<1>2. ASSUME chip.asleep # "no", \A c \in Usable : c.high, NEW high \in SUBSET Pins
      PROVE  PinsEnd(high) <=> \E c \in Usable : c.pin \in high
  <2>1. chip.mask = {c.pin : c \in Usable} /\ (chip.mask # {} => chip.any_high)
    BY <1>1, <1>2 DEF PowerInv
  <2> QED BY <2>1 DEF PinsEnd
<1>3. ASSUME chip.asleep # "no", Cardinality(Usable) = 1,
             NEW high \in SUBSET Pins, NEW c \in Usable
      PROVE  PinsEnd(high) <=> (c.high <=> c.pin \in high)
  <2>1. Usable = {c}
    <3>1. IsFiniteSet(Usable)
      <4> DEFINE p == power.wake_pins
                 f == [i \in 1 .. Len(p) |-> p[i]]
      <4>1. IsFiniteSet(1 .. Len(p)) /\ p \in Seq(WakePin)
        BY FS_Interval DEF PowerInv
      <4>2. f \in Surjection(1 .. Len(p), Configured)
        BY <4>1 DEF Surjection, Configured
      <4>3. IsFiniteSet(Configured)
        BY <4>1, <4>2, FS_Surjection
      <4> QED BY <4>3, FS_Subset DEF Usable
    <3>2. PICK d : Usable = {d}
      BY <1>3, <3>1, FS_Singleton
    <3> QED BY <3>2
  <2>2. chip.mask = {c.pin}
    BY <1>1, <1>3, <2>1 DEF PowerInv
  <2>3. chip.any_high <=> c.high
    BY <1>1, <1>3, <2>1, <2>2 DEF PowerInv
  <2> QED BY <2>2, <2>3 DEF PinsEnd
<1> QED BY <1>2, <1>3 DEF PowerAsReported, PowerInv

\* What power.rs reports is what the chip does, for every set of pins and any
\* number of slots: the frequency, whatever calls the chip refused, and the
\* levels that end a sleep.
THEOREM PowerIsAsReported == PowerSpec => []PowerAsReported
<1>1. PowerAssumption
  BY PowerAssumption
<1> QED BY <1>1, InitPowerInv, NextPowerInv, ReportedFollows, PTL DEF PowerSpec

\* The types of power.rs: one slot for each pin, and no more than there are.
THEOREM PowerTypes == PowerSpec => []PowerTypeOK
<1>1. PowerInv => PowerTypeOK
  <2> SUFFICES ASSUME PowerInv PROVE PowerTypeOK
    OBVIOUS
  <2>1. DOMAIN power.wake_pins = 1 .. Len(power.wake_pins)
    BY DEF PowerInv
  <2> QED BY <2>1 DEF PowerInv, PowerTypeOK
<1>2. PowerAssumption
  BY PowerAssumption
<1> QED BY <1>1, <1>2, InitPowerInv, NextPowerInv, PTL DEF PowerSpec
-----------------------------------------------------------------------------
(***************************************************************************)
(* What StoresSurvive needs: how far a save has come and that it writes    *)
(* every record of the table once, in whatever order (SavingInv); that     *)
(* after a finished save NVS has exactly its records (SavedInv); and that  *)
(* contacts which kept their indices only ever became newer (PlacesInv):   *)
(* an interrupted save has overwritten some of them with what is in the    *)
(* table.  What the loop of load_from_nvs brings back is followed index by *)
(* index, by way of the least one at which it would not.                   *)
(***************************************************************************)
\* No key is in two records of a sequence.
Apart(s) == \A i, j \in DOMAIN s : s[i].key = s[j].key => i = j

\* A table as it is in RAM.
Table(t) ==
    /\ t \in Seq(Record) /\ Apart(t)
    /\ kind = "contacts" => Len(t) <= MaxContacts

\* All records are of changes made so far.
Old(r) == r.version <= history.changes

Blobs == [count : Nat, at : [Indices -> Record \cup {NoRecord}]]
Saving == [left : Seq(Record), index : Nat, open : BOOLEAN]
History == [changes : 0 .. MaxChanges, saved : Seq(Record), torn : BOOLEAN,
            shuffled : BOOLEAN, failed : BOOLEAN, lost : BOOLEAN]

StoresShape ==
    /\ kind \in {"contacts", "sessions"}
    /\ Table(table) /\ Len(table) <= Cardinality(Keys)
    /\ blobs \in Blobs /\ blobs.count <= Cardinality(Keys)
    /\ saving \in Saving /\ history \in History
    /\ Table(history.saved)
    /\ \A i \in DOMAIN table : Old(table[i])
    /\ \A i \in Indices : blobs.at[i] # NoRecord => Old(blobs.at[i])

\* A save under way has written the first records, and will write the rest.
SavingInv ==
    saving.open =>
        /\ history.torn
        /\ saving.index + Len(saving.left) = Len(table) /\ blobs.count = Len(table)
        /\ Apart(saving.left) /\ ToSet(saving.left) \subseteq ToSet(table)
        /\ kind = "contacts" => \A k \in DOMAIN saving.left :
                                    saving.left[k] = table[saving.index + k]
        /\ ~ history.failed =>
              /\ \A i \in 0 .. saving.index - 1 : blobs.at[i] \in ToSet(table)
              /\ \A i, j \in 0 .. saving.index - 1 : blobs.at[i].key = blobs.at[j].key => i = j
              /\ \A i \in 0 .. saving.index - 1, k \in DOMAIN saving.left :
                    blobs.at[i].key # saving.left[k].key
              /\ ToSet(table) \subseteq ToSet(saving.left) \cup {blobs.at[i] : i \in 0 .. saving.index - 1}
              /\ kind = "contacts" => \A i \in 0 .. saving.index - 1 : blobs.at[i] = table[i + 1]

\* What a finished save left.
SavedInv ==
    ~ history.torn /\ ~ history.failed =>
        /\ blobs.count = Len(history.saved)
        /\ ToSet(history.saved) = {blobs.at[i] : i \in 0 .. blobs.count - 1}
        /\ \A i, j \in 0 .. blobs.count - 1 : blobs.at[i].key = blobs.at[j].key => i = j

\* Contacts that kept their indices only ever became newer.
PlacesInv ==
    kind = "contacts" /\ ~ history.shuffled =>
        /\ \A i, j \in Indices :
              blobs.at[i] # NoRecord /\ blobs.at[j] # NoRecord =>
                  (blobs.at[i].key = blobs.at[j].key => i = j)
        /\ \A i \in DOMAIN table, j \in Indices :
              blobs.at[j] # NoRecord /\ table[i].key = blobs.at[j].key =>
                  table[i].version >= blobs.at[j].version
        /\ saving.open => \A k \in DOMAIN saving.left, j \in Indices :
              blobs.at[j] # NoRecord =>
                  (saving.left[k].key = blobs.at[j].key <=> j = saving.index + k - 1)
        /\ ~ history.failed =>
              /\ Len(history.saved) <= blobs.count
              /\ \A i \in DOMAIN history.saved :
                    /\ blobs.at[i - 1] # NoRecord
                    /\ blobs.at[i - 1].key = history.saved[i].key
                    /\ blobs.at[i - 1].version >= history.saved[i].version

StoresInv == StoresShape /\ SavingInv /\ SavedInv /\ PlacesInv /\ StoresSurvive

LEMMA EmptyTable ==
    ASSUME StoresAssumption
    PROVE  /\ << >> \in Seq(Record) /\ Table(<< >>) /\ Len(<< >>) = 0 /\ ToSet(<< >>) = {}
           /\ Apart(<< >>)
  BY DEF StoresAssumption, Table, Apart, ToSet

\* The records of a table by their places.
LEMMA InTable ==
    ASSUME NEW t \in Seq(Record)
    PROVE  /\ Len(t) \in Nat /\ DOMAIN t = 1 .. Len(t)
           /\ ToSet(t) \subseteq Record
           /\ \A r : r \in ToSet(t) <=> \E i \in 1 .. Len(t) : t[i] = r
           /\ \A i \in 1 .. Len(t) : t[i] \in ToSet(t) /\ t[i] \in Record
  BY DEF ToSet

LEMMA AppendToTable ==
    ASSUME NEW t \in Seq(Record), NEW r \in Record
    PROVE  /\ Append(t, r) \in Seq(Record) /\ Len(Append(t, r)) = Len(t) + 1
           /\ \A i \in 1 .. Len(t) : Append(t, r)[i] = t[i]
           /\ Append(t, r)[Len(t) + 1] = r
           /\ ToSet(Append(t, r)) = ToSet(t) \cup {r}
<1>1. /\ Append(t, r) \in Seq(Record) /\ Len(Append(t, r)) = Len(t) + 1
      /\ \A i \in 1 .. Len(t) : Append(t, r)[i] = t[i]
      /\ Append(t, r)[Len(t) + 1] = r /\ Len(t) \in Nat
  OBVIOUS
<1>2. 1 .. Len(Append(t, r)) = 1 .. Len(t) \cup {Len(t) + 1}
  BY <1>1
<1> DEFINE u == Append(t, r)
<1>3. ToSet(u) \subseteq ToSet(t) \cup {r}
  <2> SUFFICES ASSUME NEW x \in ToSet(u) PROVE x \in ToSet(t) \cup {r}
    OBVIOUS
  <2>1. PICK i \in 1 .. Len(u) : u[i] = x
    BY <1>1, InTable, Zenon
  <2>2. CASE i \in 1 .. Len(t)
    BY <1>1, <2>1, <2>2, InTable
  <2>3. CASE i = Len(t) + 1
    BY <1>1, <2>1, <2>3
  <2> QED BY <1>2, <2>2, <2>3
<1>4. ToSet(t) \cup {r} \subseteq ToSet(u)
  <2>1. \A i \in 1 .. Len(t) : t[i] \in ToSet(u)
    BY <1>1, <1>2, InTable
  <2>2. r \in ToSet(u)
    BY <1>1, <1>2, InTable
  <2>3. \A x \in ToSet(t) : \E i \in 1 .. Len(t) : t[i] = x
    BY InTable, Zenon
  <2> QED BY <2>1, <2>2, <2>3
<1> QED BY <1>1, <1>3, <1>4

LEMMA InsertKeeps ==
    ASSUME StoresAssumption, NEW t, Table(t), NEW r \in Record
    PROVE  /\ Table(Insert(t, r))
           /\ ToSet(Insert(t, r)) \subseteq ToSet(t) \cup {r}
           /\ Len(Insert(t, r)) \in {Len(t), Len(t) + 1}
           /\ ~ Has(t, r.key) /\ (kind = "contacts" => Len(t) < MaxContacts) =>
                 ToSet(Insert(t, r)) = ToSet(t) \cup {r}
<1>1. t \in Seq(Record) /\ Apart(t) /\ (kind = "contacts" => Len(t) <= MaxContacts)
  BY DEF Table
<1>2. Len(t) \in Nat /\ DOMAIN t = 1 .. Len(t)
  BY <1>1
<1>3. CASE Has(t, r.key)
  <2> DEFINE p == Place(t, r.key)
  <2>1. p \in DOMAIN t /\ t[p].key = r.key
    BY <1>3 DEF Has, Place
  <2> HIDE DEF p
  <2>2. Insert(t, r) = [t EXCEPT ![p] = r]
    BY <1>3 DEF Insert, p
  <2> DEFINE u == [t EXCEPT ![p] = r]
  <2>3. /\ u \in Seq(Record) /\ Len(u) = Len(t) /\ DOMAIN u = DOMAIN t
        /\ \A i \in DOMAIN t : u[i] = IF i = p THEN r ELSE t[i]
    BY <1>1, <2>1
  <2> HIDE DEF u
  <2>4. Apart(u)
    BY <1>1, <2>1, <2>3 DEF Apart
  <2>5. ToSet(u) \subseteq ToSet(t) \cup {r}
    BY <1>1, <1>2, <2>3, InTable
  <2> QED BY <1>1, <1>3, <2>2, <2>3, <2>4, <2>5 DEF Table, u
<1>4. CASE ~ Has(t, r.key) /\ kind = "contacts" /\ Len(t) >= MaxContacts
  <2>1. Insert(t, r) = t
    BY <1>4 DEF Insert
  <2> QED BY <1>1, <1>2, <1>4, <2>1 DEF StoresAssumption
<1>5. CASE ~ Has(t, r.key) /\ ~ (kind = "contacts" /\ Len(t) >= MaxContacts)
  <2>1. Insert(t, r) = Append(t, r)
    BY <1>5 DEF Insert
  <2> DEFINE u == Append(t, r)
  <2>2. /\ u \in Seq(Record) /\ Len(u) = Len(t) + 1 /\ DOMAIN u = 1 .. Len(t) + 1
        /\ \A i \in 1 .. Len(t) : u[i] = t[i]
        /\ u[Len(t) + 1] = r
        /\ ToSet(u) = ToSet(t) \cup {r}
    BY <1>1, <1>2, AppendToTable
  <2> HIDE DEF u
  <2>3. Apart(u)
    <3> SUFFICES ASSUME NEW i \in 1 .. Len(t) + 1, NEW j \in 1 .. Len(t) + 1, u[i].key = u[j].key
                 PROVE  i = j
      BY <2>2 DEF Apart
    <3>1. \A k \in 1 .. Len(t) : t[k].key # r.key
      BY <1>2, <1>5 DEF Has
    <3>2. CASE i \in 1 .. Len(t) /\ j \in 1 .. Len(t)
      BY <1>1, <1>2, <2>2, <3>2 DEF Apart
    <3>3. CASE i = Len(t) + 1 \/ j = Len(t) + 1
      BY <1>2, <2>2, <3>1, <3>3
    <3> QED BY <1>2, <3>2, <3>3
  <2>4. kind = "contacts" => Len(u) <= MaxContacts
    BY <1>2, <1>5, <2>2 DEF StoresAssumption
  <2> QED BY <1>5, <2>1, <2>2, <2>3, <2>4 DEF Table, u
<1> QED BY <1>3, <1>4, <1>5

\* Keys that are apart count no more records than there are keys.
LEMMA TableCounted ==
    ASSUME StoresAssumption, NEW t \in Seq(Record), Apart(t)
    PROVE  Len(t) <= Cardinality(Keys) /\ Cardinality(Keys) \in Nat
<1> DEFINE f == [i \in 1 .. Len(t) |-> t[i].key]
<1>1. f \in Injection(1 .. Len(t), Keys)
  BY InTable DEF Apart, Injection, IsInjective, Record
<1>2. IsFiniteSet(Keys) /\ Len(t) \in Nat
  BY DEF StoresAssumption
<1>3. Cardinality(1 .. Len(t)) <= Cardinality(Keys)
  BY <1>1, <1>2, FS_Injection
<1>4. Cardinality(1 .. Len(t)) = Len(t)
  <2>1. Cardinality(1 .. Len(t)) = IF 1 > Len(t) THEN 0 ELSE Len(t) - 1 + 1
    BY <1>2, FS_Interval
  <2> QED BY <1>2, <2>1
<1> QED BY <1>2, <1>3, <1>4, FS_CardinalityType

\* A set of numbers that is not empty has a least one.
LEMMA LeastIndex ==
    ASSUME NEW T, T \subseteq Nat, T # {}
    PROVE  \E m \in T : \A j \in T : m <= j
<1>1. PICK m \in T : \A j \in T : ~ (<<j, m>> \in OpToRel(<, Nat))
  BY WFMin, NatLessThanWellFounded
<1>2. \A j \in T : m <= j
  <2> TAKE j \in T
  <2>1. ~ (j < m)
    BY <1>1 DEF OpToRel
  <2> QED BY <2>1, SMT
<1> QED BY <1>2

Tables == {t \in Seq(Record) : Table(t)}

\* What a load makes of the next index.
LoadStep(t, i) == IF IsStored(i - 1) THEN Insert(t, blobs.at[i - 1]) ELSE t

LoadedTo(u, n) == u[0] = table /\ \A i \in 1 .. n : u[i] = LoadStep(u[i - 1], i)

LEMMA KeysCounted ==
    ASSUME StoresAssumption
    PROVE  Cardinality(Keys) \in Nat
  BY FS_CardinalityType DEF StoresAssumption

LEMMA StepLoads ==
    ASSUME StoresAssumption, StoresShape, NEW t \in Tables, NEW i \in 1 .. Cardinality(Keys)
    PROVE  /\ i - 1 \in Indices /\ (IsStored(i - 1) => blobs.at[i - 1] \in Record)
           /\ LoadStep(t, i) \in Tables
           /\ ToSet(LoadStep(t, i)) \subseteq ToSet(t) \cup {blobs.at[j] : j \in {i - 1} \cap {k \in Indices : IsStored(k)}}
           /\ Len(LoadStep(t, i)) \in {Len(t), Len(t) + 1}
<1>1. i - 1 \in Indices
  BY KeysCounted DEF Indices
<1>2. IsStored(i - 1) => blobs.at[i - 1] \in Record
  BY <1>1 DEF StoresShape, Blobs, IsStored
<1>3. CASE IsStored(i - 1)
  <2> DEFINE r == blobs.at[i - 1]
  <2>1. /\ Table(Insert(t, r)) /\ ToSet(Insert(t, r)) \subseteq ToSet(t) \cup {r}
        /\ Len(Insert(t, r)) \in {Len(t), Len(t) + 1}
    BY <1>2, <1>3, InsertKeeps DEF Tables
  <2>2. r \in {blobs.at[j] : j \in {i - 1} \cap {k \in Indices : IsStored(k)}}
    BY <1>1, <1>3
  <2>3. LoadStep(t, i) = Insert(t, r)
    BY <1>3 DEF LoadStep
  <2>4. Insert(t, r) \in Tables
    BY <2>1 DEF Tables, Table
  <2> HIDE DEF r
  <2> QED BY <1>1, <1>2, <2>1, <2>2, <2>3, <2>4
<1>4. CASE ~ IsStored(i - 1)
  BY <1>1, <1>4 DEF LoadStep
<1> QED BY <1>3, <1>4

LEMMA LoadExists ==
    ASSUME StoresAssumption, StoresShape, NEW n \in 0 .. Cardinality(Keys)
    PROVE  \E u \in [0 .. n -> Tables] : LoadedTo(u, n)
<1> DEFINE Bad == {m \in 0 .. Cardinality(Keys) : ~ \E u \in [0 .. m -> Tables] : LoadedTo(u, m)}
<1> SUFFICES ASSUME Bad # {} PROVE FALSE
  BY Zenon
<1>1. Bad \subseteq Nat
  BY SMT
<1>2. PICK m \in Bad : \A j \in Bad : m <= j
  BY <1>1, LeastIndex, Zenon
<1>3. m \in 0 .. Cardinality(Keys) /\ m \in Nat
  BY SMT
<1>4. table \in Tables
  BY DEF StoresShape, Tables, Table
<1>5. CASE m = 0
  <2> DEFINE u == [i \in 0 .. 0 |-> table]
  <2>1. u \in [0 .. m -> Tables] /\ LoadedTo(u, m)
    BY <1>4, <1>5 DEF LoadedTo
  <2> QED BY <2>1, Zenon
<1>6. CASE m # 0
  <2>1. m - 1 \in 0 .. Cardinality(Keys) /\ ~ (m <= m - 1) /\ m \in 1 .. Cardinality(Keys)
    BY SMT, <1>3, <1>6, KeysCounted
  <2>2. m - 1 \notin Bad
    BY <1>2, <2>1, Zenon
  <2>3. PICK u \in [0 .. m - 1 -> Tables] : LoadedTo(u, m - 1)
    BY <2>1, <2>2, Zenon
  <2> DEFINE last == LoadStep(u[m - 1], m)
             v == [i \in 0 .. m |-> IF i = m THEN last ELSE u[i]]
  <2>4. u[m - 1] \in Tables
    BY SMT, <1>3, <2>1, <2>3
  <2>5. last \in Tables
    BY <2>1, <2>4, StepLoads, Zenon
  <2> HIDE DEF last
  <2>6. v \in [0 .. m -> Tables]
    BY SMT, <1>3, <2>3, <2>5
  <2>7. v[0] = table
    BY SMT, <1>3, <1>6, <2>3 DEF LoadedTo
  <2>8. ASSUME NEW i \in 1 .. m PROVE v[i] = LoadStep(v[i - 1], i)
    <3>1. CASE i = m
      <4>1. v[i] = last /\ v[i - 1] = u[m - 1]
        BY SMT, <1>3, <3>1
      <4> QED BY <3>1, <4>1 DEF last
    <3>2. CASE i # m
      <4>1. i \in 1 .. m - 1 /\ v[i] = u[i] /\ v[i - 1] = u[i - 1]
        BY SMT, <1>3, <3>2
      <4>2. u[i] = LoadStep(u[i - 1], i)
        BY <2>3, <4>1, Zenon DEF LoadedTo
      <4> QED BY <4>1, <4>2, Zenon
    <3> QED BY <3>1, <3>2
  <2> HIDE DEF v
  <2>9. LoadedTo(v, m)
    BY <2>7, <2>8, Zenon DEF LoadedTo
  <2> QED BY <2>6, <2>9, Zenon
<1> QED BY <1>5, <1>6

LEMMA LastIndex ==
    ASSUME StoresAssumption, StoresShape, NEW limit \in Nat
    PROVE  /\ LastLoaded(limit) \in 0 .. Cardinality(Keys) /\ Cardinality(Keys) \in Nat
           /\ LastLoaded(limit) <= limit /\ LastLoaded(limit) <= blobs.count
           /\ blobs.count <= limit => LastLoaded(limit) = blobs.count
           /\ LastLoaded(limit) \in Nat
<1> QED BY KeysCounted DEF StoresShape, Blobs, LastLoaded

\* The loop of load_from_nvs, step by step.
LEMMA LoadRuns ==
    ASSUME StoresAssumption, StoresShape, NEW limit \in Nat
    PROVE  \E u \in [0 .. LastLoaded(limit) -> Tables] :
              LoadedTo(u, LastLoaded(limit)) /\ Loaded(limit) = u[LastLoaded(limit)]
<1> DEFINE n == LastLoaded(limit)
           Made(g) == [i \in 0 .. n |->
                         IF i = 0 THEN table
                         ELSE IF IsStored(i - 1) THEN Insert(g[i - 1], blobs.at[i - 1])
                         ELSE g[i - 1]]
           L == CHOOSE g : g = Made(g)
<1>1. n \in 0 .. Cardinality(Keys) /\ n \in Nat
  BY LastIndex
<1> HIDE DEF n
<1>2. PICK u \in [0 .. n -> Tables] : LoadedTo(u, n)
  BY <1>1, LoadExists, Zenon
<1>3. u = Made(u)
  <2>1. ASSUME NEW i \in 0 .. n
        PROVE  u[i] = IF i = 0 THEN table
                      ELSE IF IsStored(i - 1) THEN Insert(u[i - 1], blobs.at[i - 1])
                      ELSE u[i - 1]
    <3>1. i = 0 \/ i \in 1 .. n
      BY SMT, <1>1
    <3>2. i \in 1 .. n => i # 0
      BY SMT, <1>1
    <3> QED BY <1>2, <3>1, <3>2, Zenon DEF LoadedTo, LoadStep
  <2> QED BY <1>2, <2>1, Zenon
<1>4. L = Made(L)
  BY <1>3, Zenon
<1>5. Loaded(limit) = L[n]
  BY Zenon DEF Loaded, n
<1> HIDE DEF L
<1>6. LoadedTo(L, n)
  <2>1. 0 \in 0 .. n /\ \A i \in 1 .. n : i \in 0 .. n /\ i # 0
    BY SMT, <1>1
  <2>2. L[0] = table
    BY <1>4, <2>1, Zenon
  <2>3. ASSUME NEW i \in 1 .. n PROVE L[i] = LoadStep(L[i - 1], i)
    BY <1>4, <2>1, Zenon DEF LoadStep
  <2> QED BY <2>2, <2>3, Zenon DEF LoadedTo
<1>7. L \in [0 .. n -> Tables]
  <2>1. ASSUME NEW i \in 0 .. n PROVE L[i] \in Tables
    <3> DEFINE Bad == {m \in 0 .. n : L[m] \notin Tables}
    <3> SUFFICES ASSUME Bad # {} PROVE FALSE
      BY <2>1, Zenon
    <3>1. Bad \subseteq Nat
      BY SMT
    <3>2. PICK m \in Bad : \A j \in Bad : m <= j
      BY <3>1, LeastIndex, Zenon
    <3>3. CASE m = 0
      <4>1. L[m] \in Tables
        BY <1>6, <3>3 DEF LoadedTo, StoresShape, Tables, Table
      <4> QED BY <3>2, <4>1, Zenon
    <3>4. CASE m # 0
      <4>1. m \in 1 .. n /\ m - 1 \in 0 .. n /\ ~ (m <= m - 1) /\ m \in 1 .. Cardinality(Keys)
        BY SMT, <1>1, <3>4, KeysCounted
      <4>2. L[m - 1] \in Tables
        BY <3>2, <4>1, Zenon
      <4>3. L[m] = LoadStep(L[m - 1], m)
        BY <1>6, <4>1, Zenon DEF LoadedTo
      <4>4. L[m] \in Tables
        BY <4>1, <4>2, <4>3, StepLoads, Zenon
      <4> QED BY <3>2, <4>4, Zenon
    <3> QED BY <3>3, <3>4
  <2>2. L = [i \in 0 .. n |-> L[i]]
    BY <1>4, Zenon
  <2> QED BY <2>1, <2>2, Zenon
<1> QED BY <1>5, <1>6, <1>7, Zenon DEF n

\* The records a load finds below an index.
StoredBelow(n) == {blobs.at[j] : j \in {k \in 0 .. n - 1 : IsStored(k)}}

LEMMA StoredOne ==
    ASSUME NEW m \in Nat, m # 0
    PROVE  /\ StoredBelow(m - 1) \subseteq StoredBelow(m)
           /\ IsStored(m - 1) => StoredBelow(m) = StoredBelow(m - 1) \cup {blobs.at[m - 1]}
           /\ ~ IsStored(m - 1) => StoredBelow(m) = StoredBelow(m - 1)
           /\ StoredBelow(0) = {}
<1> DEFINE I(n) == {k \in 0 .. n - 1 : IsStored(k)}
<1>1. /\ IsStored(m - 1) => I(m) = I(m - 1) \cup {m - 1}
      /\ ~ IsStored(m - 1) => I(m) = I(m - 1)
      /\ I(0) = {}
  BY SMT
<1>2. \A n : StoredBelow(n) = {blobs.at[j] : j \in I(n)}
  BY DEF StoredBelow
<1> HIDE DEF I
<1> QED BY <1>1, <1>2

\* A load brings nothing that NVS has no readable blob of.
LEMMA LoadBrings ==
    ASSUME StoresAssumption, StoresShape, NEW limit \in Nat
    PROVE  /\ Table(Loaded(limit)) /\ Len(Loaded(limit)) <= Cardinality(Keys)
           /\ ToSet(Loaded(limit)) \subseteq ToSet(table) \cup StoredBelow(LastLoaded(limit))
<1> DEFINE n == LastLoaded(limit)
<1>1. n \in 0 .. Cardinality(Keys) /\ n \in Nat
  BY LastIndex
<1> HIDE DEF n
<1>2. PICK u \in [0 .. n -> Tables] : LoadedTo(u, n) /\ Loaded(limit) = u[n]
  BY LoadRuns DEF n
<1>3. ASSUME NEW i \in 0 .. n PROVE ToSet(u[i]) \subseteq ToSet(table) \cup StoredBelow(i)
  <2> DEFINE Bad == {m \in 0 .. n : ~ (ToSet(u[m]) \subseteq ToSet(table) \cup StoredBelow(m))}
  <2> SUFFICES ASSUME Bad # {} PROVE FALSE
    BY <1>3, Zenon
  <2>1. Bad \subseteq Nat
    BY SMT
  <2>2. PICK m \in Bad : \A j \in Bad : m <= j
    BY <2>1, LeastIndex, Zenon
  <2>3. CASE m = 0
    BY <1>2, <2>2, <2>3 DEF LoadedTo
  <2>4. CASE m # 0
    <3>1. m \in 1 .. n /\ m - 1 \in 0 .. n /\ ~ (m <= m - 1) /\ m \in 1 .. Cardinality(Keys) /\ m \in Nat
      BY SMT, <1>1, <2>4, KeysCounted
    <3>2. ToSet(u[m - 1]) \subseteq ToSet(table) \cup StoredBelow(m - 1)
      BY <2>2, <3>1, Zenon
    <3>3. u[m] = LoadStep(u[m - 1], m) /\ u[m - 1] \in Tables
      BY <1>2, <3>1, Zenon DEF LoadedTo
    <3>4. CASE IsStored(m - 1)
      <4> DEFINE r == blobs.at[m - 1]
      <4>1. r \in Record
        BY <3>1, <3>3, <3>4, StepLoads
      <4>2. ToSet(Insert(u[m - 1], r)) \subseteq ToSet(u[m - 1]) \cup {r}
        BY <3>3, <4>1, InsertKeeps, ZenonT(60) DEF Tables
      <4>3. u[m] = Insert(u[m - 1], r)
        BY <3>3, <3>4 DEF LoadStep
      <4>4. StoredBelow(m) = StoredBelow(m - 1) \cup {r}
        BY <2>4, <3>1, <3>4, StoredOne
      <4> HIDE DEF r
      <4> QED BY <2>2, <3>2, <4>2, <4>3, <4>4, Zenon
    <3>5. CASE ~ IsStored(m - 1)
      <4>1. u[m] = u[m - 1]
        BY <3>3, <3>5, Zenon DEF LoadStep
      <4>2. StoredBelow(m) = StoredBelow(m - 1)
        BY <2>4, <3>1, <3>5, StoredOne, Zenon
      <4> QED BY <2>2, <3>2, <4>1, <4>2, Zenon
    <3> QED BY <3>4, <3>5
  <2> QED BY <2>3, <2>4
<1>4. n \in 0 .. n
  BY <1>1
<1>5. u[n] \in Tables
  BY <1>2, <1>4, Zenon
<1>6. Table(u[n]) /\ u[n] \in Seq(Record)
  BY <1>5, Zenon DEF Tables
<1>7. Len(u[n]) <= Cardinality(Keys)
  BY <1>6, TableCounted, Zenon DEF Table
<1> QED BY <1>2, <1>3, <1>4, <1>6, <1>7, Zenon DEF n

\* Into an empty table, and without two blobs of one key, it brings all of it.
LEMMA LoadComplete ==
    ASSUME StoresAssumption, StoresShape, NEW limit \in Nat, table = << >>,
           kind = "contacts" => limit <= MaxContacts,
           \A i, j \in 0 .. LastLoaded(limit) - 1 :
               IsStored(i) /\ IsStored(j) /\ blobs.at[i].key = blobs.at[j].key => i = j
    PROVE  ToSet(Loaded(limit)) = StoredBelow(LastLoaded(limit))
<1> DEFINE n == LastLoaded(limit)
<1>1. n \in 0 .. Cardinality(Keys) /\ n \in Nat /\ n <= limit
  BY LastIndex
<1>0. \A i, j \in 0 .. n - 1 :
               IsStored(i) /\ IsStored(j) /\ blobs.at[i].key = blobs.at[j].key => i = j
  OBVIOUS
<1> HIDE DEF n
<1>2. PICK u \in [0 .. n -> Tables] : LoadedTo(u, n) /\ Loaded(limit) = u[n]
  BY LoadRuns DEF n
<1> DEFINE Whole(m) == Len(u[m]) <= m /\ ToSet(u[m]) = StoredBelow(m)
<1>3. ASSUME NEW i \in 0 .. n PROVE Whole(i)
  <2> DEFINE Bad == {m \in 0 .. n : ~ Whole(m)}
  <2> SUFFICES ASSUME Bad # {} PROVE FALSE
    BY <1>3, Zenon
  <2>1. Bad \subseteq Nat
    BY SMT
  <2>2. PICK m \in Bad : \A j \in Bad : m <= j
    BY <2>1, LeastIndex, Zenon
  <2>3. CASE m = 0
    <3>1. u[0] = << >>
      BY <1>2 DEF LoadedTo
    <3>2. StoredBelow(0) = {}
      BY StoredOne
    <3>3. Len(<< >>) = 0 /\ ToSet(<< >>) = {}
      BY EmptyTable
    <3>4. Len(u[0]) <= 0 /\ ToSet(u[0]) = StoredBelow(0)
      <4>1. Len(u[0]) = 0 /\ ToSet(u[0]) = {}
        BY <3>1, <3>3, Zenon
      <4> QED BY <3>2, <4>1
    <3>5. Whole(m)
      BY <2>3, <3>4, Zenon
    <3> QED BY <2>2, <3>5, Zenon
  <2>4. CASE m # 0
    <3>1. m \in 1 .. n /\ m - 1 \in 0 .. n /\ ~ (m <= m - 1) /\ m \in 1 .. Cardinality(Keys) /\ m \in Nat
      BY SMT, <1>1, <2>4, KeysCounted
    <3>2. Whole(m - 1)
      BY <2>2, <3>1, Zenon
    <3>3. u[m] = LoadStep(u[m - 1], m) /\ u[m - 1] \in Tables
      BY <1>2, <3>1, Zenon DEF LoadedTo
    <3>4. u[m - 1] \in Seq(Record) /\ Table(u[m - 1]) /\ Len(u[m - 1]) \in Nat
      BY <3>3 DEF Tables
    <3>5. CASE IsStored(m - 1)
      <4> DEFINE r == blobs.at[m - 1]
      <4>1. r \in Record
        BY <3>1, <3>3, <3>5, StepLoads
      <4>2. ~ Has(u[m - 1], r.key)
        <5> SUFFICES ASSUME NEW j \in DOMAIN u[m - 1], u[m - 1][j].key = r.key
                     PROVE  FALSE
          BY DEF Has
        <5>1. u[m - 1][j] \in StoredBelow(m - 1)
          BY <3>2, <3>4, InTable
        <5>2. PICK k \in 0 .. (m - 1) - 1 : IsStored(k) /\ blobs.at[k] = u[m - 1][j]
          BY <5>1 DEF StoredBelow
        <5>3. k \in 0 .. n - 1 /\ m - 1 \in 0 .. n - 1 /\ k # m - 1
          BY SMT, <1>1, <3>1, <5>2
        <5> QED BY <1>0, <3>5, <5>2, <5>3
      <4>3. kind = "contacts" => Len(u[m - 1]) < MaxContacts
        <5>1. Len(u[m - 1]) <= m - 1
          BY <3>2
        <5> QED BY SMT, <1>1, <3>1, <3>4, <5>1 DEF StoresAssumption
      <4>4. /\ ToSet(Insert(u[m - 1], r)) = ToSet(u[m - 1]) \cup {r}
            /\ Len(Insert(u[m - 1], r)) \in {Len(u[m - 1]), Len(u[m - 1]) + 1}
        BY <3>4, <4>1, <4>2, <4>3, InsertKeeps, Zenon
      <4>5. u[m] = Insert(u[m - 1], r)
        BY <3>3, <3>5 DEF LoadStep
      <4>6. StoredBelow(m) = StoredBelow(m - 1) \cup {r}
        BY <2>4, <3>1, <3>5, StoredOne
      <4> HIDE DEF r
      <4>7. Len(u[m]) <= m
        <5>1. Len(u[m - 1]) <= m - 1
          BY <3>2
        <5>2. Len(u[m]) \in {Len(u[m - 1]), Len(u[m - 1]) + 1}
          BY <4>4, <4>5
        <5> QED BY SMT, <3>1, <3>4, <5>1, <5>2
      <4>8. Whole(m)
        BY <3>2, <4>4, <4>5, <4>6, <4>7, Zenon
      <4> QED BY <2>2, <4>8, Zenon
    <3>6. CASE ~ IsStored(m - 1)
      <4>1. u[m] = u[m - 1]
        BY <3>3, <3>6, Zenon DEF LoadStep
      <4>2. StoredBelow(m) = StoredBelow(m - 1)
        BY <2>4, <3>1, <3>6, StoredOne, Zenon
      <4>3. Len(u[m]) <= m
        BY <3>1, <3>2, <3>4, <4>1
      <4>4. Whole(m)
        BY <3>2, <4>1, <4>2, <4>3, Zenon
      <4> QED BY <2>2, <4>4, Zenon
    <3> QED BY <3>5, <3>6
  <2> QED BY <2>3, <2>4
<1>4. n \in 0 .. n
  BY <1>1
<1>5. Whole(n)
  BY <1>3, <1>4, Zenon
<1> QED BY <1>2, <1>5, Zenon DEF n

LEMMA StoresBegin ==
    ASSUME StoresAssumption, StoresInit
    PROVE  StoresInv
<1>1. Cardinality(Keys) \in Nat /\ MaxChanges \in Nat
  BY KeysCounted DEF StoresAssumption
<1>2. /\ table = << >> /\ saving = [left |-> << >>, index |-> 0, open |-> FALSE]
      /\ blobs = [count |-> 0, at |-> [i \in Indices |-> NoRecord]]
      /\ history = [changes |-> 0, saved |-> << >>, torn |-> FALSE,
                    shuffled |-> FALSE, failed |-> FALSE, lost |-> FALSE]
      /\ kind \in {"contacts", "sessions"}
  BY DEF StoresInit
<1>3. StoresShape
  BY <1>1, <1>2, EmptyTable DEF StoresShape, Blobs, Saving, History
<1>4. SavingInv /\ StoresSurvive
  BY <1>2 DEF SavingInv, StoresSurvive
<1>5. SavedInv
  <2>1. blobs.count = Len(history.saved) /\ ToSet(history.saved) = {} /\ 0 .. blobs.count - 1 = {}
    BY <1>2, EmptyTable
  <2> QED BY <2>1 DEF SavedInv
<1>6. PlacesInv
  <2>1. \A j \in Indices : blobs.at[j] = NoRecord
    BY <1>2
  <2>2. ~ saving.open /\ DOMAIN history.saved = {} /\ Len(history.saved) <= blobs.count
    BY <1>2, EmptyTable
  <2> QED BY <2>1, <2>2 DEF PlacesInv
<1> QED BY <1>3, <1>4, <1>5, <1>6 DEF StoresInv

\* A step that leaves NVS alone and ends with no save under way.
LEMMA TableChanges ==
    ASSUME StoresAssumption, StoresInv, UNCHANGED <<kind, blobs>>,
           saving' \in Saving, ~ saving'.open,
           Table(table'),
           history' \in History, history.changes <= history'.changes,
           history'.saved = history.saved, history'.torn = history.torn,
           history'.shuffled = history.shuffled, history'.failed = history.failed,
           ~ history'.lost,
           \A r \in ToSet(table') : r.version <= history'.changes,
           kind = "contacts" /\ ~ history.shuffled =>
               \A r \in ToSet(table'), j \in Indices :
                   blobs.at[j] # NoRecord /\ r.key = blobs.at[j].key => r.version >= blobs.at[j].version
    PROVE  StoresInv'
<1>1. StoresShape /\ SavedInv /\ PlacesInv
  BY DEF StoresInv
<1>2. table' \in Seq(Record) /\ DOMAIN table' = 1 .. Len(table') /\ Len(table') <= Cardinality(Keys)
      /\ \A i \in DOMAIN table' : table'[i] \in ToSet(table')
  BY TableCounted, InTable DEF Table
<1>3. StoresShape'
  <2>1. /\ kind' \in {"contacts", "sessions"}
        /\ Table(table)' /\ (Len(table) <= Cardinality(Keys))'
        /\ (blobs \in Blobs)' /\ (blobs.count <= Cardinality(Keys))'
        /\ (saving \in Saving)' /\ (history \in History)'
    BY <1>1, <1>2 DEF StoresShape, Table, Blobs, Saving, History
  <2>2. Table(history.saved)'
    BY <1>1 DEF StoresShape, Table
  <2>3. \A i \in DOMAIN table' : table'[i].version <= history'.changes
    BY <1>2
  <2>4. \A i \in Indices : blobs'.at[i] # NoRecord => blobs'.at[i].version <= history'.changes
    <3> SUFFICES ASSUME NEW i \in Indices, blobs.at[i] # NoRecord PROVE blobs.at[i].version <= history'.changes
      OBVIOUS
    <3>1. blobs.at[i] \in Record /\ blobs.at[i].version <= history.changes
      BY <1>1 DEF StoresShape, Old, Blobs
    <3> QED BY <1>1, <3>1 DEF StoresShape, Record, History, StoresAssumption
  <2> QED BY <2>1, <2>2, <2>3, <2>4 DEF StoresShape, Old
<1>4. SavingInv' /\ StoresSurvive'
  BY DEF SavingInv, StoresSurvive
<1>5. SavedInv'
  BY <1>1 DEF SavedInv
<1>6. PlacesInv'
  <2>1. \A i \in DOMAIN table', j \in Indices : kind = "contacts" /\ ~ history.shuffled =>
            (blobs.at[j] # NoRecord /\ table'[i].key = blobs.at[j].key =>
                table'[i].version >= blobs.at[j].version)
    BY <1>2, Zenon
  <2> QED BY <1>1, <2>1, Zenon DEF PlacesInv
<1> QED BY <1>3, <1>4, <1>5, <1>6 DEF StoresInv

LEMMA StoresChange ==
    ASSUME StoresAssumption, StoresInv, NEW k \in Keys, Change(k)
    PROVE  StoresInv'
<1> DEFINE n == history.changes + 1
           r == [key |-> k, version |-> n]
<1>1. StoresShape /\ StoresSurvive
  BY DEF StoresInv
<1>2. /\ ~ saving.open /\ n <= MaxChanges /\ table' = Insert(table, r)
      /\ history' = [history EXCEPT !.changes = n] /\ UNCHANGED <<kind, blobs, saving>>
  BY DEF Change
<1>3. history \in History /\ n \in 1 .. MaxChanges /\ r \in Record /\ MaxChanges \in Nat
  BY <1>1, <1>2 DEF StoresShape, History, StoresAssumption, Record
<1>4. /\ Table(table') /\ ToSet(table') \subseteq ToSet(table) \cup {r}
  BY <1>1, <1>2, <1>3, InsertKeeps DEF StoresShape
<1>5. /\ history' \in History /\ history.changes <= history'.changes /\ history'.changes = n
      /\ history'.saved = history.saved /\ history'.torn = history.torn
      /\ history'.shuffled = history.shuffled /\ history'.failed = history.failed
      /\ ~ history'.lost
  BY <1>1, <1>2, <1>3 DEF History, StoresSurvive
<1>6. \A s \in ToSet(table) : s \in Record /\ s.version <= history.changes
      /\ \E i \in DOMAIN table : s = table[i]
  BY <1>1, InTable DEF StoresShape, Table, Old
<1>7. \A s \in ToSet(table') : s.version <= history'.changes
  <2> SUFFICES ASSUME NEW s \in ToSet(table') PROVE s.version <= history'.changes
    OBVIOUS
  <2>1. CASE s = r
    BY <1>3, <1>5, <2>1
  <2>2. CASE s \in ToSet(table)
    BY <1>3, <1>5, <1>6, <2>2 DEF Record, History
  <2> QED BY <1>4, <2>1, <2>2
<1>8. ASSUME kind = "contacts" /\ ~ history.shuffled, NEW s \in ToSet(table'), NEW j \in Indices,
             blobs.at[j] # NoRecord /\ s.key = blobs.at[j].key
      PROVE  s.version >= blobs.at[j].version
  <2>1. blobs.at[j].version <= history.changes /\ blobs.at[j] \in Record
    BY <1>1, <1>8 DEF StoresShape, Old, Blobs
  <2>2. CASE s = r
    BY <1>3, <2>1, <2>2 DEF Record, History
  <2>3. CASE s \in ToSet(table)
    BY <1>6, <1>8, <2>3 DEF StoresInv, PlacesInv
  <2> QED BY <1>4, <2>2, <2>3
<1>9. saving' \in Saving /\ ~ saving'.open
  BY <1>1, <1>2 DEF StoresShape
<1> HIDE DEF r, n
<1> QED BY <1>2, <1>4, <1>5, <1>7, <1>8, <1>9, TableChanges

LEMMA StoresRemove ==
    ASSUME StoresAssumption, StoresInv, NEW k \in Keys, RemoveRecord(k)
    PROVE  StoresInv'
<1> DEFINE p == Place(table, k)
<1>1. StoresShape /\ StoresSurvive
  BY DEF StoresInv
<1>2. /\ ~ saving.open /\ table' = SwapRemove(table, p)
      /\ UNCHANGED <<kind, blobs, saving, history>> /\ p \in DOMAIN table
  BY DEF RemoveRecord, Has, Place
<1> HIDE DEF p
<1>3. table \in Seq(Record) /\ Len(table) \in Nat /\ p \in 1 .. Len(table) /\ Apart(table)
      /\ (kind = "contacts" => Len(table) <= MaxContacts)
  BY <1>1, <1>2 DEF StoresShape, Table
<1>4. /\ table' \in Seq(Record) /\ Len(table') = Len(table) - 1 /\ DOMAIN table' = 1 .. Len(table) - 1
      /\ \A j \in 1 .. Len(table) - 1 : table'[j] = IF j = p THEN table[Len(table)] ELSE table[j]
  <2>1. table' = [j \in 1 .. Len(table) - 1 |-> IF j = p THEN table[Len(table)] ELSE table[j]]
    BY <1>2 DEF SwapRemove
  <2>2. \A j \in 1 .. Len(table) - 1 : (IF j = p THEN table[Len(table)] ELSE table[j]) \in Record
    BY <1>3
  <2> DEFINE f == [j \in 1 .. Len(table) - 1 |-> IF j = p THEN table[Len(table)] ELSE table[j]]
             q == Len(table) - 1
  <2>3. q \in Nat
    BY <1>3
  <2>4. f \in [1 .. q -> Record]
    BY <2>2
  <2> HIDE DEF q, f
  <2>5. f \in Seq(Record) /\ Len(f) = q /\ DOMAIN f = 1 .. q
    BY <2>3, <2>4
  <2> QED BY <2>1, <2>5 DEF f, q
<1>5. ToSet(table') \subseteq ToSet(table)
  BY <1>3, <1>4 DEF ToSet
<1>6. Table(table')
  <2>1. Apart(table')
    BY <1>3, <1>4 DEF Apart
  <2> QED BY <1>3, <1>4, <2>1 DEF Table, StoresAssumption
<1>7. \A s \in ToSet(table) : s.version <= history.changes /\ \E i \in DOMAIN table : s = table[i]
  BY <1>1, InTable DEF StoresShape, Table, Old
<1>8. \A s \in ToSet(table') : s.version <= history'.changes
  BY <1>2, <1>5, <1>7
<1>9. kind = "contacts" /\ ~ history.shuffled =>
         \A s \in ToSet(table'), j \in Indices :
             blobs.at[j] # NoRecord /\ s.key = blobs.at[j].key => s.version >= blobs.at[j].version
  BY <1>5, <1>7 DEF StoresInv, PlacesInv
<1>10. /\ history' \in History /\ history.changes <= history'.changes
       /\ saving' \in Saving /\ ~ saving'.open /\ ~ history'.lost
  BY <1>1, <1>2 DEF StoresShape, StoresSurvive, History
<1> QED BY <1>2, <1>6, <1>8, <1>9, <1>10, TableChanges

LEMMA StoresRestart ==
    ASSUME StoresAssumption, StoresInv, Restart
    PROVE  StoresInv'
<1>1. StoresShape /\ StoresSurvive
  BY DEF StoresInv
<1>2. /\ table' = << >> /\ saving' = [left |-> << >>, index |-> 0, open |-> FALSE]
      /\ UNCHANGED <<kind, blobs, history>>
  BY DEF Restart
<1>3. Table(table') /\ ToSet(table') = {}
  BY <1>2, EmptyTable
<1>4. saving' \in Saving /\ ~ saving'.open
  BY <1>2, EmptyTable DEF Saving
<1>5. history' \in History /\ history.changes <= history'.changes /\ ~ history'.lost
  BY <1>1, <1>2 DEF StoresShape, StoresSurvive, History
<1> QED BY <1>2, <1>3, <1>4, <1>5, TableChanges

LEMMA StoresBeginSave ==
    ASSUME StoresAssumption, StoresInv, NEW order \in Seq(Record), BeginSave(order),
           Apart(order), Len(order) = Len(table), ToSet(order) = ToSet(table),
           kind = "contacts" => order = table
    PROVE  StoresInv'
<1>1. StoresShape /\ StoresSurvive /\ PlacesInv
  BY DEF StoresInv
<1>2. /\ ~ saving.open /\ saving' = [left |-> order, index |-> 0, open |-> TRUE]
      /\ blobs' = [blobs EXCEPT !.count = Len(order)]
      /\ history' = [history EXCEPT !.torn = TRUE, !.shuffled = @ \/ ~ KeepsPlaces(order)]
      /\ UNCHANGED <<kind, table>>
  BY DEF BeginSave
<1>3. table \in Seq(Record) /\ Len(order) \in Nat /\ Len(order) <= Cardinality(Keys)
      /\ DOMAIN order = 1 .. Len(order)
  BY <1>1 DEF StoresShape, Table
<1>4. /\ history' \in History /\ history'.torn /\ history'.lost = history.lost
      /\ history'.changes = history.changes /\ history'.saved = history.saved
      /\ history'.failed = history.failed
      /\ ~ history'.shuffled => ~ history.shuffled /\ KeepsPlaces(order)
  <2> DEFINE h == [history EXCEPT !.torn = TRUE]
  <2>1. history \in History /\ KeepsPlaces(order) \in BOOLEAN
    BY <1>1 DEF StoresShape, KeepsPlaces
  <2>2. history' = [h EXCEPT !.shuffled = history.shuffled \/ ~ KeepsPlaces(order)]
    BY <1>2, <2>1 DEF History
  <2> QED BY <2>1, <2>2 DEF History
<1>5. /\ blobs' \in Blobs /\ blobs'.count = Len(order) /\ blobs'.at = blobs.at
  BY <1>1, <1>2, <1>3 DEF StoresShape, Blobs
<1>6. saving' \in Saving /\ saving'.left = order /\ saving'.index = 0 /\ saving'.open
  BY <1>2 DEF Saving
<1>7. StoresShape'
  BY <1>1, <1>2, <1>3, <1>4, <1>5, <1>6 DEF StoresShape, Table, Old, Apart
<1>8. SavingInv'
  <2>1. 0 .. saving'.index - 1 = {}
    BY <1>6
  <2>2. /\ saving'.index + Len(saving'.left) = Len(table') /\ blobs'.count = Len(table')
        /\ Apart(saving'.left) /\ ToSet(saving'.left) = ToSet(table')
    BY <1>2, <1>3, <1>5, <1>6
  <2>3. kind' = "contacts" => \A k \in DOMAIN saving'.left : saving'.left[k] = table'[saving'.index + k]
    BY <1>2, <1>3, <1>6
  <2> QED BY <1>4, <2>1, <2>2, <2>3, Zenon DEF SavingInv, Apart
<1>9. SavedInv' /\ StoresSurvive'
  BY <1>1, <1>4 DEF SavedInv, StoresSurvive
<1>10. PlacesInv'
  <2> SUFFICES ASSUME kind' = "contacts" /\ ~ history'.shuffled
               PROVE  PlacesInv'
    BY Zenon DEF PlacesInv
  <2>1. kind = "contacts" /\ ~ history.shuffled /\ KeepsPlaces(order)
    BY <1>2, <1>4
  <2>2. /\ \A i, j \in Indices :
              blobs'.at[i] # NoRecord /\ blobs'.at[j] # NoRecord =>
                  (blobs'.at[i].key = blobs'.at[j].key => i = j)
        /\ \A i \in DOMAIN table', j \in Indices :
              blobs'.at[j] # NoRecord /\ table'[i].key = blobs'.at[j].key =>
                  table'[i].version >= blobs'.at[j].version
    BY <1>1, <1>2, <1>5, <2>1 DEF PlacesInv
  <2>3. ASSUME NEW k \in DOMAIN order, NEW j \in Indices, blobs.at[j] # NoRecord
        PROVE  order[k].key = blobs.at[j].key <=> j = 0 + k - 1
    <3>1. order[k].key = blobs.at[j].key <=> k = j + 1
      BY <2>1, <2>3 DEF KeepsPlaces
    <3>2. k \in Int /\ j \in Int
      BY <1>3 DEF Indices
    <3> QED BY <3>1, <3>2
  <2>4. \A k \in DOMAIN saving'.left, j \in Indices :
              blobs'.at[j] # NoRecord =>
                  (saving'.left[k].key = blobs'.at[j].key <=> j = saving'.index + k - 1)
    <3>1. \A k \in DOMAIN order, j \in Indices :
              blobs.at[j] # NoRecord => (order[k].key = blobs.at[j].key <=> j = 0 + k - 1)
      BY <2>3
    <3> QED BY <1>5, <1>6, <3>1
  <2>5. ~ history'.failed =>
              /\ Len(history'.saved) <= blobs'.count
              /\ \A i \in DOMAIN history'.saved :
                    /\ blobs'.at[i - 1] # NoRecord
                    /\ blobs'.at[i - 1].key = history'.saved[i].key
                    /\ blobs'.at[i - 1].version >= history'.saved[i].version
    BY <1>1, <1>4, <1>5, <2>1 DEF PlacesInv, KeepsPlaces
  <2> QED BY <2>2, <2>4, <2>5, Zenon DEF PlacesInv
<1> QED BY <1>7, <1>8, <1>9, <1>10 DEF StoresInv

LEMMA StoresSaveContacts ==
    ASSUME StoresAssumption, StoresInv, SaveContacts
    PROVE  StoresInv'
  BY StoresBeginSave DEF SaveContacts, StoresInv, StoresShape, Table

\* Whatever order a HashMap is iterated in, each of its records comes once.
LEMMA StoresSaveSessions ==
    ASSUME StoresAssumption, StoresInv, SaveSessions
    PROVE  StoresInv'
<1> DEFINE n == Len(table)
           S == ToSet(table)
<1>1. PICK order \in [1 .. n -> S] : IsInjective(order) /\ BeginSave(order)
  BY DEF SaveSessions
<1>2. table \in Seq(Record) /\ n \in Nat /\ Apart(table) /\ kind # "contacts"
      /\ S \subseteq Record /\ table \in [1 .. n -> S]
  BY InTable DEF StoresInv, StoresShape, Table, SaveSessions
<1>3. \A x \in S : \E i \in 1 .. n : table[i] = x
  BY <1>2, InTable
<1>4. ToSet(order) \subseteq S /\ order \in Seq(Record) /\ Len(order) = n /\ DOMAIN order = 1 .. n
  <2> HIDE DEF n, S
  <2>1. order \in [1 .. n -> Record]
    BY <1>1, <1>2
  <2>2. order \in Seq(Record) /\ Len(order) = n /\ DOMAIN order = 1 .. n
    BY <1>2, <2>1
  <2> QED BY <1>1, <2>2 DEF ToSet
<1>5. Apart(order)
  <2> SUFFICES ASSUME NEW i \in 1 .. n, NEW j \in 1 .. n, order[i].key = order[j].key
               PROVE  i = j
    BY <1>4 DEF Apart
  <2>1. PICK k \in 1 .. n : table[k] = order[i]
    BY <1>1, <1>3
  <2>2. PICK l \in 1 .. n : table[l] = order[j]
    BY <1>1, <1>3
  <2>3. k = l
    BY <1>2, <2>1, <2>2 DEF Apart
  <2> HIDE DEF n, S
  <2> QED BY <1>1, <2>1, <2>2, <2>3 DEF IsInjective
<1>6. S \subseteq ToSet(order)
  <2>0. Apart(table)
    BY <1>2
  <2>1. table \in Injection(1 .. n, S)
    <3> HIDE DEF S
    <3> QED BY <1>2, <2>0 DEF Apart, Injection, IsInjective
  <2>2. table \in Surjection(1 .. n, S)
    <3> HIDE DEF n, S
    <3> QED BY <1>2, <1>3 DEF Surjection
  <2>3. order \in Injection(1 .. n, S)
    <3> HIDE DEF n, S
    <3> QED BY <1>1 DEF Injection
  <2>4. IsFiniteSet(1 .. n) /\ Cardinality(1 .. n) \in Nat
    BY <1>2, FS_Interval, FS_CardinalityType
  <2> HIDE DEF n, S
  <2>5. IsFiniteSet(S) /\ Cardinality(S) = Cardinality(1 .. n)
    BY <2>1, <2>2, <2>4, FS_Surjection
  <2>6. order \in Surjection(1 .. n, S)
    BY <2>3, <2>5, FS_Injection
  <2>7. \A x \in S : \E i \in 1 .. n : order[i] = x
    BY <2>6 DEF Surjection
  <2> QED BY <1>4, <2>7 DEF ToSet
<1>7. ToSet(order) = ToSet(table)
  BY <1>4, <1>6
<1>8. order \in Seq(Record) /\ Len(order) = Len(table)
  BY <1>4
<1> HIDE DEF n, S
<1> QED BY <1>1, <1>2, <1>5, <1>7, <1>8, StoresBeginSave

LEMMA StoresCommitSave ==
    ASSUME StoresAssumption, StoresInv, CommitSave
    PROVE  StoresInv'
<1>1. StoresShape /\ StoresSurvive /\ PlacesInv /\ SavingInv
  BY DEF StoresInv
<1>2. /\ saving.open /\ saving.left = << >>
      /\ saving' = [saving EXCEPT !.open = FALSE, !.index = 0]
      /\ history' = [history EXCEPT !.torn = FALSE, !.saved = table]
      /\ UNCHANGED <<kind, table, blobs>>
  BY DEF CommitSave
<1>3. table \in Seq(Record) /\ Len(table) \in Nat /\ DOMAIN table = 1 .. Len(table)
      /\ Len(table) <= Cardinality(Keys) /\ Cardinality(Keys) \in Nat
  BY <1>1, KeysCounted DEF StoresShape, Table
<1>4. saving.index = Len(table) /\ blobs.count = Len(table) /\ ToSet(saving.left) = {}
  <2>1. saving.index + Len(saving.left) = Len(table) /\ saving.index \in Nat
    BY <1>1, <1>2 DEF SavingInv, StoresShape, Saving
  <2>2. Len(saving.left) = 0 /\ ToSet(saving.left) = {}
    BY <1>2, EmptyTable
  <2> QED BY <1>1, <1>2, <2>1, <2>2 DEF SavingInv
<1>5. saving' \in Saving /\ ~ saving'.open
  <2> DEFINE s == [saving EXCEPT !.open = FALSE]
  <2>1. saving \in Saving
    BY <1>1 DEF StoresShape
  <2>2. saving' = [s EXCEPT !.index = 0]
    BY <1>2, <2>1 DEF Saving
  <2> QED BY <2>1, <2>2 DEF Saving
<1>6. /\ history' \in History /\ ~ history'.torn /\ history'.saved = table
      /\ history'.changes = history.changes /\ history'.shuffled = history.shuffled
      /\ history'.failed = history.failed /\ history'.lost = history.lost
  <2> DEFINE h == [history EXCEPT !.torn = FALSE]
  <2>1. history \in History
    BY <1>1 DEF StoresShape
  <2>2. history' = [h EXCEPT !.saved = table]
    BY <1>2, <2>1 DEF History
  <2> QED BY <1>3, <2>1, <2>2 DEF History
<1>7. StoresShape'
  BY <1>1, <1>2, <1>3, <1>5, <1>6 DEF StoresShape, Table, Old, Apart
<1>8. SavingInv' /\ StoresSurvive'
  BY <1>1, <1>5, <1>6 DEF SavingInv, StoresSurvive
<1>9. ASSUME ~ history.failed
      PROVE  /\ ToSet(table) = {blobs.at[i] : i \in 0 .. Len(table) - 1}
             /\ \A i, j \in 0 .. Len(table) - 1 : blobs.at[i].key = blobs.at[j].key => i = j
             /\ kind = "contacts" => \A i \in 0 .. Len(table) - 1 : blobs.at[i] = table[i + 1]
  <2>1. /\ \A i \in 0 .. saving.index - 1 : blobs.at[i] \in ToSet(table)
        /\ \A i, j \in 0 .. saving.index - 1 : blobs.at[i].key = blobs.at[j].key => i = j
        /\ ToSet(table) \subseteq ToSet(saving.left) \cup {blobs.at[i] : i \in 0 .. saving.index - 1}
        /\ kind = "contacts" => \A i \in 0 .. saving.index - 1 : blobs.at[i] = table[i + 1]
    BY <1>1, <1>2, <1>9 DEF SavingInv
  <2> QED BY <1>4, <2>1
<1>10. SavedInv'
  BY <1>2, <1>4, <1>6, <1>9 DEF SavedInv
<1>11. PlacesInv'
  <2> SUFFICES ASSUME kind' = "contacts" /\ ~ history'.shuffled
               PROVE  PlacesInv'
    BY Zenon DEF PlacesInv
  <2>1. kind = "contacts" /\ ~ history.shuffled
    BY <1>2, <1>6
  <2>2. ASSUME ~ history.failed, NEW i \in DOMAIN table
        PROVE  /\ blobs.at[i - 1] # NoRecord /\ blobs.at[i - 1].key = table[i].key
               /\ blobs.at[i - 1].version >= table[i].version
    <3>1. i - 1 \in 0 .. Len(table) - 1 /\ (i - 1) + 1 = i /\ table[i] \in Record
      BY <1>3, InTable
    <3>2. blobs.at[i - 1] = table[(i - 1) + 1]
      BY <1>9, <2>1, <2>2, <3>1
    <3>3. blobs.at[i - 1] = table[i]
      BY <3>1, <3>2
    <3>4. table[i].version \in Int /\ table[i] # NoRecord
      BY <3>1 DEF StoresAssumption, Record
    <3> QED BY <3>3, <3>4
  <2>3. ~ history'.failed =>
              /\ Len(history'.saved) <= blobs'.count
              /\ \A i \in DOMAIN history'.saved :
                    /\ blobs'.at[i - 1] # NoRecord
                    /\ blobs'.at[i - 1].key = history'.saved[i].key
                    /\ blobs'.at[i - 1].version >= history'.saved[i].version
    BY <1>2, <1>3, <1>4, <1>6, <2>2
  <2> QED BY <1>1, <1>2, <1>5, <2>1, <2>3, Zenon DEF PlacesInv
<1> QED BY <1>7, <1>8, <1>10, <1>11 DEF StoresInv

\* What is left after its first record.
LEMMA TailLeft ==
    ASSUME NEW s \in Seq(Record), s # << >>
    PROVE  /\ Tail(s) \in Seq(Record) /\ Len(s) \in Nat \ {0} /\ Len(Tail(s)) = Len(s) - 1
           /\ DOMAIN Tail(s) = 1 .. Len(s) - 1 /\ DOMAIN s = 1 .. Len(s)
           /\ \A k \in DOMAIN Tail(s) : Tail(s)[k] = s[k + 1] /\ k + 1 \in DOMAIN s
           /\ Head(s) = s[1] /\ 1 \in DOMAIN s /\ Head(s) \in Record
           /\ Head(s) \in ToSet(s) /\ ToSet(s) = ToSet(Tail(s)) \cup {Head(s)}
           /\ Apart(s) => Apart(Tail(s)) /\ \A k \in DOMAIN Tail(s) : Tail(s)[k].key # Head(s).key
<1>1. /\ Tail(s) \in Seq(Record) /\ Len(s) \in Nat \ {0} /\ Len(Tail(s)) = Len(s) - 1
      /\ DOMAIN Tail(s) = 1 .. Len(s) - 1 /\ DOMAIN s = 1 .. Len(s)
      /\ \A k \in DOMAIN Tail(s) : Tail(s)[k] = s[k + 1] /\ k + 1 \in DOMAIN s
      /\ Head(s) = s[1] /\ 1 \in DOMAIN s /\ Head(s) \in Record
  OBVIOUS
<1>2. Head(s) \in ToSet(s)
  BY <1>1 DEF ToSet
<1>3. ToSet(Tail(s)) \subseteq ToSet(s)
  BY <1>1 DEF ToSet
<1>4. ASSUME NEW x \in ToSet(s), x # Head(s) PROVE x \in ToSet(Tail(s))
  <2>1. PICK i \in 1 .. Len(s) : s[i] = x
    BY <1>1, <1>4 DEF ToSet
  <2>2. i # 1
    BY <1>1, <1>4, <2>1
  <2>3. i - 1 \in DOMAIN Tail(s) /\ Tail(s)[i - 1] = x
    <3>1. i - 1 \in DOMAIN Tail(s) /\ (i - 1) + 1 = i
      BY SMT, <1>1, <2>1, <2>2
    <3> QED BY <1>1, <2>1, <3>1
  <2> QED BY <2>3 DEF ToSet
<1>5. Apart(s) => Apart(Tail(s)) /\ \A k \in DOMAIN Tail(s) : Tail(s)[k].key # Head(s).key
  <2> SUFFICES ASSUME Apart(s) PROVE Apart(Tail(s)) /\ \A k \in DOMAIN Tail(s) : Tail(s)[k].key # Head(s).key
    OBVIOUS
  <2>1. \A k, j \in DOMAIN Tail(s) : Tail(s)[k].key = Tail(s)[j].key => k = j
    <3> SUFFICES ASSUME NEW k \in DOMAIN Tail(s), NEW j \in DOMAIN Tail(s), Tail(s)[k].key = Tail(s)[j].key
                 PROVE  k = j
      OBVIOUS
    <3>1. k + 1 \in DOMAIN s /\ j + 1 \in DOMAIN s /\ s[k + 1].key = s[j + 1].key
      BY <1>1
    <3>2. k + 1 = j + 1
      BY <3>1 DEF Apart
    <3> QED BY <1>1, <3>2
  <2>2. \A k \in DOMAIN Tail(s) : s[k + 1].key # s[1].key
    BY <1>1 DEF Apart
  <2> QED BY <1>1, <2>1, <2>2 DEF Apart
<1> QED BY <1>1, <1>2, <1>3, <1>4, <1>5

LEMMA StoresWriteRecord ==
    ASSUME StoresAssumption, StoresInv, NEW ok \in BOOLEAN, WriteRecord(ok)
    PROVE  StoresInv'
<1> DEFINE x == saving.index
           r == Head(saving.left)
<1>1. StoresShape /\ StoresSurvive /\ PlacesInv /\ SavingInv /\ SavedInv
  BY DEF StoresInv
<1>2. /\ saving.open /\ saving.left # << >>
      /\ blobs' = IF ok THEN [blobs EXCEPT !.at[x] = r] ELSE blobs
      /\ saving' = [saving EXCEPT !.left = Tail(@), !.index = @ + 1]
      /\ history' = [history EXCEPT !.failed = @ \/ ~ ok]
      /\ UNCHANGED <<kind, table>>
  BY DEF WriteRecord
<1>3. saving \in Saving /\ saving.left \in Seq(Record) /\ x \in Nat
  BY <1>1 DEF StoresShape, Saving
<1>4. table \in Seq(Record) /\ Len(table) \in Nat /\ DOMAIN table = 1 .. Len(table) /\ Apart(table)
      /\ Len(table) <= Cardinality(Keys) /\ Cardinality(Keys) \in Nat
  BY <1>1, KeysCounted DEF StoresShape, Table
<1> DEFINE left == saving.left
           rest == saving'.left
<1>5. saving' \in Saving /\ rest = Tail(left) /\ saving'.index = x + 1 /\ saving'.open
  <2> DEFINE s == [saving EXCEPT !.left = Tail(left)]
  <2>1. saving' = [s EXCEPT !.index = x + 1]
    BY <1>2, <1>3 DEF Saving
  <2>2. Tail(left) \in Seq(Record)
    BY <1>2, <1>3, TailLeft
  <2>3. s \in Saving /\ s.left = Tail(left) /\ s.open
    BY <1>2, <1>3, <2>2 DEF Saving
  <2> HIDE DEF s
  <2> QED BY <1>3, <2>1, <2>3 DEF Saving
<1>6. /\ rest \in Seq(Record) /\ Len(left) \in Nat \ {0} /\ Len(rest) = Len(left) - 1
      /\ DOMAIN rest = 1 .. Len(left) - 1 /\ DOMAIN left = 1 .. Len(left)
      /\ \A k \in DOMAIN rest : rest[k] = left[k + 1] /\ k + 1 \in DOMAIN left
      /\ r = left[1] /\ 1 \in DOMAIN left /\ r \in Record
      /\ r \in ToSet(left) /\ ToSet(left) = ToSet(rest) \cup {r}
      /\ Apart(left) => Apart(rest) /\ \A k \in DOMAIN rest : rest[k].key # r.key
  BY <1>2, <1>3, <1>5, TailLeft
<1>7. /\ history' \in History /\ history'.torn = history.torn /\ history'.lost = history.lost
      /\ history'.changes = history.changes /\ history'.saved = history.saved
      /\ history'.shuffled = history.shuffled
      /\ ~ history'.failed <=> ~ history.failed /\ ok
  BY <1>1, <1>2 DEF StoresShape, History
<1>8. /\ history.torn /\ x + Len(left) = Len(table) /\ blobs.count = Len(table)
      /\ Apart(left) /\ ToSet(left) \subseteq ToSet(table)
      /\ kind = "contacts" => \A k \in DOMAIN left : left[k] = table[x + k]
  BY <1>1, <1>2 DEF SavingInv
<1>9. x \in Indices /\ x + 1 \in DOMAIN table
  BY <1>3, <1>4, <1>6, <1>8, SMTT(30) DEF Indices
<1>10. /\ blobs' \in Blobs /\ blobs'.count = blobs.count
       /\ \A i \in Indices : i # x => blobs'.at[i] = blobs.at[i]
       /\ ok => blobs'.at[x] = r
       /\ ~ ok => blobs' = blobs
  BY <1>1, <1>2, <1>6, <1>9 DEF StoresShape, Blobs
<1>11. r # NoRecord /\ Old(r) /\ r \in ToSet(table)
  <2>1. r \in ToSet(table)
    BY <1>6, <1>8
  <2>2. \E i \in DOMAIN table : table[i] = r
    BY <1>4, <2>1, InTable
  <2> QED BY <1>1, <1>6, <2>1, <2>2 DEF StoresShape, StoresAssumption
<1>12. \A i \in 0 .. saving'.index - 1 : i \in Indices /\ (i = x \/ i \in 0 .. x - 1)
  BY <1>3, <1>4, <1>5, <1>9 DEF Indices
<1>13. \A i \in 0 .. x - 1 : i \in Indices /\ i # x /\ i \in 0 .. saving'.index - 1
  BY <1>3, <1>4, <1>5, <1>9 DEF Indices
<1>14. x \in 0 .. saving'.index - 1
  BY <1>3, <1>5
<1> HIDE DEF x, r, left, rest
<1>20. StoresShape'
  <2>1. \A i \in Indices : blobs'.at[i] # NoRecord => blobs'.at[i].version <= history'.changes
    BY <1>1, <1>7, <1>10, <1>11 DEF StoresShape, Old
  <2> QED BY <1>1, <1>2, <1>5, <1>7, <1>10, <2>1 DEF StoresShape, Table, Old, Apart
<1>21. SavingInv'
  <2>1. /\ saving'.index + Len(saving'.left) = Len(table') /\ blobs'.count = Len(table')
        /\ history'.torn
    <3>1. x + Len(left) = (x + 1) + Len(rest)
      BY <1>3, <1>6
    <3>2. saving'.index + Len(rest) = Len(table)
      BY <1>5, <1>8, <3>1
    <3> QED BY <1>2, <1>7, <1>8, <1>10, <3>2 DEF rest
  <2>2. Apart(saving'.left) /\ ToSet(saving'.left) \subseteq ToSet(table')
    BY <1>2, <1>6, <1>8 DEF rest
  <2>3. ASSUME kind' = "contacts", NEW k \in DOMAIN rest
        PROVE  rest[k] = table'[saving'.index + k]
    <3>1. rest[k] = left[k + 1] /\ k + 1 \in DOMAIN left /\ k \in Nat
      BY <1>6
    <3>2. left[k + 1] = table[x + (k + 1)]
      BY <1>2, <1>8, <2>3, <3>1
    <3>3. x + (k + 1) = saving'.index + k
      BY <1>3, <1>5, <3>1
    <3> QED BY <1>2, <3>1, <3>2, <3>3
  <2>4. ASSUME ~ history'.failed
        PROVE  /\ \A i \in 0 .. saving'.index - 1 : blobs'.at[i] \in ToSet(table)
               /\ \A i, j \in 0 .. saving'.index - 1 : blobs'.at[i].key = blobs'.at[j].key => i = j
               /\ \A i \in 0 .. saving'.index - 1, k \in DOMAIN rest : blobs'.at[i].key # rest[k].key
               /\ ToSet(table) \subseteq ToSet(rest) \cup {blobs'.at[i] : i \in 0 .. saving'.index - 1}
               /\ kind = "contacts" => \A i \in 0 .. saving'.index - 1 : blobs'.at[i] = table[i + 1]
    <3>0. ok /\ ~ history.failed
      BY <1>7, <2>4
    <3>1. /\ \A i \in 0 .. x - 1 : blobs.at[i] \in ToSet(table)
          /\ \A i, j \in 0 .. x - 1 : blobs.at[i].key = blobs.at[j].key => i = j
          /\ \A i \in 0 .. x - 1, k \in DOMAIN left : blobs.at[i].key # left[k].key
          /\ ToSet(table) \subseteq ToSet(left) \cup {blobs.at[i] : i \in 0 .. x - 1}
          /\ kind = "contacts" => \A i \in 0 .. x - 1 : blobs.at[i] = table[i + 1]
      BY <1>1, <1>2, <3>0 DEF SavingInv, x, left
    <3>2. \A i \in 0 .. x - 1 : blobs'.at[i] = blobs.at[i]
      BY <1>10, <1>13
    <3>3. blobs'.at[x] = r
      BY <1>10, <3>0
    <3>4. \A i \in 0 .. x - 1 : blobs.at[i].key # r.key
      BY <1>6, <3>1
    <3>5. \A i \in 0 .. saving'.index - 1 : blobs'.at[i] \in ToSet(table)
      BY <1>11, <1>12, <3>1, <3>2, <3>3
    <3>6. \A i, j \in 0 .. saving'.index - 1 : blobs'.at[i].key = blobs'.at[j].key => i = j
      BY <1>12, <3>1, <3>2, <3>3, <3>4
    <3>7. \A i \in 0 .. saving'.index - 1, k \in DOMAIN rest : blobs'.at[i].key # rest[k].key
      BY <1>6, <1>8, <1>12, <3>1, <3>2, <3>3
    <3>8. ToSet(table) \subseteq ToSet(rest) \cup {blobs'.at[i] : i \in 0 .. saving'.index - 1}
      <4>1. r \in {blobs'.at[i] : i \in 0 .. saving'.index - 1}
        BY <1>14, <3>3
      <4>2. \A i \in 0 .. x - 1 : blobs.at[i] \in {blobs'.at[j] : j \in 0 .. saving'.index - 1}
        BY <1>13, <3>2
      <4> QED BY <1>6, <3>1, <4>1, <4>2
    <3>9. ASSUME kind = "contacts", NEW i \in 0 .. saving'.index - 1 PROVE blobs'.at[i] = table[i + 1]
      <4>1. CASE i = x
        <5>1. r = table[x + 1]
          BY <1>6, <1>8, <3>9
        <5> QED BY <3>3, <4>1, <5>1
      <4>2. CASE i \in 0 .. x - 1
        BY <3>1, <3>2, <3>9, <4>2
      <4> QED BY <1>12, <4>1, <4>2
    <3> QED BY <3>5, <3>6, <3>7, <3>8, <3>9
  <2> QED BY <1>2, <2>1, <2>2, <2>3, <2>4, Zenon DEF SavingInv, rest
<1>22. SavedInv' /\ StoresSurvive'
  BY <1>1, <1>7, <1>8 DEF SavedInv, StoresSurvive
<1>23. PlacesInv'
  <2> SUFFICES ASSUME kind' = "contacts" /\ ~ history'.shuffled
               PROVE  PlacesInv'
    BY Zenon DEF PlacesInv
  <2>1. kind = "contacts" /\ ~ history.shuffled
    BY <1>2, <1>7
  <2>2. CASE ~ ok
    <3>1. ASSUME NEW k \in DOMAIN rest, NEW j \in Indices, blobs.at[j] # NoRecord
          PROVE  rest[k].key = blobs.at[j].key <=> j = saving'.index + k - 1
      <4>1. left[k + 1].key = blobs.at[j].key <=> j = x + (k + 1) - 1
        BY <1>1, <1>2, <1>6, <2>1, <3>1 DEF PlacesInv, x, left
      <4>2. k \in Nat /\ rest[k] = left[k + 1]
        BY <1>6, <3>1
      <4>3. saving'.index + k - 1 = x + (k + 1) - 1
        BY <1>3, <1>5, <4>2
      <4> QED BY <4>1, <4>2, <4>3
    <3>2. \A k \in DOMAIN saving'.left, j \in Indices :
              blobs'.at[j] # NoRecord =>
                  (saving'.left[k].key = blobs'.at[j].key <=> j = saving'.index + k - 1)
      BY <1>10, <2>2, <3>1, ZenonT(60) DEF rest
    <3>3. history'.failed
      BY <1>7, <2>2
    <3> QED BY <1>1, <1>2, <1>10, <2>1, <2>2, <3>2, <3>3, Zenon DEF PlacesInv
  <2>3. CASE ok
    <3>1. \A k \in DOMAIN left, j \in Indices : blobs.at[j] # NoRecord =>
              (left[k].key = blobs.at[j].key <=> j = x + k - 1)
      BY <1>1, <1>2, <2>1 DEF PlacesInv, x, left
    <3>2. \A j \in Indices : blobs.at[j] # NoRecord => (r.key = blobs.at[j].key <=> j = x)
      <4>1. x + 1 - 1 = x
        BY <1>3
      <4> QED BY <1>6, <3>1, <4>1
    <3>3. blobs'.at[x] = r /\ \A j \in Indices : j # x => blobs'.at[j] = blobs.at[j]
      BY <1>10, <2>3
    <3>4. r = table[x + 1]
      BY <1>6, <1>8, <2>1
    <3>5. /\ \A i, j \in Indices :
                blobs.at[i] # NoRecord /\ blobs.at[j] # NoRecord =>
                    (blobs.at[i].key = blobs.at[j].key => i = j)
          /\ \A i \in DOMAIN table, j \in Indices :
                blobs.at[j] # NoRecord /\ table[i].key = blobs.at[j].key =>
                    table[i].version >= blobs.at[j].version
      BY <1>1, <2>1 DEF PlacesInv
    <3>6. \A i, j \in Indices :
              blobs'.at[i] # NoRecord /\ blobs'.at[j] # NoRecord =>
                  (blobs'.at[i].key = blobs'.at[j].key => i = j)
      BY <3>2, <3>3, <3>5
    <3>7. ASSUME NEW i \in DOMAIN table, NEW j \in Indices, blobs'.at[j] # NoRecord,
                 table[i].key = blobs'.at[j].key
          PROVE  table[i].version >= blobs'.at[j].version
      <4>1. CASE j = x
        <5>1. i = x + 1
          BY <1>4, <1>9, <3>3, <3>4, <3>7, <4>1 DEF Apart
        <5>2. table[i].version \in Int
          <6>1. table[i] \in Record
            BY <1>4, <3>7, InTable
          <6> QED BY <6>1 DEF Record
        <5> QED BY <3>3, <3>4, <4>1, <5>1, <5>2
      <4>2. CASE j # x
        BY <3>3, <3>5, <3>7, <4>2
      <4> QED BY <4>1, <4>2
    <3>8. ASSUME NEW k \in DOMAIN rest, NEW j \in Indices, blobs'.at[j] # NoRecord
          PROVE  rest[k].key = blobs'.at[j].key <=> j = saving'.index + k - 1
      <4>1. k \in Nat \ {0} /\ rest[k] = left[k + 1] /\ k + 1 \in DOMAIN left /\ rest[k].key # r.key
        BY <1>6, <1>8, <3>8
      <4>2. saving'.index + k - 1 = x + (k + 1) - 1 /\ x # saving'.index + k - 1
        <5>1. saving'.index = x + 1 /\ k \in Nat \ {0} /\ x \in Nat
          BY <1>3, <1>5, <4>1
        <5> QED BY <5>1, SMT
      <4>3. CASE j = x
        BY <3>3, <4>1, <4>2, <4>3
      <4>4. CASE j # x
        <5>1. left[k + 1].key = blobs.at[j].key <=> j = x + (k + 1) - 1
          BY <3>1, <3>3, <3>8, <4>1, <4>4
        <5> QED BY <3>3, <4>1, <4>2, <4>4, <5>1
      <4> QED BY <4>3, <4>4
    <3>9. ASSUME ~ history'.failed
          PROVE  /\ Len(history'.saved) <= blobs'.count
                 /\ \A i \in DOMAIN history'.saved :
                       /\ blobs'.at[i - 1] # NoRecord
                       /\ blobs'.at[i - 1].key = history'.saved[i].key
                       /\ blobs'.at[i - 1].version >= history'.saved[i].version
      <4>1. /\ Len(history.saved) <= blobs.count
            /\ \A i \in DOMAIN history.saved :
                  /\ blobs.at[i - 1] # NoRecord
                  /\ blobs.at[i - 1].key = history.saved[i].key
                  /\ blobs.at[i - 1].version >= history.saved[i].version
        BY <1>1, <1>7, <2>1, <3>9 DEF PlacesInv
      <4>2. Len(history'.saved) <= blobs'.count
        BY <1>7, <1>10, <4>1
      <4>3. ASSUME NEW i \in DOMAIN history.saved
            PROVE  /\ blobs'.at[i - 1] # NoRecord
                   /\ blobs'.at[i - 1].key = history.saved[i].key
                   /\ blobs'.at[i - 1].version >= history.saved[i].version
        <5>1. history.saved \in Seq(Record)
          BY <1>1 DEF StoresShape, Table
        <5>2. i \in 1 .. Len(history.saved) /\ Len(history.saved) \in Nat /\ history.saved[i] \in Record
          BY <4>3, <5>1, InTable
        <5>3. i - 1 \in Indices
          BY <1>4, <1>8, <4>1, <5>2 DEF Indices
        <5>4. CASE i - 1 = x
          <6>1. blobs.at[x] # NoRecord /\ blobs.at[x].key = history.saved[i].key
                /\ blobs.at[x].version >= history.saved[i].version
            BY <4>1, <4>3, <5>4
          <6>2. r.key = blobs.at[x].key
            BY <1>9, <3>2, <6>1
          <6>3. r.version >= blobs.at[x].version
            BY <1>9, <3>4, <3>5, <6>1, <6>2
          <6>4. r.version \in Int /\ blobs.at[x].version \in Int /\ history.saved[i].version \in Int
            BY <1>1, <1>6, <1>9, <5>2, <6>1 DEF StoresShape, Blobs, Record
          <6> QED BY <1>11, <3>3, <5>4, <6>1, <6>2, <6>3, <6>4
        <5>5. CASE i - 1 # x
          BY <3>3, <4>1, <4>3, <5>3, <5>5
        <5> QED BY <5>4, <5>5
      <4> QED BY <1>7, <4>2, <4>3
    <3> QED BY <1>2, <3>6, <3>7, <3>8, <3>9, Zenon DEF PlacesInv, rest
  <2> QED BY <2>2, <2>3
<1> QED BY <1>20, <1>21, <1>22, <1>23 DEF StoresInv

\* What is missed by no load that begins with an empty table.
LEMMA NothingMissed ==
    ASSUME StoresAssumption, StoresInv, table = << >>, NEW limit \in Nat,
           kind = "contacts" => limit = MaxContacts
    PROVE  ~ Misses(Loaded(limit), limit)
<1> DEFINE n == LastLoaded(limit)
           after == Loaded(limit)
           due == {r \in ToSet(history.saved) : Readable(r.key)}
           saved == history.saved
<1>1. StoresShape /\ SavedInv /\ PlacesInv
  BY DEF StoresInv
<1>2. n \in Nat /\ n <= blobs.count /\ blobs.count \in Nat /\ Cardinality(Keys) \in Nat
      /\ n <= Cardinality(Keys) /\ (blobs.count <= limit => n = blobs.count)
  BY <1>1, LastIndex DEF StoresShape, Blobs
<1>3. \A i \in 0 .. n - 1 : i \in Indices /\ i \in 0 .. blobs.count - 1
  BY <1>2 DEF Indices
<1>4. saved \in Seq(Record) /\ Len(saved) \in Nat /\ DOMAIN saved = 1 .. Len(saved)
      /\ (kind = "contacts" => Len(saved) <= MaxContacts) /\ ToSet(saved) \subseteq Record
  BY <1>1, InTable DEF StoresShape, Table
<1>5. ToSet(after) \subseteq StoredBelow(n)
  <2>1. ToSet(after) \subseteq ToSet(table) \cup StoredBelow(n)
    BY <1>1, LoadBrings
  <2>2. ToSet(table) = {}
    BY EmptyTable
  <2> QED BY <2>1, <2>2
<1>6. ASSUME \A i, j \in 0 .. n - 1 :
                 IsStored(i) /\ IsStored(j) /\ blobs.at[i].key = blobs.at[j].key => i = j
      PROVE  ToSet(after) = StoredBelow(n)
  <2>1. kind = "contacts" => limit <= MaxContacts
    BY DEF StoresAssumption
  <2> QED BY <1>1, <1>6, <2>1, LoadComplete
<1> HIDE DEF n, after
<1>7. CASE ~ history.torn /\ ~ history.failed
  <2>1. /\ blobs.count = Len(saved)
        /\ ToSet(saved) = {blobs.at[i] : i \in 0 .. blobs.count - 1}
        /\ \A i, j \in 0 .. blobs.count - 1 : blobs.at[i].key = blobs.at[j].key => i = j
    BY <1>1, <1>7 DEF SavedInv
  <2>2. StoredBelow(n) \subseteq due
    <3> SUFFICES ASSUME NEW i \in 0 .. n - 1, IsStored(i) PROVE blobs.at[i] \in due
      BY DEF StoredBelow
    <3>1. blobs.at[i] \in ToSet(saved)
      BY <1>3, <2>1
    <3> QED BY <3>1 DEF IsStored
  <2>3. ToSet(after) \subseteq due
    BY <1>5, <2>2
  <2>4. ASSUME Len(saved) <= limit PROVE ToSet(after) = due
    <3>1. n = blobs.count
      BY <1>2, <2>1, <2>4
    <3>2. ToSet(after) = StoredBelow(n)
      BY <1>6, <2>1, <3>1
    <3>3. ASSUME NEW r \in due PROVE r \in StoredBelow(n)
      <4>1. r \in ToSet(saved) /\ Readable(r.key) /\ r \in Record
        BY <1>4, <3>3
      <4>2. PICK i \in 0 .. blobs.count - 1 : blobs.at[i] = r
        BY <2>1, <4>1
      <4>3. IsStored(i)
        BY <4>1, <4>2 DEF IsStored, StoresAssumption
      <4> QED BY <3>1, <4>2, <4>3 DEF StoredBelow
    <3> QED BY <2>3, <3>2, <3>3
  <2> QED BY <1>7, <2>3, <2>4, Zenon DEF Misses, after
<1>8. CASE history.torn /\ ~ history.failed
  <2> SUFFICES ASSUME kind = "contacts", ~ history.shuffled, NEW r \in due
               PROVE  ~ \A s \in ToSet(after) : s.key = r.key => s.version < r.version
    BY <1>8, Zenon DEF Misses, after
  <2>1. /\ \A i, j \in Indices :
              blobs.at[i] # NoRecord /\ blobs.at[j] # NoRecord =>
                  (blobs.at[i].key = blobs.at[j].key => i = j)
        /\ Len(saved) <= blobs.count
        /\ \A i \in DOMAIN saved :
              /\ blobs.at[i - 1] # NoRecord
              /\ blobs.at[i - 1].key = saved[i].key
              /\ blobs.at[i - 1].version >= saved[i].version
    BY <1>1, <1>8 DEF PlacesInv
  <2>2. ToSet(after) = StoredBelow(n)
    BY <1>3, <1>6, <2>1 DEF IsStored
  <2>3. PICK i \in 1 .. Len(saved) : saved[i] = r
    BY <1>4, InTable
  <2>4. i - 1 \in 0 .. n - 1
    <3>1. Len(saved) <= n
      BY <1>2, <1>4, <2>1 DEF n, LastLoaded, StoresAssumption
    <3> QED BY <1>2, <1>4, <2>3, <3>1
  <2>5. /\ blobs.at[i - 1] # NoRecord /\ blobs.at[i - 1].key = r.key
        /\ blobs.at[i - 1].version >= r.version
    BY <1>4, <2>1, <2>3
  <2>6. IsStored(i - 1)
    BY <2>5 DEF IsStored
  <2>7. blobs.at[i - 1] \in ToSet(after)
    BY <2>2, <2>4, <2>6 DEF StoredBelow
  <2>8. blobs.at[i - 1].version \in Int /\ r.version \in Int
    BY <1>1, <1>3, <1>4, <2>4, <2>5 DEF StoresShape, Blobs, Record
  <2> QED BY <2>5, <2>7, <2>8
<1>9. CASE history.failed
  BY <1>9 DEF Misses
<1>10. history.torn \in BOOLEAN /\ history.failed \in BOOLEAN
  BY <1>1 DEF StoresShape, History
<1> QED BY <1>7, <1>8, <1>9, <1>10 DEF after

LEMMA StoresLoad ==
    ASSUME StoresAssumption, StoresInv, NEW limit \in Nat, LoadTable(limit),
           kind = "contacts" => limit = MaxContacts
    PROVE  StoresInv'
<1> DEFINE after == Loaded(limit)
<1>1. StoresShape /\ StoresSurvive /\ PlacesInv
  BY DEF StoresInv
<1>2. /\ ~ saving.open /\ table' = after
      /\ history' = [history EXCEPT !.lost = @ \/ (table = << >> /\ Misses(after, limit))]
      /\ UNCHANGED <<kind, blobs, saving>>
  BY DEF LoadTable
<1>3. Table(after) /\ ToSet(after) \subseteq ToSet(table) \cup StoredBelow(LastLoaded(limit))
  BY <1>1, LoadBrings
<1>4. table = << >> => ~ Misses(after, limit)
  BY NothingMissed
<1> HIDE DEF after
<1>5. /\ history' \in History /\ history.changes <= history'.changes
      /\ history'.changes = history.changes
      /\ history'.saved = history.saved /\ history'.torn = history.torn
      /\ history'.shuffled = history.shuffled /\ history'.failed = history.failed
      /\ ~ history'.lost
  BY <1>1, <1>2, <1>4 DEF StoresShape, StoresSurvive, History
<1>6. \A s \in ToSet(table) : s.version <= history.changes /\ \E i \in DOMAIN table : s = table[i]
  BY <1>1, InTable DEF StoresShape, Table, Old
<1>7. ASSUME NEW s \in StoredBelow(LastLoaded(limit))
      PROVE  \E i \in Indices : s = blobs.at[i] /\ s \in Record
  <2>1. PICK i \in 0 .. LastLoaded(limit) - 1 : IsStored(i) /\ s = blobs.at[i]
    BY <1>7 DEF StoredBelow
  <2>2. LastLoaded(limit) \in 0 .. Cardinality(Keys) /\ Cardinality(Keys) \in Nat
    BY <1>1, LastIndex
  <2>3. i \in Indices
    BY <2>1, <2>2 DEF Indices
  <2> QED BY <1>1, <2>1, <2>3 DEF StoresShape, Blobs, IsStored
<1>8. \A s \in ToSet(table') : s.version <= history'.changes
  <2> SUFFICES ASSUME NEW s \in ToSet(after) PROVE s.version <= history.changes
    BY <1>2, <1>5
  <2>1. CASE s \in ToSet(table)
    BY <1>6, <2>1
  <2>2. CASE s \in StoredBelow(LastLoaded(limit))
    BY <1>1, <1>7, <2>2 DEF StoresShape, Old, StoresAssumption
  <2> QED BY <1>3, <2>1, <2>2
<1>9. ASSUME kind = "contacts" /\ ~ history.shuffled, NEW s \in ToSet(table'), NEW j \in Indices,
             blobs.at[j] # NoRecord /\ s.key = blobs.at[j].key
      PROVE  s.version >= blobs.at[j].version
  <2>1. CASE s \in ToSet(table)
    BY <1>1, <1>6, <1>9, <2>1 DEF PlacesInv
  <2>2. CASE s \in StoredBelow(LastLoaded(limit))
    <3>1. PICK i \in Indices : s = blobs.at[i] /\ s \in Record
      BY <1>7, <2>2
    <3>2. i = j
      BY <1>1, <1>9, <3>1 DEF PlacesInv, StoresAssumption
    <3> QED BY <3>1, <3>2 DEF Record
  <2> QED BY <1>2, <1>3, <1>9, <2>1, <2>2
<1>10. saving' \in Saving /\ ~ saving'.open
  BY <1>1, <1>2 DEF StoresShape
<1> QED BY <1>2, <1>3, <1>5, <1>8, <1>9, <1>10, TableChanges

LEMMA StoresStep ==
    ASSUME StoresAssumption, StoresInv, [StoresNext]_storesVars
    PROVE  StoresInv'
<1>1. ASSUME NEW k \in Keys, Change(k) PROVE StoresInv'
  BY <1>1, StoresChange
<1>2. ASSUME NEW k \in Keys, RemoveRecord(k) PROVE StoresInv'
  BY <1>2, StoresRemove
<1>3. CASE SaveContacts
  BY <1>3, StoresSaveContacts
<1>4. CASE SaveSessions
  BY <1>4, StoresSaveSessions
<1>5. ASSUME NEW ok \in BOOLEAN, WriteRecord(ok) PROVE StoresInv'
  BY <1>5, StoresWriteRecord
<1>6. CASE CommitSave
  BY <1>6, StoresCommitSave
<1>7. CASE LoadContacts
  BY <1>7, StoresLoad DEF LoadContacts, StoresAssumption
<1>8. CASE LoadSessions
  <2>1. kind # "contacts" /\ LoadTable(MaxPersisted) /\ MaxPersisted \in Nat
    BY <1>8 DEF LoadSessions, StoresAssumption
  <2> QED BY <2>1, StoresLoad
<1>9. CASE Restart
  BY <1>9, StoresRestart
<1>10. CASE UNCHANGED storesVars
  <2>1. /\ kind' = kind /\ table' = table /\ blobs' = blobs /\ saving' = saving /\ history' = history
    BY <1>10 DEF storesVars
  <2>2. StoresShape'
    BY <2>1 DEF StoresInv, StoresShape, Table, Old, Apart, Blobs, Saving, History
  <2>3. SavingInv'
    BY <2>1 DEF StoresInv, SavingInv, Apart
  <2>4. SavedInv' /\ PlacesInv' /\ StoresSurvive'
    BY <2>1 DEF StoresInv, SavedInv, PlacesInv, StoresSurvive
  <2> QED BY <2>2, <2>3, <2>4 DEF StoresInv
<1> QED BY <1>1, <1>2, <1>3, <1>4, <1>5, <1>6, <1>7, <1>8, <1>9, <1>10 DEF StoresNext

LEMMA StoresHold == StoresSpec => []StoresInv
<1>1. StoresInit => StoresInv
  BY StoresAssumption, StoresBegin
<1>2. StoresInv /\ [StoresNext]_storesVars => StoresInv'
  BY StoresAssumption, StoresStep
<1> QED BY <1>1, <1>2, PTL DEF StoresSpec

\* For any keys, lengths of names, limits, orders of a HashMap, removals, torn
\* and refused writes and restarts, what ContactStore and SessionManager load is
\* what they last saved, and after an interrupted save no contact that kept its
\* index is missing or older.
THEOREM StoresComeBack == StoresSpec => []StoresSurvive
<1>1. StoresInv => StoresSurvive
  BY DEF StoresInv
<1> QED BY <1>1, StoresHold, PTL

\* The types of the two tables and of their images in NVS.
THEOREM StoresTypes == StoresSpec => []StoresTypeOK
<1>1. StoresInv => StoresTypeOK
  <2> SUFFICES ASSUME StoresInv PROVE StoresTypeOK
    OBVIOUS
  <2>1. StoresShape /\ table \in Seq(Record) /\ Apart(table)
        /\ (kind = "contacts" => Len(table) <= MaxContacts)
    BY DEF StoresInv, StoresShape, Table
  <2>2. \A i \in DOMAIN table : table[i] \in Record
    BY <2>1, InTable
  <2>3. blobs.count \in 0 .. Cardinality(Keys)
    BY <2>1, StoresAssumption, KeysCounted DEF StoresShape, Blobs
  <2>4. \A i \in Indices : blobs.at[i] \in Record \cup {NoRecord}
    BY <2>1 DEF StoresShape, Blobs
  <2> QED BY <2>1, <2>2, <2>3, <2>4 DEF StoresTypeOK, Apart
<1> QED BY <1>1, StoresHold, PTL

-----------------------------------------------------------------------------
\* A behaviour of the five parts is one of each of them, in which it may rest.
LEMMA RestartParts ==
    RestartSpec => Spec /\ PowerSpec /\ OtaSpec /\ StoresSpec /\ IdentitySpec
<1>1. RestartInit => Init /\ PowerInit /\ OtaInit /\ StoresInit /\ IdentityInit
  BY DEF RestartInit
<1>2. [RestartNext]_<<part, vars, powerVars, otaVars, storesVars, identityVars>> =>
        /\ [Next]_vars /\ [PowerNext]_powerVars /\ [OtaNext]_otaVars
        /\ [StoresNext]_storesVars /\ [IdentityNext]_identityVars
  BY Zenon DEF RestartNext
<1> QED BY <1>1, <1>2, PTL DEF RestartSpec, Spec, PowerSpec, OtaSpec, StoresSpec, IdentitySpec

\* Whatever a node goes through, its counters and lengths stay within the tables,
\* buffers and widths of the code.
THEOREM RestartsKeepTypes == RestartSpec => []RestartTypes
<1>1. TypeOK /\ PowerTypeOK /\ OtaTypeOK /\ StoresTypeOK /\ IdentityTypeOK => RestartTypes
  BY DEF RestartTypes
<1> QED BY <1>1, RestartParts, PacketIdTypes, PowerTypes, OtaTypes, StoresTypes, IdentityTypes, PTL
=============================================================================

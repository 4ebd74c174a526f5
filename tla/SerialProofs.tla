---------------------------- MODULE SerialProofs -----------------------------
(***************************************************************************)
(* Proofs about the serial input (SerialInput): the parsers and the        *)
(* detector stay in their types, and what the app sends as long as nothing *)
(* was lost is delivered, once and as it was sent, for every set of frames *)
(* that fits the buffers.                                                  *)
(*                                                                         *)
(* The invariant has two parts.  TypesInv says what each parser may hold   *)
(* in each of its states; FollowsInv says where the parsers and the        *)
(* detector stand when n bytes of a frame have been read.  The delivery    *)
(* properties alone are not inductive: they say nothing of the bytes that  *)
(* are still under way, nor of the parser that is to read them.            *)
(*                                                                         *)
(* Large numerals are kept from the provers behind names (Bytes, Words,    *)
(* MaxLength) and behind lemmas that say all that is needed of them.       *)
(***************************************************************************)
EXTENDS SerialInput, SequenceTheorems, WellFoundedInduction, TLAPS

\* What has been collected, and the buffers it is collected in.
MeshCoreParsers == [state : MeshCore!States, data_len : 0 .. MaxLength,
                    frame : Seq(Bytes), crc_low : Bytes]

MeshCoreInv(p) ==
    /\ p \in MeshCoreParsers
    /\ p.state \in {"WaitSync1", "WaitSync2", "WaitLenLow", "WaitLenHigh"} => p.frame = << >>
    /\ p.state = "WaitLenHigh" => p.data_len <= 255
    /\ p.state \in {"WaitCommand", "WaitSequence", "WaitData"} =>
          /\ p.data_len <= MaxData /\ Len(p.frame) <= p.data_len + 1
          /\ p.state = "WaitCommand" => p.frame = << >>
          /\ p.state = "WaitSequence" => Len(p.frame) = 1
          /\ p.state = "WaitData" => Len(p.frame) >= 2
    /\ p.state \in {"WaitCrcLow", "WaitCrcHigh", "WaitEnd"} =>
          p.data_len <= MaxData /\ Len(p.frame) = p.data_len + 2

MeshtasticParsers == [state : Meshtastic!States, payload_len : 0 .. MaxLength,
                      frame : Seq(Bytes)]

MeshtasticInv(p) ==
    /\ p \in MeshtasticParsers
    /\ p.state # "WaitPayload" => p.frame = << >>
    /\ p.state = "WaitPayload" => p.payload_len <= MaxPayload /\ Len(p.frame) < p.payload_len

KissParsers == [state : Kiss!States, frame : Seq(Bytes)]

KissInv(p) ==
    /\ p \in KissParsers
    /\ Len(p.frame) <= MaxKissData + 1

AtInv(p) == p \in Seq(Bytes) /\ Len(p) <= AtCapacity

ParserInv(app, p) ==
    CASE app = "MeshCore"   -> MeshCoreInv(p)
      [] app = "Meshtastic" -> MeshtasticInv(p)
      [] app = "RNode"      -> KissInv(p)
      [] app = "AtCommand"  -> AtInv(p)

ParserSets == [MeshCore : MeshCoreParsers, Meshtastic : MeshtasticParsers,
               RNode : KissParsers, AtCommand : Seq(Bytes)]

ParsersInv ==
    /\ parsers \in ParserSets
    /\ \A app \in Protocols : ParserInv(app, parsers[app])
    /\ serial_protocol = "Unknown" => parsers = ParsersAtRest

Detectors == [state : {"Idle", "MeshCore1", "Meshtastic1", "At1"},
              detected : Protocols \cup {"Unknown"},
              lock_count : 0 .. MaxLockCount, state_bytes : 0 .. SyncTimeout + 1]

DetectorInv ==
    /\ detector \in Detectors
    /\ serial_protocol = "Unknown" => detector.detected = "Unknown" /\ detector.lock_count = 0

\* BOOLEAN by another name, which keeps a prover from going through its cases.
Truths == BOOLEAN
Ghosts == [got : Truths, wrong : Truths, corrupt : Truths]

TypesInv ==
    /\ serial_protocol \in Protocols \cup {"Unknown"}
    /\ ParsersInv /\ DetectorInv
    /\ host \in Apps
    /\ current = NoFrame \/ current \in FramesOf(host)
    /\ line \in Seq(Bytes)
    /\ noise \in 0 .. MaxNoise /\ lost \in 0 .. MaxLost
    /\ ghost \in Ghosts
    /\ clean \in BOOLEAN
-----------------------------------------------------------------------------
Low(n)  == n % 256
High(n) == n \div 256

\* The parsers after the first n bytes of a frame.
MeshCoreAt(f, n, p) ==
    LET L == Len(f) IN
    /\ n \in {0, L + 7} => p = MeshCore!Fresh
    /\ n = 1 => p.state = "WaitSync2" /\ p.frame = << >>
    /\ n = 2 => p.state = "WaitLenLow" /\ p.frame = << >>
    /\ n = 3 => p.state = "WaitLenHigh" /\ p.data_len = Low(L - 2) /\ p.frame = << >>
    /\ n = 4 => p.state = "WaitCommand" /\ p.data_len = L - 2 /\ p.frame = << >>
    /\ n \in 5 .. L + 3 => /\ p.state = IF n = 5 THEN "WaitSequence" ELSE "WaitData"
                           /\ p.data_len = L - 2 /\ p.frame = SubSeq(f, 1, n - 4)
    /\ n = L + 4 => p.state = "WaitCrcLow" /\ p.frame = f
    /\ n = L + 5 => p.state = "WaitCrcHigh" /\ p.frame = f /\ p.crc_low = Low(Crc(f))
    /\ n = L + 6 => p.state = "WaitEnd" /\ p.frame = f

MeshtasticAt(f, n, p) ==
    LET L == Len(f) IN
    /\ n \in {0, L + 4} => p = Meshtastic!Fresh
    /\ n = 1 => p.state = "WaitSync2" /\ p.frame = << >>
    /\ n = 2 => p.state = "WaitLenHigh" /\ p.frame = << >>
    /\ n = 3 => p.state = "WaitLenLow" /\ p.payload_len = 256 * High(L) /\ p.frame = << >>
    /\ n \in 4 .. L + 3 => /\ p.state = "WaitPayload" /\ p.payload_len = L
                           /\ p.frame = SubSeq(f, 1, n - 4)

Pieces(f) == [i \in DOMAIN f |-> Kiss!escape_byte(f[i])]
Flat(seqs) ==
    LET flatten[i \in 1 .. Len(seqs)] ==
            IF i = 1 THEN seqs[i] ELSE flatten[i - 1] \o seqs[i]
    IN  flatten

\* The bytes of the first k bytes of a frame, escaped.
Upto(f, k) == IF k = 0 THEN 0 ELSE Len(Flat(Pieces(f))[k])

KissAt(f, n, p) ==
    \/ n \in {0, 2 + Upto(f, Len(f))} /\ p = Kiss!Fresh
    \/ \E k \in 0 .. Len(f) :
          /\ n = 1 + Upto(f, k)
          /\ p.state = (IF k = 0 THEN "WaitCommand" ELSE "ReadData")
          /\ p.frame = SubSeq(f, 1, k)
    \/ \E k \in 1 .. Len(f) - 1 :
          /\ n = 2 + Upto(f, k) /\ f[k + 1] \in {Kiss!FEND, Kiss!FESC}
          /\ p.state = "Escape" /\ p.frame = SubSeq(f, 1, k)

AtAt(f, n) == IF n <= Len(f) THEN SubSeq(f, 1, n) ELSE << >>

ParserAt(app, f, n, p) ==
    CASE app = "MeshCore"   -> MeshCoreAt(f, n, p)
      [] app = "Meshtastic" -> MeshtasticAt(f, n, p)
      [] app = "RNode"      -> KissAt(f, n, p)
      [] app = "AtCommand"  -> p = AtAt(f, n)

\* All but the first n bytes of it are under way.
Remains(bytes, e, n) ==
    /\ n <= Len(e) /\ Len(bytes) = Len(e) - n
    /\ \A i \in 1 .. Len(bytes) : bytes[i] = e[n + i]

\* The bytes a frame opens with, and those that open none another app sends.
First(app) ==
    CASE app = "MeshCore" -> \hAA [] app = "Meshtastic" -> \h94
      [] app = "AtCommand" -> \h41 [] app = "RNode" -> \hC0
Second(app) ==
    CASE app = "MeshCore" -> \h55 [] app = "Meshtastic" -> \hC3
      [] app = "AtCommand" -> \h54
Innocent(app, b) == b \notin {\h55, \h94, \hC0, \h41} /\ (b = \hAA => app = "MeshCore")

\* The detector before the first byte of a frame, after n bytes of noise.
Waits(app, d, n) ==
    \/ d.state = "Idle"
    \/ app = "MeshCore" /\ d.state = "MeshCore1" /\ d.state_bytes < n

\* ... and after it.
OpeningOf(app) == CASE app = "MeshCore" -> "MeshCore1" [] app = "Meshtastic" -> "Meshtastic1"
                    [] app = "AtCommand" -> "At1"

Opening(app, d) == d.state = OpeningOf(app) /\ d.state_bytes <= MaxNoise

\* The bytes that complete a frame.
Done(app, f) == IF app = "AtCommand" THEN Len(f) + 1 ELSE Len(Encode(app, f))

InFrame(f, n) ==
    /\ Remains(line, Encode(host, f), n)
    /\ ghost.got <=> n >= Done(host, f)
    /\ \/ serial_protocol = host /\ ParserAt(host, f, n, parsers[host])
       \/ serial_protocol = "Unknown" /\ n = 0 /\ Waits(host, detector, MaxNoise)
       \/ serial_protocol = "Unknown" /\ n = 1 /\ host # "RNode" /\ Opening(host, detector)
       \/ /\ host = "AtCommand" /\ serial_protocol = "Unknown" /\ ghost.got
          /\ detector.state = "Idle"

Between ==
    /\ line = << >> /\ ghost.got
    /\ \/ serial_protocol = host /\ parsers[host] = ParsersAtRest[host]
       \/ serial_protocol = "Unknown" /\ Waits(host, detector, noise)

FollowsInv ==
    clean => /\ ~ ghost.wrong
             /\ Between \/ (current # NoFrame /\ \E n \in Nat : InFrame(current, n))

-----------------------------------------------------------------------------
\* The parser of MeshCore frames.

\* Two bytes make a length, as long as it is not too long.
LEMMA Lengths ==
    /\ MaxLength \in Nat /\ 0 \in 0 .. MaxLength /\ 0 \in Bytes
    /\ \A b \in Bytes : b \in Nat /\ b <= 255 /\ b \in 0 .. MaxLength
    /\ \A b \in Bytes : 256 * b \in 0 .. MaxLength
<1>1. MaxLength \in Nat /\ 0 \in 0 .. MaxLength /\ 0 \in Bytes
  BY SMT DEF MaxLength, Bytes
<1>2. ASSUME NEW b \in Bytes PROVE b \in Nat /\ b <= 255 /\ b \in 0 .. MaxLength
  BY SMTT(90) DEF MaxLength, Bytes
<1>3. ASSUME NEW b \in Bytes PROVE 256 * b \in 0 .. MaxLength
  <2>1. b \in Nat /\ 256 * b <= MaxLength
    BY SMT DEF MaxLength, Bytes
  <2> QED BY SMT, <1>1, <2>1
<1> QED BY <1>1, <1>2, <1>3, Zenon

LEMMA MeshCoreFresh ==
    /\ MeshCore!Fresh \in MeshCoreParsers
    /\ MeshCore!Fresh.state = "WaitSync1" /\ MeshCore!Fresh.frame = << >>
<1>1. << >> \in Seq(Bytes)
  BY SMT
<1> QED BY SMT, <1>1, Lengths DEF MeshCoreParsers, MeshCore!Fresh, MeshCore!States

LEMMA MeshCoreGoto ==
    ASSUME NEW p \in MeshCoreParsers, NEW s \in MeshCore!States
    PROVE  /\ MeshCore!Goto(p, s) \in MeshCoreParsers
           /\ MeshCore!Goto(p, s).state = s /\ MeshCore!Goto(p, s).data_len = p.data_len
           /\ MeshCore!Goto(p, s).frame = p.frame /\ MeshCore!Goto(p, s).crc_low = p.crc_low
  BY SMT DEF MeshCoreParsers, MeshCore!Goto

LEMMA MeshCoreCollect ==
    ASSUME NEW p \in MeshCoreParsers, NEW b \in Bytes
    PROVE  /\ MeshCore!Collect(p, b) \in MeshCoreParsers
           /\ MeshCore!Collect(p, b).state = p.state
           /\ MeshCore!Collect(p, b).data_len = p.data_len
           /\ MeshCore!Collect(p, b).frame = Append(p.frame, b)
           /\ MeshCore!Collect(p, b).crc_low = p.crc_low
<1>1. Append(p.frame, b) \in Seq(Bytes)
  BY SMT DEF MeshCoreParsers
<1> QED BY SMT, <1>1 DEF MeshCoreParsers, MeshCore!Collect

LEMMA MeshCoreLength ==
    ASSUME NEW p \in MeshCoreParsers, NEW n \in 0 .. MaxLength
    PROVE  LET l == [p EXCEPT !.data_len = n]
           IN  /\ l \in MeshCoreParsers /\ l.state = p.state /\ l.data_len = n
               /\ l.frame = p.frame /\ l.crc_low = p.crc_low
  BY SMT DEF MeshCoreParsers

LEMMA MeshCoreCrc ==
    ASSUME NEW p \in MeshCoreParsers, NEW b \in Bytes
    PROVE  LET k == [p EXCEPT !.crc_low = b]
           IN  /\ k \in MeshCoreParsers /\ k.state = p.state /\ k.data_len = p.data_len
               /\ k.frame = p.frame /\ k.crc_low = b
  BY SMT DEF MeshCoreParsers

LEMMA MeshCoreTypes ==
    ASSUME LimitsAssumption, NEW p, MeshCoreInv(p), NEW b \in Bytes
    PROVE  MeshCoreInv(MeshCore!feed(p, b))
<1>1. p \in MeshCoreParsers
  BY Zenon DEF MeshCoreInv
<1>2. MeshCoreInv(MeshCore!Fresh)
  BY SMT, MeshCoreFresh DEF MeshCoreInv
<1>3. ASSUME NEW s \in MeshCore!States
      PROVE  /\ MeshCore!Goto(p, s) \in MeshCoreParsers
             /\ MeshCore!Goto(p, s).state = s /\ MeshCore!Goto(p, s).data_len = p.data_len
             /\ MeshCore!Goto(p, s).frame = p.frame /\ MeshCore!Goto(p, s).crc_low = p.crc_low
  BY <1>1, MeshCoreGoto, Zenon
<1>4. CASE p.state \in {"WaitSync1", "WaitSync2"}
  <2>1. MeshCore!feed(p, b) = MeshCore!AtSync(p, b)
    BY SMT, <1>4 DEF MeshCore!feed
  <2>2. MeshCore!AtSync(p, b) \in {MeshCore!Fresh, MeshCore!Goto(p, "WaitLenLow"), MeshCore!Goto(p, "WaitSync2")}
    BY SMT DEF MeshCore!AtSync
  <2>3. p.frame = << >>
    BY SMT, <1>4 DEF MeshCoreInv
  <2>4. ASSUME NEW s \in {"WaitLenLow", "WaitSync2"} PROVE MeshCoreInv(MeshCore!Goto(p, s))
    <3>1. s \in MeshCore!States
      BY SMT DEF MeshCore!States
    <3> QED BY SMT, <1>3, <2>3, <3>1 DEF MeshCoreInv
  <2> QED BY <1>2, <2>1, <2>2, <2>4, Zenon
<1>5. CASE p.state = "WaitLenLow"
  <2> DEFINE g == MeshCore!Goto(p, "WaitLenHigh")
             q == [g EXCEPT !.data_len = b]
  <2>1. MeshCore!feed(p, b) = q
    BY SMT, <1>5 DEF MeshCore!feed, MeshCore!AtLength
  <2>2. "WaitLenHigh" \in MeshCore!States /\ b \in 0 .. MaxLength /\ b <= 255
    BY SMT, Lengths DEF MeshCore!States
  <2>3. g \in MeshCoreParsers /\ g.state = "WaitLenHigh" /\ g.frame = p.frame
    BY <1>3, <2>2, Zenon
  <2>4. q \in MeshCoreParsers /\ q.state = g.state /\ q.data_len = b /\ q.frame = g.frame
    <3> HIDE DEF g
    <3> QED BY <2>2, <2>3, MeshCoreLength, Zenon
  <2>5. p.frame = << >>
    BY SMT, <1>5 DEF MeshCoreInv
  <2> HIDE DEF g, q
  <2>6. MeshCoreInv(q)
    BY SMT, <2>2, <2>3, <2>4, <2>5 DEF MeshCoreInv
  <2> QED BY <2>1, <2>6, Zenon
<1>6. CASE p.state = "WaitLenHigh"
  <2> DEFINE n == p.data_len + 256 * b
             g == MeshCore!Goto(p, "WaitCommand")
             q == [g EXCEPT !.data_len = n]
  <2>1. MeshCore!feed(p, b) = IF n > MaxData THEN MeshCore!Fresh ELSE [g EXCEPT !.data_len = @ + 256 * b]
    BY SMT, <1>6 DEF MeshCore!feed, MeshCore!AtLength
  <2>2. "WaitCommand" \in MeshCore!States
    BY SMT DEF MeshCore!States
  <2>3. /\ g \in MeshCoreParsers /\ g.state = "WaitCommand" /\ g.frame = p.frame
        /\ g.data_len = p.data_len
    BY <1>3, <2>2, Zenon
  <2>4. MeshCore!feed(p, b) = IF n > MaxData THEN MeshCore!Fresh ELSE q
    BY <2>1, <2>3, Zenon
  <2>5. p.frame = << >>
    BY SMT, <1>6 DEF MeshCoreInv
  <2>6. ASSUME ~ (n > MaxData) PROVE n \in 0 .. MaxLength /\ n <= MaxData
    <3>1. p.data_len \in 0 .. MaxLength
      BY SMT DEF MeshCoreInv, MeshCoreParsers
    <3>2. MaxData \in 0 .. MaxLength
      BY Zenon DEF LimitsAssumption
    <3> QED BY SMT, <2>6, <3>1, <3>2, Lengths
  <2>7. ASSUME ~ (n > MaxData) PROVE MeshCoreInv(q)
    <3>1. /\ q \in MeshCoreParsers /\ q.state = g.state /\ q.data_len = n /\ q.frame = g.frame
      <4> HIDE DEF n, g
      <4> QED BY <2>3, <2>6, <2>7, MeshCoreLength, Zenon
    <3>2. n \in Nat /\ n <= MaxData /\ MaxData \in Nat
      BY SMT, <2>6, <2>7, Lengths DEF LimitsAssumption
    <3> HIDE DEF n, g, q
    <3> QED BY SMT, <2>3, <2>5, <3>1, <3>2 DEF MeshCoreInv
  <2> QED BY <1>2, <2>4, <2>7, Zenon
<1>7. CASE p.state \in {"WaitCommand", "WaitSequence", "WaitData"}
  <2> DEFINE c == MeshCore!Collect(p, b)
             s == IF p.state = "WaitCommand" THEN "WaitSequence"
                  ELSE IF Len(c.frame) - 2 >= p.data_len THEN "WaitCrcLow" ELSE "WaitData"
             q == MeshCore!Goto(c, s)
  <2>1. MeshCore!feed(p, b) = q
    BY SMT, <1>7 DEF MeshCore!feed, MeshCore!AtFrame
  <2>2. s \in MeshCore!States
    BY SMT DEF MeshCore!States
  <2>3. /\ c \in MeshCoreParsers /\ c.data_len = p.data_len /\ c.frame = Append(p.frame, b)
    BY <1>1, MeshCoreCollect, Zenon
  <2>4. q \in MeshCoreParsers /\ q.state = s /\ q.data_len = c.data_len /\ q.frame = c.frame
    <3> HIDE DEF c, s
    <3> QED BY <2>2, <2>3, MeshCoreGoto, Zenon
  <2>5. /\ p.frame \in Seq(Bytes) /\ Len(p.frame) \in Nat /\ p.data_len \in Nat
        /\ p.data_len <= MaxData /\ Len(p.frame) <= p.data_len + 1
        /\ p.state = "WaitCommand" => p.frame = << >>
        /\ p.state = "WaitSequence" => Len(p.frame) = 1
        /\ p.state = "WaitData" => Len(p.frame) >= 2
    <3>1. p.frame \in Seq(Bytes) /\ p.data_len \in 0 .. MaxLength
      BY SMT, <1>1 DEF MeshCoreParsers
    <3> QED BY SMT, <1>7, <3>1 DEF MeshCoreInv
  <2>6. Len(q.frame) = Len(p.frame) + 1
    <3> HIDE DEF c, q
    <3> QED BY SMT, <2>3, <2>4, <2>5
  <2>7. Len(<< >>) = 0
    BY SMT
  <2>8. CASE p.state = "WaitCommand"
    <3>1. s = "WaitSequence"
      BY <2>8, Zenon
    <3>2. Len(p.frame) = 0
      BY <2>5, <2>7, <2>8, Zenon
    <3> HIDE DEF c, s, q
    <3>3. MeshCoreInv(q)
      BY SMT, <2>3, <2>4, <2>5, <2>6, <3>1, <3>2 DEF MeshCoreInv
    <3> QED BY <2>1, <3>3, Zenon
  <2>9. CASE p.state # "WaitCommand"
    <3>1. s = IF Len(p.frame) - 1 >= p.data_len THEN "WaitCrcLow" ELSE "WaitData"
      <4>1. Len(c.frame) = Len(p.frame) + 1
        <5> HIDE DEF c
        <5> QED BY SMT, <2>3, <2>5
      <4> QED BY SMT, <2>5, <2>9, <4>1
    <3> HIDE DEF c, s, q
    <3>2. MeshCoreInv(q)
      BY SMT, <1>7, <2>3, <2>4, <2>5, <2>6, <2>9, <3>1 DEF MeshCoreInv
    <3> QED BY <2>1, <3>2, Zenon
  <2> QED BY <2>8, <2>9, Zenon
<1>8. CASE p.state \in {"WaitCrcLow", "WaitCrcHigh"}
  <2> DEFINE g == MeshCore!Goto(p, "WaitCrcHigh")
             q == [g EXCEPT !.crc_low = b]
             e == MeshCore!Goto(p, "WaitEnd")
  <2>1. MeshCore!feed(p, b) \in {q, e, MeshCore!Fresh}
    BY SMT, <1>8 DEF MeshCore!feed, MeshCore!AtCrc
  <2>2. "WaitCrcHigh" \in MeshCore!States /\ "WaitEnd" \in MeshCore!States
    BY SMT DEF MeshCore!States
  <2>3. /\ g \in MeshCoreParsers /\ g.state = "WaitCrcHigh" /\ g.frame = p.frame /\ g.data_len = p.data_len
        /\ e \in MeshCoreParsers /\ e.state = "WaitEnd" /\ e.frame = p.frame /\ e.data_len = p.data_len
    BY <1>3, <2>2, Zenon
  <2>4. q \in MeshCoreParsers /\ q.state = g.state /\ q.data_len = g.data_len /\ q.frame = g.frame
    <3> HIDE DEF g
    <3> QED BY <2>3, MeshCoreCrc, Zenon
  <2>5. p.data_len <= MaxData /\ Len(p.frame) = p.data_len + 2
    BY SMT, <1>8 DEF MeshCoreInv
  <2> HIDE DEF g, q, e
  <2>6. MeshCoreInv(q)
    BY SMT, <2>3, <2>4, <2>5 DEF MeshCoreInv
  <2>7. MeshCoreInv(e)
    BY SMT, <2>3, <2>5 DEF MeshCoreInv
  <2> QED BY <1>2, <2>1, <2>6, <2>7, Zenon
<1>9. CASE p.state = "WaitEnd"
  <2>1. MeshCore!feed(p, b) = MeshCore!Fresh
    BY SMT, <1>9 DEF MeshCore!feed
  <2> QED BY <1>2, <2>1, Zenon
<1>10. p.state \in MeshCore!States
  BY SMT, <1>1 DEF MeshCoreParsers
<1> QED BY SMT, <1>4, <1>5, <1>6, <1>7, <1>8, <1>9, <1>10 DEF MeshCore!States

-----------------------------------------------------------------------------
\* The parsers of Meshtastic frames and of AT lines.

LEMMA MeshtasticFresh ==
    /\ Meshtastic!Fresh \in MeshtasticParsers
    /\ Meshtastic!Fresh.state = "WaitSync1" /\ Meshtastic!Fresh.frame = << >>
<1>1. << >> \in Seq(Bytes)
  BY SMT
<1> QED BY SMT, <1>1, Lengths DEF MeshtasticParsers, Meshtastic!Fresh, Meshtastic!States

LEMMA MeshtasticGoto ==
    ASSUME NEW p \in MeshtasticParsers, NEW s \in Meshtastic!States
    PROVE  /\ Meshtastic!Goto(p, s) \in MeshtasticParsers
           /\ Meshtastic!Goto(p, s).state = s
           /\ Meshtastic!Goto(p, s).payload_len = p.payload_len
           /\ Meshtastic!Goto(p, s).frame = p.frame
  BY SMT DEF MeshtasticParsers, Meshtastic!Goto

LEMMA MeshtasticLength ==
    ASSUME NEW p \in MeshtasticParsers, NEW n \in 0 .. MaxLength
    PROVE  LET l == [p EXCEPT !.payload_len = n]
           IN  /\ l \in MeshtasticParsers /\ l.state = p.state /\ l.payload_len = n
               /\ l.frame = p.frame
  BY SMT DEF MeshtasticParsers

LEMMA MeshtasticCollect ==
    ASSUME NEW p \in MeshtasticParsers, NEW b \in Bytes
    PROVE  LET k == [p EXCEPT !.frame = Append(@, b)]
           IN  /\ k \in MeshtasticParsers /\ k.state = p.state
               /\ k.payload_len = p.payload_len /\ k.frame = Append(p.frame, b)
<1>1. Append(p.frame, b) \in Seq(Bytes)
  BY SMT DEF MeshtasticParsers
<1> QED BY SMT, <1>1 DEF MeshtasticParsers

LEMMA MeshtasticTypes ==
    ASSUME LimitsAssumption, NEW p, MeshtasticInv(p), NEW b \in Bytes
    PROVE  MeshtasticInv(Meshtastic!feed(p, b))
<1>1. p \in MeshtasticParsers
  BY Zenon DEF MeshtasticInv
<1>2. MeshtasticInv(Meshtastic!Fresh)
  BY SMT, MeshtasticFresh DEF MeshtasticInv
<1>3. CASE p.state \in {"WaitSync1", "WaitSync2"}
  <2>1. Meshtastic!feed(p, b) = Meshtastic!AtSync(p, b)
    BY SMT, <1>3 DEF Meshtastic!feed
  <2>2. Meshtastic!AtSync(p, b) \in {Meshtastic!Fresh, Meshtastic!Goto(p, "WaitLenHigh"),
                                     Meshtastic!Goto(p, "WaitSync2")}
    BY SMT DEF Meshtastic!AtSync
  <2>3. p.frame = << >>
    BY SMT, <1>3 DEF MeshtasticInv
  <2>4. ASSUME NEW s \in {"WaitLenHigh", "WaitSync2"}
        PROVE  MeshtasticInv(Meshtastic!Goto(p, s))
    <3>1. s \in Meshtastic!States
      BY SMT DEF Meshtastic!States
    <3>2. /\ Meshtastic!Goto(p, s) \in MeshtasticParsers /\ Meshtastic!Goto(p, s).state = s
          /\ Meshtastic!Goto(p, s).frame = p.frame
      BY <1>1, <3>1, MeshtasticGoto, Zenon
    <3> QED BY SMT, <2>3, <3>2 DEF MeshtasticInv
  <2> QED BY <1>2, <2>1, <2>2, <2>4, Zenon
<1>4. CASE p.state = "WaitLenHigh"
  <2> DEFINE g == Meshtastic!Goto(p, "WaitLenLow")
             q == [g EXCEPT !.payload_len = 256 * b]
  <2>1. Meshtastic!feed(p, b) = q
    BY SMT, <1>4 DEF Meshtastic!feed, Meshtastic!AtLength
  <2>2. "WaitLenLow" \in Meshtastic!States /\ 256 * b \in 0 .. MaxLength
    BY SMT, Lengths DEF Meshtastic!States
  <2>3. g \in MeshtasticParsers /\ g.state = "WaitLenLow" /\ g.frame = p.frame
    BY <1>1, <2>2, MeshtasticGoto, Zenon
  <2>4. q \in MeshtasticParsers /\ q.state = g.state /\ q.frame = g.frame
    <3> DEFINE n == 256 * b
    <3>1. n \in 0 .. MaxLength /\ q = [g EXCEPT !.payload_len = n]
      BY <2>2, Zenon
    <3> HIDE DEF g, n, q
    <3> QED BY <2>3, <3>1, MeshtasticLength, Zenon
  <2>5. p.frame = << >>
    BY SMT, <1>4 DEF MeshtasticInv
  <2> HIDE DEF g, q
  <2>6. MeshtasticInv(q)
    BY SMT, <2>3, <2>4, <2>5 DEF MeshtasticInv
  <2> QED BY <2>1, <2>6, Zenon
<1>5. CASE p.state = "WaitLenLow"
  <2> DEFINE n == p.payload_len + b
             g == Meshtastic!Goto(p, "WaitPayload")
             q == [g EXCEPT !.payload_len = n]
  <2>1. Meshtastic!feed(p, b) = IF n > MaxPayload \/ n = 0 THEN Meshtastic!Fresh
                                ELSE [g EXCEPT !.payload_len = @ + b]
    BY SMT, <1>5 DEF Meshtastic!feed, Meshtastic!AtLength
  <2>2. "WaitPayload" \in Meshtastic!States
    BY SMT DEF Meshtastic!States
  <2>3. /\ g \in MeshtasticParsers /\ g.state = "WaitPayload" /\ g.frame = p.frame
        /\ g.payload_len = p.payload_len
    BY <1>1, <2>2, MeshtasticGoto, Zenon
  <2>4. Meshtastic!feed(p, b) = IF n > MaxPayload \/ n = 0 THEN Meshtastic!Fresh ELSE q
    BY <2>1, <2>3, Zenon
  <2>5. p.frame = << >>
    BY SMT, <1>5 DEF MeshtasticInv
  <2>6. ASSUME ~ (n > MaxPayload), n # 0
        PROVE  n \in 0 .. MaxLength /\ n > 0 /\ n <= MaxPayload
    <3>1. p.payload_len \in 0 .. MaxLength
      BY SMT, <1>1 DEF MeshtasticParsers
    <3>2. MaxPayload \in 0 .. MaxLength
      BY Zenon DEF LimitsAssumption
    <3> QED BY SMT, <2>6, <3>1, <3>2, Lengths
  <2>7. ASSUME ~ (n > MaxPayload), n # 0 PROVE MeshtasticInv(q)
    <3>1. q \in MeshtasticParsers /\ q.state = g.state /\ q.payload_len = n /\ q.frame = g.frame
      <4> HIDE DEF n, g
      <4> QED BY <2>3, <2>6, <2>7, MeshtasticLength, Zenon
    <3>2. n > 0 /\ n <= MaxPayload
      BY <2>6, <2>7, Zenon
    <3>3. Len(<< >>) = 0
      BY SMT
    <3> HIDE DEF n, g, q
    <3> QED BY SMT, <2>3, <2>5, <3>1, <3>2, <3>3 DEF MeshtasticInv
  <2> QED BY <1>2, <2>4, <2>7, Zenon
<1>6. CASE p.state = "WaitPayload"
  <2> DEFINE q == [p EXCEPT !.frame = Append(@, b)]
  <2>1. Meshtastic!feed(p, b) = IF Len(p.frame) + 1 >= p.payload_len THEN Meshtastic!Fresh ELSE q
    BY SMT, <1>6 DEF Meshtastic!feed, Meshtastic!AtPayload
  <2>2. /\ q \in MeshtasticParsers /\ q.state = p.state /\ q.payload_len = p.payload_len
        /\ q.frame = Append(p.frame, b)
    BY <1>1, MeshtasticCollect, Zenon
  <2>3. p.frame \in Seq(Bytes) /\ p.payload_len \in 0 .. MaxLength
    BY SMT, <1>1 DEF MeshtasticParsers
  <2>4. Len(Append(p.frame, b)) = Len(p.frame) + 1 /\ Len(p.frame) \in Nat
    BY SMT, <2>3
  <2> HIDE DEF q
  <2>5. ASSUME ~ (Len(p.frame) + 1 >= p.payload_len) PROVE MeshtasticInv(q)
    BY SMT, <1>6, <2>2, <2>3, <2>4, <2>5, Lengths DEF MeshtasticInv
  <2> QED BY <1>2, <2>1, <2>5, Zenon
<1>7. p.state \in Meshtastic!States
  BY SMT, <1>1 DEF MeshtasticParsers
<1> QED BY SMT, <1>3, <1>4, <1>5, <1>6, <1>7 DEF Meshtastic!States

LEMMA KissTypes ==
    ASSUME LimitsAssumption, NEW p, KissInv(p), NEW b \in Bytes
    PROVE  KissInv(Kiss!feed(p, b))
<1>1. p.state \in Kiss!States /\ p.frame \in Seq(Bytes) /\ Len(p.frame) <= MaxKissData + 1
  BY SMT DEF KissInv, KissParsers
<1>2. MaxKissData \in Nat
  BY Zenon DEF LimitsAssumption
<1>3. ASSUME NEW f \in Seq(Bytes), Len(f) <= MaxKissData + 1, NEW c \in Bytes
      PROVE  Kiss!Push(f, c) \in Seq(Bytes) /\ Len(Kiss!Push(f, c)) <= MaxKissData + 1
  BY SMT, <1>2, <1>3 DEF Kiss!Push
<1>4. ASSUME NEW s \in Kiss!States, NEW f \in Seq(Bytes), Len(f) <= MaxKissData + 1
      PROVE  KissInv([state |-> s, frame |-> f])
  BY SMT, <1>4 DEF KissInv, KissParsers
<1>5. /\ << >> \in Seq(Bytes) /\ Len(<< >>) <= MaxKissData + 1
      /\ \A c \in Bytes : <<c>> \in Seq(Bytes) /\ Len(<<c>>) <= MaxKissData + 1
      /\ <<0>> \in Seq(Bytes) /\ Len(<<0>>) <= MaxKissData + 1
  BY SMT, <1>2 DEF Bytes
<1>6. {"WaitStart", "WaitCommand", "ReadData", "Escape"} = Kiss!States
  BY SMT DEF Kiss!States
<1>7. p = [state |-> p.state, frame |-> p.frame]
  BY SMT DEF KissInv, KissParsers
<1>8. CASE p.state = "WaitStart"
  <2>1. Kiss!feed(p, b) \in {[state |-> "WaitCommand", frame |-> << >>],
                             [state |-> "WaitStart", frame |-> << >>]}
    BY SMT, <1>8 DEF Kiss!feed, Kiss!AtStart, Kiss!Fresh
  <2> QED BY <1>4, <1>5, <1>6, <2>1, Zenon
<1>9. CASE p.state = "WaitCommand"
  <2>1. Kiss!feed(p, b) \in {p, [state |-> "Escape", frame |-> <<0>>],
                             [state |-> "ReadData", frame |-> <<b>>]}
    BY SMT, <1>9 DEF Kiss!feed, Kiss!AtCommand
  <2> QED BY <1>4, <1>5, <1>6, <2>1, Zenon
<1>10. CASE p.state = "ReadData"
  <2>1. Kiss!feed(p, b) \in {[state |-> "WaitStart", frame |-> << >>],
                             [state |-> "Escape", frame |-> p.frame],
                             [state |-> "ReadData", frame |-> Kiss!Push(p.frame, b)]}
    BY SMT, <1>7, <1>10 DEF Kiss!feed, Kiss!AtData, Kiss!Fresh
  <2> QED BY <1>1, <1>3, <1>4, <1>5, <1>6, <2>1, Zenon
<1>11. CASE p.state = "Escape"
  <2> DEFINE u == IF b = Kiss!TFEND THEN Kiss!FEND ELSE IF b = Kiss!TFESC THEN Kiss!FESC ELSE b
  <2>1. Kiss!feed(p, b) = [state |-> "ReadData", frame |-> Kiss!Push(p.frame, u)]
    BY SMT, <1>11 DEF Kiss!feed, Kiss!AtEscape
  <2>2. u \in Bytes
    BY SMT DEF Kiss!FEND, Kiss!FESC, Bytes
  <2> HIDE DEF u
  <2>3. Kiss!Push(p.frame, u) \in Seq(Bytes) /\ Len(Kiss!Push(p.frame, u)) <= MaxKissData + 1
    BY <1>1, <1>3, <2>2, Zenon
  <2> QED BY <1>4, <1>6, <2>1, <2>3, Zenon
<1> QED BY SMT, <1>1, <1>6, <1>8, <1>9, <1>10, <1>11

LEMMA AtTypes ==
    ASSUME LimitsAssumption, NEW p, AtInv(p), NEW b \in Bytes
    PROVE  AtInv(FeedAt(p, b))
  BY SMT DEF LimitsAssumption, AtInv, FeedAt

-----------------------------------------------------------------------------
\* What a KISS frame becomes on the wire: the folds of the community
\* modules, without their recursion.

\* A set of numbers that is not empty has a least one.
LEMMA Least ==
    ASSUME NEW T, T \subseteq Nat, T # {}
    PROVE  \E m \in T : \A j \in T : m <= j
<1>1. PICK m \in T : \A j \in T : ~ (<<j, m>> \in OpToRel(<, Nat))
  BY WFMin, NatLessThanWellFounded
<1>2. \A j \in T : m <= j
  <2> TAKE j \in T
  <2>1. ~ (j < m)
    BY <1>1 DEF OpToRel
  <2> QED BY <2>1, SMT
<1> QED BY <1>2

\* The sequences glued together so far, one after the other.
Glued(seqs, g, n) ==
    \A i \in 1 .. n : g[i] = IF i = 1 THEN seqs[i] ELSE g[i - 1] \o seqs[i]

LEMMA GluedExists ==
    ASSUME NEW S, NEW seqs \in Seq(Seq(S)), NEW n \in 0 .. Len(seqs)
    PROVE  \E g \in [1 .. n -> Seq(S)] : Glued(seqs, g, n)
<1> DEFINE Bad == {m \in 0 .. Len(seqs) : ~ \E g \in [1 .. m -> Seq(S)] : Glued(seqs, g, m)}
<1> SUFFICES ASSUME Bad # {} PROVE FALSE
  BY Zenon
<1>1. Bad \subseteq Nat
  BY SMT
<1>2. PICK m \in Bad : \A j \in Bad : m <= j
  BY <1>1, Least, Zenon
<1>3. m \in 0 .. Len(seqs) /\ Len(seqs) \in Nat
  BY SMT
<1>4. CASE m = 0
  <2> DEFINE g == [i \in 1 .. 0 |-> << >>]
  <2>1. g \in [1 .. m -> Seq(S)] /\ Glued(seqs, g, m)
    BY SMT, <1>4 DEF Glued
  <2> QED BY <2>1, Zenon
<1>5. CASE m # 0
  <2>1. m - 1 \in 0 .. Len(seqs) /\ ~ (m <= m - 1) /\ m \in 1 .. Len(seqs)
    BY SMT, <1>3, <1>5
  <2>2. m - 1 \notin Bad
    BY <1>2, <2>1, Zenon
  <2>3. PICK g \in [1 .. m - 1 -> Seq(S)] : Glued(seqs, g, m - 1)
    BY <2>1, <2>2, Zenon
  <2> DEFINE last == IF m = 1 THEN seqs[m] ELSE g[m - 1] \o seqs[m]
             h == [i \in 1 .. m |-> IF i = m THEN last ELSE g[i]]
  <2>4. last \in Seq(S)
    <3>1. seqs[m] \in Seq(S)
      BY SMT, <2>1
    <3>2. m # 1 => g[m - 1] \in Seq(S)
      BY SMT, <2>1, <2>3
    <3> QED BY SMT, <3>1, <3>2
  <2>5. h \in [1 .. m -> Seq(S)]
    <3> HIDE DEF last
    <3> QED BY SMT, <2>1, <2>3, <2>4
  <2>6. ASSUME NEW i \in 1 .. m
        PROVE  h[i] = IF i = 1 THEN seqs[i] ELSE h[i - 1] \o seqs[i]
    <3>1. CASE i = m
      <4>1. h[i] = last
        BY <3>1, <2>6, Zenon
      <4>2. i # 1 => h[i - 1] = g[i - 1]
        <5> HIDE DEF last
        <5> QED BY SMT, <2>1, <3>1
      <4> QED BY <3>1, <4>1, <4>2, Zenon
    <3>2. CASE i # m
      <4>1. i \in 1 .. m - 1 /\ h[i] = g[i] /\ (i # 1 => h[i - 1] = g[i - 1])
        <5> HIDE DEF last
        <5> QED BY SMT, <2>1, <2>6, <3>2
      <4>2. g[i] = IF i = 1 THEN seqs[i] ELSE g[i - 1] \o seqs[i]
        BY <2>3, <4>1, Zenon DEF Glued
      <4> QED BY <4>1, <4>2, Zenon
    <3> QED BY <3>1, <3>2
  <2> HIDE DEF h
  <2>7. Glued(seqs, h, m)
    BY <2>6, Zenon DEF Glued
  <2> QED BY <2>5, <2>7, Zenon
<1> QED BY <1>4, <1>5

\* FlattenSeq glues them: what it computes exists.
LEMMA Flattened ==
    ASSUME NEW S, NEW seqs \in Seq(Seq(S)), Len(seqs) # 0
    PROVE  /\ Flat(seqs) \in [1 .. Len(seqs) -> Seq(S)]
           /\ Glued(seqs, Flat(seqs), Len(seqs))
           /\ FlattenSeq(seqs) = Flat(seqs)[Len(seqs)]
<1> DEFINE n == Len(seqs)
           Made(g) == [i \in 1 .. n |-> IF i = 1 THEN seqs[i] ELSE g[i - 1] \o seqs[i]]
<1>1. n \in 0 .. Len(seqs)
  BY SMT
<1>2. PICK g \in [1 .. n -> Seq(S)] : Glued(seqs, g, n)
  <2> HIDE DEF n
  <2> QED BY <1>1, GluedExists, Zenon
<1>3. g = Made(g)
  <2> HIDE DEF n
  <2> QED BY <1>2, Zenon DEF Glued
<1>4. Flat(seqs) = CHOOSE h : h = Made(h)
  BY Zenon DEF Flat
<1>5. Flat(seqs) = Made(Flat(seqs))
  BY <1>3, <1>4, Zenon
<1>6. Glued(seqs, Flat(seqs), n)
  <2>1. ASSUME NEW i \in 1 .. n
        PROVE  Flat(seqs)[i] = IF i = 1 THEN seqs[i] ELSE Flat(seqs)[i - 1] \o seqs[i]
    BY <1>5, <2>1, Zenon
  <2> QED BY <2>1, Zenon DEF Glued
<1>7. Flat(seqs) \in [1 .. n -> Seq(S)]
  <2>1. ASSUME NEW i \in 1 .. n PROVE Flat(seqs)[i] \in Seq(S)
    <3> DEFINE Bad == {m \in 1 .. n : Flat(seqs)[m] \notin Seq(S)}
    <3> SUFFICES ASSUME Bad # {} PROVE FALSE
      BY <2>1, Zenon
    <3>1. Bad \subseteq Nat
      BY SMT
    <3>2. PICK m \in Bad : \A j \in Bad : m <= j
      BY <3>1, Least, Zenon
    <3>3. m \in 1 .. n /\ n \in Nat /\ seqs[m] \in Seq(S)
      BY SMT
    <3>4. m # 1 => m - 1 \in 1 .. n /\ ~ (m <= m - 1)
      BY SMT, <3>3
    <3>5. m # 1 => Flat(seqs)[m - 1] \in Seq(S)
      BY <3>2, <3>4, Zenon
    <3>6. Flat(seqs)[m] = IF m = 1 THEN seqs[m] ELSE Flat(seqs)[m - 1] \o seqs[m]
      BY <1>6, <3>3, Zenon DEF Glued
    <3>7. Flat(seqs)[m] \in Seq(S)
      BY SMT, <3>3, <3>5, <3>6
    <3> QED BY <3>2, <3>7, Zenon
  <2>2. Flat(seqs) = [i \in 1 .. n |-> Flat(seqs)[i]]
    BY <1>5, Zenon
  <2> QED BY <2>1, <2>2, Zenon
<1>8. FlattenSeq(seqs) = Flat(seqs)[Len(seqs)]
  BY Zenon DEF FlattenSeq, Flat
<1> QED BY <1>6, <1>7, <1>8, Zenon

\* A byte of a KISS frame takes one byte or two.
LEMMA Escaped ==
    ASSUME NEW b \in Bytes
    PROVE  /\ Kiss!escape_byte(b) \in Seq(Bytes)
           /\ b \notin {Kiss!FEND, Kiss!FESC} =>
                 Len(Kiss!escape_byte(b)) = 1 /\ Kiss!escape_byte(b)[1] = b
           /\ b \in {Kiss!FEND, Kiss!FESC} =>
                 /\ Len(Kiss!escape_byte(b)) = 2 /\ Kiss!escape_byte(b)[1] = Kiss!FESC
                 /\ Kiss!escape_byte(b)[2] = IF b = Kiss!FEND THEN Kiss!TFEND ELSE Kiss!TFESC
           /\ Len(Kiss!escape_byte(b)) \in {1, 2}
<1>1. /\ Kiss!FESC \in Bytes /\ Kiss!TFEND \in Bytes /\ Kiss!TFESC \in Bytes
      /\ Kiss!FEND # Kiss!FESC
  BY SMT DEF Bytes, Kiss!FEND, Kiss!FESC, Kiss!TFEND, Kiss!TFESC
<1>2. CASE b = Kiss!FEND
  <2>1. Kiss!escape_byte(b) = <<Kiss!FESC, Kiss!TFEND>>
    BY SMT, <1>1, <1>2 DEF Kiss!escape_byte
  <2> QED BY SMT, <1>1, <1>2, <2>1
<1>3. CASE b = Kiss!FESC
  <2>1. Kiss!escape_byte(b) = <<Kiss!FESC, Kiss!TFESC>>
    BY SMT, <1>1, <1>3 DEF Kiss!escape_byte
  <2> QED BY SMT, <1>1, <1>3, <2>1
<1>4. CASE b # Kiss!FEND /\ b # Kiss!FESC
  <2>1. Kiss!escape_byte(b) = <<b>>
    BY SMT, <1>4 DEF Kiss!escape_byte
  <2> QED BY SMT, <1>4, <2>1
<1> QED BY <1>2, <1>3, <1>4, Zenon

LEMMA PiecesOf ==
    ASSUME NEW f \in Seq(Bytes), f # << >>
    PROVE  /\ Pieces(f) \in Seq(Seq(Bytes)) /\ Len(Pieces(f)) = Len(f) /\ Len(f) \in Nat \ {0}
           /\ \A i \in 1 .. Len(f) : f[i] \in Bytes /\ Pieces(f)[i] = Kiss!escape_byte(f[i])
<1>1. DOMAIN f = 1 .. Len(f) /\ Len(f) \in Nat \ {0} /\ \A i \in 1 .. Len(f) : f[i] \in Bytes
  BY SMT
<1>2. ASSUME NEW i \in 1 .. Len(f)
      PROVE  Kiss!escape_byte(f[i]) \in Seq(Bytes)
  BY <1>1, Escaped, Zenon
<1>3. Pieces(f) = [i \in 1 .. Len(f) |-> Kiss!escape_byte(f[i])]
  BY <1>1, Zenon DEF Pieces
<1>4. Pieces(f) \in Seq(Seq(Bytes)) /\ Len(Pieces(f)) = Len(f)
  BY SMT, <1>1, <1>2, <1>3
<1> QED BY <1>1, <1>3, <1>4, Zenon

\* What the glued pieces say of the bytes one by one.
LEMMA UptoNext ==
    ASSUME NEW f \in Seq(Bytes), f # << >>, NEW k \in 1 .. Len(f)
    PROVE  LET glued == Flat(Pieces(f))[k]
               piece == Kiss!escape_byte(f[k])
           IN  /\ glued \in Seq(Bytes) /\ Upto(f, k) = Len(glued) /\ Upto(f, k - 1) \in Nat
               /\ Upto(f, k) = Upto(f, k - 1) + Len(piece)
               /\ \A j \in 1 .. Len(piece) : glued[Upto(f, k - 1) + j] = piece[j]
               /\ k > 1 => \A j \in 1 .. Upto(f, k - 1) : glued[j] = Flat(Pieces(f))[k - 1][j]
<1> DEFINE s == Pieces(f)
           g == Flat(s)
           piece == Kiss!escape_byte(f[k])
<1>1. /\ s \in Seq(Seq(Bytes)) /\ Len(s) = Len(f) /\ Len(f) \in Nat \ {0}
      /\ f[k] \in Bytes /\ s[k] = piece
  BY PiecesOf, Zenon
<1>2. Len(s) # 0
  BY SMT, <1>1
<1>3. g \in [1 .. Len(f) -> Seq(Bytes)] /\ Glued(s, g, Len(f))
  <2> HIDE DEF s
  <2>1. Flat(s) \in [1 .. Len(s) -> Seq(Bytes)] /\ Glued(s, Flat(s), Len(s))
    BY <1>1, <1>2, Flattened, Zenon
  <2> QED BY <1>1, <2>1, Zenon
<1>4. piece \in Seq(Bytes) /\ Len(piece) \in Nat
  <2>1. piece \in Seq(Bytes)
    BY <1>1, Escaped, Zenon
  <2> HIDE DEF piece
  <2> QED BY SMT, <2>1
<1>5. g[k] = IF k = 1 THEN piece ELSE g[k - 1] \o piece
  <2> HIDE DEF s, g, piece
  <2> QED BY <1>1, <1>3, Zenon DEF Glued
<1>6. k # 0 /\ (k - 1 = 0 <=> k = 1) /\ k \in Nat
  BY SMT
<1>7. Upto(f, k) = Len(g[k]) /\ Upto(f, k - 1) = IF k = 1 THEN 0 ELSE Len(g[k - 1])
  BY <1>6, Zenon DEF Upto
<1>8. CASE k = 1
  <2>1. g[k] = piece /\ Upto(f, k) = Len(piece) /\ Upto(f, k - 1) = 0 /\ ~ (k > 1)
    <3>1. ~ (k > 1)
      BY SMT, <1>8
    <3> QED BY <1>5, <1>7, <1>8, <3>1, Zenon
  <2>2. Len(piece) = 0 + Len(piece) /\ 0 \in Nat
    <3> HIDE DEF piece
    <3> QED BY SMT, <1>4
  <2>3. \A j \in 1 .. Len(piece) : piece[0 + j] = piece[j]
    <3> HIDE DEF piece
    <3> TAKE j \in 1 .. Len(piece)
    <3>1. 0 + j = j
      BY SMT, <1>4
    <3> QED BY <3>1, Zenon
  <2> QED BY <1>4, <2>1, <2>2, <2>3, Zenon
<1>9. CASE k # 1
  <2>1. g[k - 1] \in Seq(Bytes)
    <3>1. k - 1 \in 1 .. Len(f)
      BY SMT, <1>1, <1>9
    <3> QED BY <1>3, <3>1, Zenon
  <2> DEFINE h == g[k - 1]
  <2>2. /\ h \o piece \in Seq(Bytes) /\ Len(h \o piece) = Len(h) + Len(piece)
        /\ Len(h) \in Nat
        /\ \A j \in 1 .. Len(h) + Len(piece) :
              (h \o piece)[j] = IF j <= Len(h) THEN h[j] ELSE piece[j - Len(h)]
    <3> HIDE DEF g, h, piece
    <3>1. h \in Seq(Bytes)
      BY <2>1, Zenon DEF h
    <3> QED BY SMT, <1>4, <3>1
  <2>3. g[k] = h \o piece
    BY <1>5, <1>9, Zenon
  <2>4. \A j \in 1 .. Len(piece) : (h \o piece)[Len(h) + j] = piece[j]
    <3> HIDE DEF h, piece
    <3> TAKE j \in 1 .. Len(piece)
    <3>1. Len(h) + j \in 1 .. Len(h) + Len(piece) /\ ~ (Len(h) + j <= Len(h)) /\ (Len(h) + j) - Len(h) = j
      BY SMT, <1>4, <2>2
    <3> QED BY <2>2, <3>1, Zenon
  <2>5. \A j \in 1 .. Len(h) : (h \o piece)[j] = h[j]
    <3> HIDE DEF h, piece
    <3> QED BY SMT, <1>4, <2>2
  <2>6. Upto(f, k - 1) = Len(h)
    BY <1>7, <1>9, Zenon
  <2> QED BY <1>7, <2>2, <2>3, <2>4, <2>5, <2>6, Zenon
<1> QED BY <1>8, <1>9

\* Pieces glued early stay where they are.
LEMMA UptoKeeps ==
    ASSUME NEW f \in Seq(Bytes), f # << >>, NEW k \in 1 .. Len(f), NEW m \in k .. Len(f)
    PROVE  /\ Upto(f, k) <= Upto(f, m)
           /\ \A j \in 1 .. Upto(f, k) : Flat(Pieces(f))[m][j] = Flat(Pieces(f))[k][j]
<1> DEFINE G(n) == Flat(Pieces(f))[n]
           Keeps(n) == Upto(f, k) <= Upto(f, n) /\ \A j \in 1 .. Upto(f, k) : G(n)[j] = G(k)[j]
           Bad == {n \in k .. Len(f) : ~ Keeps(n)}
<1> SUFFICES ASSUME Bad # {} PROVE FALSE
  BY Zenon
<1>1. Bad \subseteq Nat /\ Len(f) \in Nat /\ k \in Nat
  <2> HIDE DEF Keeps
  <2> QED BY SMT
<1>2. PICK n \in Bad : \A j \in Bad : n <= j
  BY <1>1, Least, Zenon
<1>3. Upto(f, k) \in Nat
  <2>1. Flat(Pieces(f))[k] \in Seq(Bytes) /\ Upto(f, k) = Len(Flat(Pieces(f))[k])
    BY UptoNext, Zenon
  <2> QED BY SMT, <2>1
<1>4. n # k
  <2>1. Keeps(k)
    BY SMT, <1>3
  <2> QED BY <1>2, <2>1, Zenon
<1>5. n \in 1 .. Len(f) /\ n > 1 /\ n - 1 \in k .. Len(f) /\ ~ (n <= n - 1)
  <2>1. n \in k .. Len(f)
    BY Zenon
  <2> QED BY SMT, <1>1, <1>4, <2>1
<1>6. Keeps(n - 1)
  BY <1>2, <1>5, Zenon
<1>7. /\ G(n) \in Seq(Bytes) /\ Upto(f, n) = Len(G(n)) /\ Upto(f, n - 1) \in Nat
      /\ Upto(f, n) = Upto(f, n - 1) + Len(Kiss!escape_byte(f[n]))
      /\ \A j \in 1 .. Upto(f, n - 1) : G(n)[j] = G(n - 1)[j]
  BY <1>5, UptoNext, Zenon
<1>8. Len(Kiss!escape_byte(f[n])) \in {1, 2}
  <2>1. f[n] \in Bytes
    BY <1>5, PiecesOf, Zenon
  <2> QED BY <2>1, Escaped, Zenon
<1>9. Upto(f, k) <= Upto(f, n)
  <2> HIDE DEF Bad
  <2> QED BY SMT, <1>3, <1>6, <1>7, <1>8
<1>10. ASSUME NEW j \in 1 .. Upto(f, k) PROVE G(n)[j] = G(k)[j]
  <2>1. j \in 1 .. Upto(f, n - 1)
    <3>1. Upto(f, k) <= Upto(f, n - 1)
      BY <1>6, Zenon
    <3> HIDE DEF Bad, Keeps, G
    <3> QED BY SMT, <1>3, <1>7, <3>1
  <2> QED BY <1>6, <1>7, <2>1, Zenon
<1>11. Keeps(n)
  BY <1>9, <1>10, Zenon
<1> QED BY <1>2, <1>11, Zenon

-----------------------------------------------------------------------------
\* The bytes of the other encodings.

\* A number in two bytes.
Words == {n \in Nat : n < 65536}

LEMMA TwoBytes ==
    ASSUME NEW n \in Words
    PROVE  n % 256 \in Bytes /\ n \div 256 \in Bytes /\ (n % 256) + 256 * (n \div 256) = n
<1>1. n % 256 \in Bytes
  BY SMT DEF Bytes, Words
<1>2. n \div 256 \in Nat
  BY SMT DEF Words
<1>3. n \div 256 <= 255
  BY SMT DEF Words
<1>4. (n % 256) + 256 * (n \div 256) = n
  BY SMT DEF Words
<1> DEFINE b == n \div 256
<1>5. b \in Bytes
  <2> HIDE DEF b
  <2>1. b \in Nat /\ b <= 255
    BY SMT, <1>2, <1>3 DEF b
  <2> QED BY SMT, <2>1 DEF Bytes
<1> QED BY <1>1, <1>4, <1>5

LEMMA WordsOf ==
    /\ MaxLength \in Nat
    /\ \A n \in Nat : n <= MaxLength => n \in Words
    /\ \A n \in Nat : n >= 2 /\ n <= MaxLength + 2 => n - 2 \in Words
<1>1. MaxLength \in Nat
  BY SMT DEF MaxLength
<1>2. ASSUME NEW n \in Nat, n <= MaxLength PROVE n \in Words
  BY SMT, <1>2 DEF MaxLength, Words
<1>3. ASSUME NEW n \in Nat, n >= 2, n <= MaxLength + 2 PROVE n - 2 \in Words
  <2>1. n - 2 \in Nat /\ n - 2 <= MaxLength
    BY SMT, <1>1, <1>3
  <2> QED BY <1>2, <2>1
<1> QED BY <1>1, <1>2, <1>3, Zenon

\* One sequence after the other.
LEMMA Glue ==
    ASSUME NEW s \in Seq(Bytes), NEW t \in Seq(Bytes)
    PROVE  /\ s \o t \in Seq(Bytes) /\ Len(s \o t) = Len(s) + Len(t)
           /\ Len(s) \in Nat /\ Len(t) \in Nat
           /\ \A i \in 1 .. Len(s) : (s \o t)[i] = s[i]
           /\ \A i \in 1 .. Len(t) : (s \o t)[Len(s) + i] = t[i]
<1>1. Len(s) \in Nat /\ Len(t) \in Nat
  BY SMT
<1>2. /\ s \o t \in Seq(Bytes) /\ Len(s \o t) = Len(s) + Len(t)
      /\ \A i \in 1 .. Len(s) + Len(t) : (s \o t)[i] = IF i <= Len(s) THEN s[i] ELSE t[i - Len(s)]
  BY ConcatProperties, Zenon
<1>3. ASSUME NEW i \in 1 .. Len(s) PROVE (s \o t)[i] = s[i]
  <2>1. i \in 1 .. Len(s) + Len(t) /\ i <= Len(s)
    BY SMT, <1>1
  <2> QED BY <1>2, <2>1, Zenon
<1>4. ASSUME NEW i \in 1 .. Len(t) PROVE (s \o t)[Len(s) + i] = t[i]
  <2>1. Len(s) + i \in 1 .. Len(s) + Len(t) /\ ~ (Len(s) + i <= Len(s)) /\ (Len(s) + i) - Len(s) = i
    BY SMT, <1>1
  <2> QED BY <1>2, <2>1, Zenon
<1> QED BY <1>1, <1>2, <1>3, <1>4, Zenon

LEMMA KissEncoded ==
    ASSUME NEW f \in Seq(Bytes), f # << >>
    PROVE  LET e == Kiss!encode(f)
           IN  /\ e \in Seq(Bytes) /\ Len(e) = 2 + Upto(f, Len(f))
               /\ e[1] = Kiss!FEND /\ e[2 + Upto(f, Len(f))] = Kiss!FEND
               /\ \A k \in 1 .. Len(f) : \A j \in 1 .. Len(Kiss!escape_byte(f[k])) :
                     e[1 + Upto(f, k - 1) + j] = Kiss!escape_byte(f[k])[j]
<1> DEFINE G(k) == Flat(Pieces(f))[k]
           n == Len(f)
           u == Upto(f, n)
           body == G(n)
           e == Kiss!encode(f)
<1>1. /\ Pieces(f) \in Seq(Seq(Bytes)) /\ Len(Pieces(f)) = n /\ n \in Nat \ {0}
  BY PiecesOf, Zenon
<1>2. n \in 1 .. n /\ n # 0
  <2> HIDE DEF n
  <2> QED BY SMT, <1>1
<1>3. body \in Seq(Bytes) /\ u = Len(body)
  BY <1>2, UptoNext, Zenon
<1>4. e = <<Kiss!FEND>> \o body \o <<Kiss!FEND>>
  <2>1. e = <<Kiss!FEND>> \o Kiss!FlattenSeq(Pieces(f)) \o <<Kiss!FEND>>
    BY Zenon DEF Kiss!encode, Pieces, Kiss!escape_byte, Kiss!FEND, Kiss!FESC, Kiss!TFEND, Kiss!TFESC
  <2>2. Kiss!FlattenSeq(Pieces(f)) = Flat(Pieces(f))[Len(Pieces(f))]
    <3>1. Len(Pieces(f)) # 0
      BY <1>1, <1>2, Zenon
    <3> QED BY <3>1, Zenon DEF Kiss!FlattenSeq, Flat
  <2> QED BY <1>1, <2>1, <2>2, Zenon
<1>5. Kiss!FEND \in Bytes
  BY SMT DEF Kiss!FEND, Bytes
<1>6. /\ e \in Seq(Bytes) /\ Len(e) = u + 2 /\ u \in Nat
      /\ e[1] = Kiss!FEND /\ e[u + 2] = Kiss!FEND
      /\ \A i \in 1 .. u : e[1 + i] = body[i]
  <2> DEFINE F == <<Kiss!FEND>>
             h == F \o body
  <2>1. F \in Seq(Bytes) /\ Len(F) = 1 /\ F[1] = Kiss!FEND
    BY SMT, <1>5
  <2>2. /\ h \in Seq(Bytes) /\ Len(h) = 1 + u /\ u \in Nat
        /\ h[1] = Kiss!FEND /\ \A i \in 1 .. u : h[1 + i] = body[i]
    <3> HIDE DEF F, u, body
    <3>1. /\ F \o body \in Seq(Bytes) /\ Len(F \o body) = Len(F) + Len(body) /\ Len(body) \in Nat
          /\ \A i \in 1 .. Len(F) : (F \o body)[i] = F[i]
          /\ \A i \in 1 .. Len(body) : (F \o body)[Len(F) + i] = body[i]
      <4>1. F \in Seq(Bytes) /\ body \in Seq(Bytes)
        BY <1>3, <2>1, Zenon
      <4> QED BY <4>1, Glue, Zenon
    <3>2. 1 \in 1 .. Len(F)
      BY SMT, <2>1
    <3> QED BY <1>3, <2>1, <3>1, <3>2, Zenon DEF h
  <2>3. e = h \o F
    BY <1>4, Zenon
  <2> HIDE DEF F, u, body, h, e
  <2>4. /\ e \in Seq(Bytes) /\ Len(e) = Len(h) + Len(F)
        /\ \A i \in 1 .. Len(h) : e[i] = h[i]
        /\ \A i \in 1 .. Len(F) : e[Len(h) + i] = F[i]
    <3>1. h \in Seq(Bytes) /\ F \in Seq(Bytes)
      BY <2>1, <2>2, Zenon
    <3>2. /\ h \o F \in Seq(Bytes) /\ Len(h \o F) = Len(h) + Len(F)
          /\ \A i \in 1 .. Len(h) : (h \o F)[i] = h[i]
          /\ \A i \in 1 .. Len(F) : (h \o F)[Len(h) + i] = F[i]
      BY <3>1, Glue, Zenon
    <3> QED BY <2>3, <3>2, Zenon
  <2>5. /\ 1 \in 1 .. 1 /\ 1 \in 1 .. 1 + u /\ (1 + u) + 1 = u + 2
        /\ \A i \in 1 .. u : 1 + i \in 1 .. 1 + u
    BY SMT, <2>2
  <2>6. e \in Seq(Bytes) /\ Len(e) = u + 2 /\ u \in Nat
    BY <2>1, <2>2, <2>4, <2>5, Zenon
  <2>7. e[1] = Kiss!FEND
    BY <2>2, <2>4, <2>5, Zenon
  <2>8. e[u + 2] = Kiss!FEND
    BY <2>1, <2>2, <2>4, <2>5, ZenonT(60)
  <2>9. \A i \in 1 .. u : e[1 + i] = body[i]
    BY <2>2, <2>4, <2>5, Zenon
  <2> QED BY <2>6, <2>7, <2>8, <2>9, Zenon
<1>7. ASSUME NEW k \in 1 .. Len(f), NEW j \in 1 .. Len(Kiss!escape_byte(f[k]))
      PROVE  e[1 + Upto(f, k - 1) + j] = Kiss!escape_byte(f[k])[j]
  <2> DEFINE i == Upto(f, k - 1) + j
             l == Len(Kiss!escape_byte(f[k]))
  <2>1. /\ G(k)[i] = Kiss!escape_byte(f[k])[j] /\ Upto(f, k) = Upto(f, k - 1) + l
        /\ Upto(f, k - 1) \in Nat
    BY <1>7, UptoNext, Zenon
  <2>2. n \in k .. n
    <3> HIDE DEF l
    <3> QED BY SMT, <1>1
  <2>3. Upto(f, k) <= u /\ \A m \in 1 .. Upto(f, k) : body[m] = G(k)[m]
    BY <2>2, UptoKeeps, Zenon
  <2>4. l \in Nat
    <3>1. f[k] \in Bytes
      BY PiecesOf, Zenon
    <3>2. l \in {1, 2}
      BY <3>1, Escaped, Zenon
    <3> HIDE DEF l
    <3> QED BY SMT, <3>2
  <2>5. i \in 1 .. Upto(f, k) /\ i \in 1 .. u /\ 1 + Upto(f, k - 1) + j = 1 + i
    <3>1. j \in 1 .. l
      BY <1>7, Zenon
    <3> DEFINE v == Upto(f, k - 1)
               w == Upto(f, k)
    <3>2. w = v + l /\ v \in Nat /\ w <= u /\ u \in Nat /\ l \in Nat /\ i = v + j
      BY <1>6, <2>1, <2>3, <2>4, Zenon
    <3> HIDE DEF l, u, v, w, i
    <3>3. i \in 1 .. w /\ i \in 1 .. u /\ 1 + v + j = 1 + i
      BY SMT, <3>1, <3>2
    <3> QED BY <3>3, Zenon DEF v, w
  <2> QED BY <1>6, <2>1, <2>3, <2>5, Zenon
<1>8. u + 2 = 2 + u
  <2> HIDE DEF u
  <2> QED BY SMT, <1>6
<1> QED BY <1>6, <1>7, <1>8, Zenon

LEMMA MeshCoreEncoded ==
    ASSUME NEW f \in Seq(Bytes), Len(f) >= 2, Len(f) <= MaxLength + 2, Crc(f) \in Words
    PROVE  LET e == MeshCore!encode(f)
               L == Len(f)
           IN  /\ e \in Seq(Bytes) /\ Len(e) = L + 7 /\ L \in Nat
               /\ e[1] = \hAA /\ e[2] = \h55 /\ e[L + 7] = \h0D
               /\ e[3] = (L - 2) % 256 /\ e[4] = (L - 2) \div 256
               /\ \A i \in 1 .. L : e[i + 4] = f[i]
               /\ e[L + 5] = Crc(f) % 256 /\ e[L + 6] = Crc(f) \div 256
<1> DEFINE L == Len(f)
           a == (L - 2) % 256
           b == (L - 2) \div 256
           c == Crc(f) % 256
           d == Crc(f) \div 256
           e == MeshCore!encode(f)
<1>1. L \in Nat
  BY SMT
<1>2. a \in Bytes /\ b \in Bytes
  <2>1. L - 2 \in Words
    BY SMT, <1>1, WordsOf
  <2> HIDE DEF L
  <2> QED BY <2>1, TwoBytes, ZenonT(60)
<1>3. c \in Bytes /\ d \in Bytes
  BY TwoBytes, ZenonT(60)
<1>4. e = <<\hAA, \h55>> \o <<a, b>> \o f \o <<c, d, \h0D>>
  BY SMT DEF MeshCore!encode, MeshCore!SYNC, MeshCore!END
<1> HIDE DEF a, b, c, d
<1> DEFINE h == <<\hAA, \h55>> \o <<a, b>>
           t == <<c, d, \h0D>>
<1>5. /\ h \in Seq(Bytes) /\ Len(h) = 4
      /\ h[1] = \hAA /\ h[2] = \h55 /\ h[3] = a /\ h[4] = b
  BY SMT, <1>2 DEF Bytes
<1>6. /\ t \in Seq(Bytes) /\ Len(t) = 3 /\ t[1] = c /\ t[2] = d /\ t[3] = \h0D
  BY SMT, <1>3 DEF Bytes
<1>7. e = (h \o f) \o t
  BY <1>4, Zenon
<1> DEFINE g == h \o f
<1> HIDE DEF h, t, e
<1>8. /\ g \in Seq(Bytes) /\ Len(g) = 4 + L
      /\ \A i \in 1 .. 4 : g[i] = h[i]
      /\ \A i \in 1 .. L : g[4 + i] = f[i]
  <2>1. /\ h \o f \in Seq(Bytes) /\ Len(h \o f) = Len(h) + Len(f)
        /\ \A i \in 1 .. Len(h) : (h \o f)[i] = h[i]
        /\ \A i \in 1 .. Len(f) : (h \o f)[Len(h) + i] = f[i]
    <3>1. h \in Seq(Bytes)
      BY <1>5, Zenon
    <3> QED BY <3>1, Glue, Zenon
  <2>2. Len(h) = 4
    BY <1>5, Zenon
  <2> QED BY <2>1, <2>2, Zenon
<1>9. e = g \o t
  BY <1>7, Zenon
<1> HIDE DEF g, L
<1>10. /\ e \in Seq(Bytes) /\ Len(e) = (4 + L) + 3
       /\ \A i \in 1 .. 4 + L : e[i] = g[i]
       /\ \A i \in 1 .. 3 : e[(4 + L) + i] = t[i]
  <2>1. /\ g \o t \in Seq(Bytes) /\ Len(g \o t) = Len(g) + Len(t)
        /\ \A i \in 1 .. Len(g) : (g \o t)[i] = g[i]
        /\ \A i \in 1 .. Len(t) : (g \o t)[Len(g) + i] = t[i]
    <3>1. g \in Seq(Bytes) /\ t \in Seq(Bytes)
      BY <1>6, <1>8, Zenon
    <3> QED BY <3>1, Glue, Zenon
  <2>2. Len(g) = 4 + L /\ Len(t) = 3
    BY <1>6, <1>8, Zenon
  <2> QED BY <1>9, <2>1, <2>2, Zenon
<1>11. /\ (4 + L) + 3 = L + 7 /\ (4 + L) + 2 = L + 6 /\ (4 + L) + 1 = L + 5
       /\ \A i \in 1 .. 4 : i \in 1 .. 4 + L
       /\ \A i \in 1 .. L : i + 4 = 4 + i /\ 4 + i \in 1 .. 4 + L
  BY SMT, <1>1
<1>12. ASSUME NEW i \in 1 .. L PROVE e[i + 4] = f[i]
  <2>1. i + 4 = 4 + i /\ 4 + i \in 1 .. 4 + L
    BY <1>11, <1>12, Zenon
  <2>2. e[4 + i] = g[4 + i] /\ g[4 + i] = f[i]
    BY <1>8, <1>10, <1>12, <2>1, Zenon
  <2> QED BY <2>1, <2>2, Zenon
<1>13. \A i \in 1 .. 4 : e[i] = h[i]
  BY <1>8, <1>10, <1>11, Zenon
<1>14. e[L + 5] = c /\ e[L + 6] = d /\ e[L + 7] = \h0D
  <2>1. 1 \in 1 .. 3 /\ 2 \in 1 .. 3 /\ 3 \in 1 .. 3
    BY SMT
  <2> QED BY <1>6, <1>10, <1>11, <2>1, Zenon
<1>15. e[1] = \hAA /\ e[2] = \h55 /\ e[3] = a /\ e[4] = b
  <2>1. e[1] = h[1] /\ e[2] = h[2] /\ e[3] = h[3] /\ e[4] = h[4]
    BY SMT, <1>13
  <2> QED BY <1>5, <2>1, ZenonT(60)
<1>16. Len(e) = L + 7
  BY <1>10, <1>11, Zenon
<1> QED BY <1>1, <1>10, <1>12, <1>14, <1>15, <1>16, Zenon DEF L, a, b, c, d, e

LEMMA MeshtasticEncoded ==
    ASSUME NEW f \in Seq(Bytes), Len(f) <= MaxLength
    PROVE  LET e == Meshtastic!encode(f)
               L == Len(f)
           IN  /\ e \in Seq(Bytes) /\ Len(e) = L + 4 /\ L \in Nat
               /\ e[1] = \h94 /\ e[2] = \hC3
               /\ e[3] = L \div 256 /\ e[4] = L % 256
               /\ \A i \in 1 .. L : e[i + 4] = f[i]
<1> DEFINE L == Len(f)
           a == L \div 256
           b == L % 256
           e == Meshtastic!encode(f)
           h == <<\h94, \hC3>> \o <<a, b>>
<1>1. L \in Nat /\ L \in Words
  BY SMT, WordsOf
<1>2. a \in Bytes /\ b \in Bytes
  <2> HIDE DEF L
  <2> QED BY <1>1, TwoBytes, ZenonT(60)
<1>3. e = h \o f
  BY SMT DEF Meshtastic!encode, Meshtastic!SERIAL_SYNC
<1> HIDE DEF a, b
<1>4. /\ h \in Seq(Bytes) /\ Len(h) = 4
      /\ h[1] = \h94 /\ h[2] = \hC3 /\ h[3] = a /\ h[4] = b
  BY SMT, <1>2 DEF Bytes
<1> HIDE DEF h, e
<1>5. /\ e \in Seq(Bytes) /\ Len(e) = 4 + L
      /\ \A i \in 1 .. 4 : e[i] = h[i]
      /\ \A i \in 1 .. L : e[4 + i] = f[i]
  <2>1. /\ h \o f \in Seq(Bytes) /\ Len(h \o f) = Len(h) + Len(f)
        /\ \A i \in 1 .. Len(h) : (h \o f)[i] = h[i]
        /\ \A i \in 1 .. Len(f) : (h \o f)[Len(h) + i] = f[i]
    <3>1. h \in Seq(Bytes)
      BY <1>4, Zenon
    <3> QED BY <3>1, Glue, Zenon
  <2>2. Len(h) = 4
    BY <1>4, Zenon
  <2> QED BY <1>3, <2>1, <2>2, Zenon
<1> HIDE DEF L
<1>6. 4 + L = L + 4 /\ \A i \in 1 .. L : i + 4 = 4 + i
  BY SMT, <1>1
<1>7. e[1] = h[1] /\ e[2] = h[2] /\ e[3] = h[3] /\ e[4] = h[4]
  BY SMT, <1>5
<1>8. e[1] = \h94 /\ e[2] = \hC3 /\ e[3] = a /\ e[4] = b
  BY <1>4, <1>7, ZenonT(60)
<1>9. \A i \in 1 .. L : e[i + 4] = f[i]
  BY <1>5, <1>6, Zenon
<1> QED BY <1>1, <1>5, <1>6, <1>8, <1>9, Zenon DEF a, b, e, L

LEMMA AtEncoded ==
    ASSUME NEW f \in Seq(Bytes)
    PROVE  LET e == f \o <<CR, LF>>
               L == Len(f)
           IN  /\ e \in Seq(Bytes) /\ Len(e) = L + 2 /\ L \in Nat
               /\ \A i \in 1 .. L : e[i] = f[i]
               /\ e[L + 1] = CR /\ e[L + 2] = LF
<1> DEFINE t == <<CR, LF>>
           e == f \o t
           L == Len(f)
<1>1. L \in Nat
  BY SMT
<1>2. t \in Seq(Bytes) /\ Len(t) = 2 /\ t[1] = CR /\ t[2] = LF
  BY SMT DEF CR, LF, Bytes
<1> HIDE DEF t
<1>3. /\ e \in Seq(Bytes) /\ Len(e) = L + 2
      /\ \A i \in 1 .. L : e[i] = f[i]
      /\ \A i \in 1 .. 2 : e[L + i] = t[i]
  <2>1. /\ f \o t \in Seq(Bytes) /\ Len(f \o t) = Len(f) + Len(t)
        /\ \A i \in 1 .. Len(f) : (f \o t)[i] = f[i]
        /\ \A i \in 1 .. Len(t) : (f \o t)[Len(f) + i] = t[i]
    <3>1. t \in Seq(Bytes)
      BY <1>2, Zenon
    <3> QED BY <3>1, Glue, Zenon
  <2>2. Len(t) = 2
    BY <1>2, Zenon
  <2> QED BY <2>1, <2>2, Zenon
<1> HIDE DEF e
<1>4. e[L + 1] = t[1] /\ e[L + 2] = t[2]
  <2> HIDE DEF L
  <2> QED BY SMT, <1>3
<1>5. e[L + 1] = CR /\ e[L + 2] = LF
  BY <1>2, <1>4, Zenon
<1> QED BY <1>1, <1>3, <1>5, Zenon DEF e, t

-----------------------------------------------------------------------------
\* The detector.

DetectorStates == {"Idle", "MeshCore1", "Meshtastic1", "At1"}

Moved(d, s, m) == [d EXCEPT !.state = s, !.state_bytes = m]

LEMMA DetectorMoves ==
    ASSUME NEW d \in Detectors, NEW s \in DetectorStates, NEW m \in 0 .. SyncTimeout + 1
    PROVE  LET e == Moved(d, s, m)
           IN  /\ e \in Detectors /\ e.state = s /\ e.state_bytes = m
               /\ e.detected = d.detected /\ e.lock_count = d.lock_count
<1> DEFINE g == [d EXCEPT !.state = s]
           c == [g EXCEPT !.state_bytes = m]
<1>1. /\ g \in Detectors /\ g.state = s
      /\ g.detected = d.detected /\ g.lock_count = d.lock_count
  BY SMT DEF Detectors, DetectorStates
<1>2. [d EXCEPT !.state = s, !.state_bytes = m] = c
  BY SMT DEF Detectors
<1> HIDE DEF g
<1>3. /\ c \in Detectors /\ c.state = g.state /\ c.state_bytes = m
      /\ c.detected = g.detected /\ c.lock_count = g.lock_count
  BY SMT, <1>1 DEF Detectors
<1> HIDE DEF c
<1>4. Moved(d, s, m) = c
  BY <1>2, Zenon DEF Moved
<1> QED BY <1>1, <1>3, <1>4, Zenon

LEMMA DetectorFinds ==
    ASSUME NEW d \in Detectors, NEW x \in Protocols \cup {"Unknown"}
    PROVE  LET e == [d EXCEPT !.state = "Idle", !.detected = x]
           IN  /\ e \in Detectors /\ e.state = "Idle"
               /\ e.detected = x /\ e.lock_count = d.lock_count
<1> DEFINE g == [d EXCEPT !.state = "Idle"]
           e == [g EXCEPT !.detected = x]
<1>1. g \in Detectors /\ g.state = "Idle" /\ g.lock_count = d.lock_count
  BY SMT DEF Detectors
<1>2. [d EXCEPT !.state = "Idle", !.detected = x] = e
  BY SMT DEF Detectors
<1> HIDE DEF g
<1>3. e \in Detectors /\ e.state = g.state /\ e.detected = x /\ e.lock_count = g.lock_count
  BY SMT, <1>1 DEF Detectors
<1> HIDE DEF e
<1> QED BY <1>1, <1>2, <1>3, Zenon

\* The detector counts a byte.
LEMMA DetectorCounts ==
    ASSUME LimitsAssumption, NEW d \in Detectors
    PROVE  LET c == Detector!Counted(d)
           IN  /\ c \in Detectors /\ c.detected = d.detected /\ c.lock_count = d.lock_count
               /\ c.state \in {d.state, "Idle"}
               /\ d.state_bytes < SyncTimeout => c.state = d.state /\ c.state_bytes = d.state_bytes + 1
<1> DEFINE n == IF d.state_bytes > SyncTimeout THEN d.state_bytes ELSE d.state_bytes + 1
           c == Detector!Counted(d)
<1>1. SyncTimeout \in Nat /\ d.state_bytes \in 0 .. SyncTimeout + 1
  <2>1. SyncTimeout \in Nat
    BY Zenon DEF LimitsAssumption
  <2> QED BY SMT, <2>1 DEF Detectors
<1>2. /\ n \in 0 .. SyncTimeout + 1 /\ 0 \in 0 .. SyncTimeout + 1
      /\ d.state_bytes < SyncTimeout => n = d.state_bytes + 1 /\ ~ (n > SyncTimeout)
  BY SMT, <1>1
<1>3. c = IF d.state # "Idle" /\ n > SyncTimeout
          THEN [d EXCEPT !.state = "Idle", !.state_bytes = 0]
          ELSE [d EXCEPT !.state_bytes = n]
  BY Zenon DEF Detector!Counted
<1> HIDE DEF n, c
<1>4. CASE d.state # "Idle" /\ n > SyncTimeout
  <2>1. c = Moved(d, "Idle", 0)
    BY <1>3, <1>4, Zenon DEF Moved
  <2>2. "Idle" \in DetectorStates /\ d.detected \in Protocols \cup {"Unknown"}
    BY SMT DEF DetectorStates, Detectors
  <2>3. /\ c \in Detectors /\ c.state = "Idle" /\ c.detected = d.detected
        /\ c.lock_count = d.lock_count
    <3>1. 0 \in 0 .. SyncTimeout + 1 /\ "Idle" \in DetectorStates
      BY <1>2, <2>2, Zenon
    <3> QED BY <2>1, <3>1, DetectorMoves, Zenon
  <2>4. ~ (d.state_bytes < SyncTimeout)
    BY <1>2, <1>4, Zenon
  <2> QED BY <2>3, <2>4, Zenon DEF c
<1>5. CASE ~ (d.state # "Idle" /\ n > SyncTimeout)
  <2>1. c = [d EXCEPT !.state_bytes = n]
    BY <1>3, <1>5, Zenon
  <2> QED BY SMT, <1>2, <1>5, <2>1 DEF Detectors, c
<1> QED BY <1>4, <1>5

\* ... and what it makes of one, while nothing is detected.
LEMMA DetectorFeeds ==
    ASSUME LimitsAssumption, NEW d \in Detectors, NEW b, d.lock_count = 0
    PROVE  LET c     == Detector!Counted(d)
               found == Detector!Found(c, b)
               fed   == Detector!feed(d, b)
           IN  /\ fed \in Detectors /\ fed.lock_count = 0
               /\ Detector!Answer(d, b) = found /\ found \in Protocols \cup {"Unknown"}
               /\ found # "Unknown" => fed.state = "Idle" /\ fed.detected = found
               /\ found = "Unknown" => /\ fed.state = Detector!Opened(c, b)
                                       /\ fed.detected = d.detected
                                       /\ fed.state_bytes = IF fed.state = c.state
                                                            THEN c.state_bytes ELSE 0
<1> DEFINE c     == Detector!Counted(d)
           found == Detector!Found(c, b)
           fed   == Detector!feed(d, b)
           state == IF found = "Unknown" THEN Detector!Opened(c, b) ELSE "Idle"
           bytes == IF state = c.state THEN c.state_bytes ELSE 0
<1>1. c \in Detectors /\ c.detected = d.detected /\ c.lock_count = 0
  BY DetectorCounts, Zenon
<1>2. ~ Detector!is_locked(d) /\ ~ Detector!is_locked(c)
  BY SMT, <1>1 DEF Detector!is_locked, Detector!LockThreshold
<1>3. found \in Protocols \cup {"Unknown"}
  BY SMT DEF Detector!Found, Protocols
<1>4. Detector!Opened(c, b) \in {"Idle", "MeshCore1", "Meshtastic1", "At1"}
  BY SMT DEF Detector!Opened
<1>5. fed = IF found # "Unknown" THEN [c EXCEPT !.state = "Idle", !.detected = found]
            ELSE [c EXCEPT !.state = state, !.state_bytes = IF state = c.state THEN @ ELSE 0]
  BY <1>2, Zenon DEF Detector!feed
<1>6. Detector!Answer(d, b) = found
  BY <1>2, Zenon DEF Detector!Answer
<1>7. 0 \in 0 .. SyncTimeout + 1
  BY SMT DEF LimitsAssumption
<1> HIDE DEF c, found, fed
<1>8. CASE found # "Unknown"
  <2>1. fed = [c EXCEPT !.state = "Idle", !.detected = found]
    BY <1>5, <1>8, Zenon
  <2>2. fed \in Detectors /\ fed.lock_count = 0 /\ fed.state = "Idle" /\ fed.detected = found
    BY <1>1, <1>3, <2>1, DetectorFinds, Zenon
  <2> QED BY <1>3, <1>6, <1>8, <2>2, Zenon DEF c, found, fed
<1>9. CASE found = "Unknown"
  <2>1. state = Detector!Opened(c, b)
    BY <1>9, Zenon
  <2>2. fed = Moved(c, state, bytes)
    BY <1>5, <1>9, Zenon DEF Moved
  <2>3. state \in {"Idle", "MeshCore1", "Meshtastic1", "At1"}
    BY <1>4, <2>1, Zenon
  <2>4. bytes \in 0 .. SyncTimeout + 1 /\ bytes = IF state = c.state THEN c.state_bytes ELSE 0
    <3>1. c.state_bytes \in 0 .. SyncTimeout + 1
      BY SMT, <1>1 DEF Detectors
    <3> QED BY <1>7, <3>1, Zenon
  <2> HIDE DEF state, bytes
  <2>5. /\ fed \in Detectors /\ fed.lock_count = 0 /\ fed.state = state /\ fed.detected = c.detected
        /\ fed.state_bytes = bytes
    <3>1. state \in DetectorStates
      BY <2>3, Zenon DEF DetectorStates
    <3>2. bytes \in 0 .. SyncTimeout + 1
      BY <2>4, Zenon
    <3>3. /\ fed \in Detectors /\ fed.state = state /\ fed.state_bytes = bytes
          /\ fed.detected = c.detected /\ fed.lock_count = c.lock_count
      BY <1>1, <2>2, <3>1, <3>2, DetectorMoves, ZenonT(60)
    <3> QED BY <1>1, <3>3, Zenon
  <2> QED BY <1>1, <1>3, <1>6, <1>9, <2>1, <2>4, <2>5, Zenon DEF c, found, fed
<1> QED BY <1>8, <1>9

LEMMA DetectorConfirms ==
    ASSUME LimitsAssumption, NEW d \in Detectors
    PROVE  /\ Detector!confirm_frame(d) \in Detectors
           /\ Detector!Fresh \in Detectors
           /\ Detector!Fresh.state = "Idle" /\ Detector!Fresh.detected = "Unknown"
           /\ Detector!Fresh.lock_count = 0
<1>1. SyncTimeout \in Nat /\ MaxLockCount \in Nat
  BY Zenon DEF LimitsAssumption
<1> DEFINE n == IF d.lock_count < MaxLockCount THEN d.lock_count + 1 ELSE d.lock_count
<1>2. n \in 0 .. MaxLockCount
  BY SMT, <1>1 DEF Detectors
<1>3. Detector!confirm_frame(d) = [d EXCEPT !.lock_count = n]
  BY Zenon DEF Detector!confirm_frame
<1> HIDE DEF n
<1>4. Detector!confirm_frame(d) \in Detectors
  BY SMT, <1>2, <1>3 DEF Detectors
<1>5. 0 \in 0 .. SyncTimeout + 1 /\ 0 \in 0 .. MaxLockCount
  BY SMT, <1>1
<1>6. Detector!Fresh \in Detectors
  BY SMT, <1>5 DEF Detectors, Detector!Fresh, Protocols
<1> QED BY SMT, <1>4, <1>6 DEF Detector!Fresh

-----------------------------------------------------------------------------
\* All parsers together.

LEMMA InvOfEach ==
    ASSUME NEW ps
    PROVE  (\A app \in Protocols : ParserInv(app, ps[app])) <=>
              /\ MeshCoreInv(ps["MeshCore"]) /\ MeshtasticInv(ps["Meshtastic"])
              /\ KissInv(ps["RNode"]) /\ AtInv(ps["AtCommand"])
<1>1. /\ ParserInv("MeshCore", ps["MeshCore"]) <=> MeshCoreInv(ps["MeshCore"])
      /\ ParserInv("Meshtastic", ps["Meshtastic"]) <=> MeshtasticInv(ps["Meshtastic"])
      /\ ParserInv("RNode", ps["RNode"]) <=> KissInv(ps["RNode"])
      /\ ParserInv("AtCommand", ps["AtCommand"]) <=> AtInv(ps["AtCommand"])
  BY SMT DEF ParserInv
<1> QED BY <1>1, Zenon DEF Protocols

LEMMA ParsersKnown ==
    ASSUME LimitsAssumption
    PROVE  /\ ParsersAtRest \in ParserSets
           /\ \A app \in Protocols : ParserInv(app, ParsersAtRest[app])
           /\ ParsersAtRest["MeshCore"] = MeshCore!Fresh
           /\ ParsersAtRest["Meshtastic"] = Meshtastic!Fresh
           /\ ParsersAtRest["RNode"] = Kiss!Fresh
           /\ ParsersAtRest["AtCommand"] = << >>
<1>1. << >> \in Seq(Bytes) /\ Len(<< >>) = 0
  BY SMT
<1>2. MaxKissData \in Nat /\ AtCapacity \in Nat
  BY Zenon DEF LimitsAssumption
<1>3. Kiss!Fresh \in KissParsers /\ KissInv(Kiss!Fresh)
  BY SMT, <1>1, <1>2 DEF KissInv, KissParsers, Kiss!Fresh, Kiss!States
<1>4. AtInv(<< >>)
  BY SMT, <1>1, <1>2 DEF AtInv
<1>5. MeshCoreInv(MeshCore!Fresh)
  BY SMT, MeshCoreFresh DEF MeshCoreInv
<1>6. MeshtasticInv(Meshtastic!Fresh)
  BY SMT, MeshtasticFresh DEF MeshtasticInv
<1>7. /\ ParsersAtRest["MeshCore"] = MeshCore!Fresh
      /\ ParsersAtRest["Meshtastic"] = Meshtastic!Fresh
      /\ ParsersAtRest["RNode"] = Kiss!Fresh
      /\ ParsersAtRest["AtCommand"] = << >>
  BY SMT DEF ParsersAtRest
<1>8. ParsersAtRest \in ParserSets
  BY SMT, <1>1, <1>3, MeshCoreFresh, MeshtasticFresh DEF ParsersAtRest, ParserSets
<1>9. ASSUME NEW app \in Protocols PROVE ParserInv(app, ParsersAtRest[app])
  BY <1>3, <1>4, <1>5, <1>6, <1>7, <1>9, InvOfEach, Zenon
<1> QED BY <1>7, <1>8, <1>9, Zenon

LEMMA FeedTypes ==
    ASSUME LimitsAssumption, NEW app \in Protocols, NEW p, ParserInv(app, p), NEW b \in Bytes
    PROVE  ParserInv(app, Feed(app, p, b))
<1>1. CASE app = "MeshCore"
  <2>1. MeshCoreInv(p) /\ Feed(app, p, b) = MeshCore!feed(p, b)
    BY SMT, <1>1 DEF ParserInv, Feed
  <2>2. MeshCoreInv(MeshCore!feed(p, b))
    BY <2>1, MeshCoreTypes, Zenon
  <2> QED BY SMT, <1>1, <2>1, <2>2 DEF ParserInv
<1>2. CASE app = "Meshtastic"
  <2>1. MeshtasticInv(p) /\ Feed(app, p, b) = Meshtastic!feed(p, b)
    BY SMT, <1>2 DEF ParserInv, Feed
  <2>2. MeshtasticInv(Meshtastic!feed(p, b))
    BY <2>1, MeshtasticTypes, Zenon
  <2> QED BY SMT, <1>2, <2>1, <2>2 DEF ParserInv
<1>3. CASE app = "RNode"
  <2>1. KissInv(p) /\ Feed(app, p, b) = Kiss!feed(p, b)
    BY SMT, <1>3 DEF ParserInv, Feed
  <2>2. KissInv(Kiss!feed(p, b))
    BY <2>1, KissTypes, Zenon
  <2> QED BY SMT, <1>3, <2>1, <2>2 DEF ParserInv
<1>4. CASE app = "AtCommand"
  <2>1. AtInv(p) /\ Feed(app, p, b) = FeedAt(p, b)
    BY SMT, <1>4 DEF ParserInv, Feed
  <2>2. AtInv(FeedAt(p, b))
    BY <2>1, AtTypes, Zenon
  <2> QED BY SMT, <1>4, <2>1, <2>2 DEF ParserInv
<1> QED BY <1>1, <1>2, <1>3, <1>4 DEF Protocols

LEMMA ParserReplaced ==
    ASSUME LimitsAssumption, NEW ps \in ParserSets, NEW app \in Protocols,
           \A a \in Protocols : ParserInv(a, ps[a]), NEW q, ParserInv(app, q)
    PROVE  LET rs == [ps EXCEPT ![app] = q]
           IN  /\ rs \in ParserSets /\ rs[app] = q
               /\ \A a \in Protocols : ParserInv(a, rs[a])
<1> DEFINE rs == [ps EXCEPT ![app] = q]
<1>5. /\ MeshCoreInv(ps["MeshCore"]) /\ MeshtasticInv(ps["Meshtastic"])
      /\ KissInv(ps["RNode"]) /\ AtInv(ps["AtCommand"])
  BY InvOfEach, Zenon
<1>1. CASE app = "MeshCore"
  <2>1. q \in MeshCoreParsers
    BY SMT, <1>1 DEF ParserInv, MeshCoreInv
  <2>2. /\ rs \in ParserSets /\ rs["MeshCore"] = q /\ rs["Meshtastic"] = ps["Meshtastic"]
        /\ rs["RNode"] = ps["RNode"] /\ rs["AtCommand"] = ps["AtCommand"]
    BY SMT, <1>1, <2>1 DEF ParserSets
  <2> HIDE DEF rs
  <2>3. MeshCoreInv(q)
    BY SMT, <1>1 DEF ParserInv
  <2>4. /\ MeshCoreInv(rs["MeshCore"]) /\ MeshtasticInv(rs["Meshtastic"])
        /\ KissInv(rs["RNode"]) /\ AtInv(rs["AtCommand"])
    BY <1>5, <2>2, <2>3, Zenon
  <2>5. \A a \in Protocols : ParserInv(a, rs[a])
    BY <2>4, InvOfEach, Zenon
  <2> QED BY <1>1, <2>2, <2>5, Zenon DEF rs
<1>2. CASE app = "Meshtastic"
  <2>1. q \in MeshtasticParsers
    BY SMT, <1>2 DEF ParserInv, MeshtasticInv
  <2>2. /\ rs \in ParserSets /\ rs["MeshCore"] = ps["MeshCore"] /\ rs["Meshtastic"] = q
        /\ rs["RNode"] = ps["RNode"] /\ rs["AtCommand"] = ps["AtCommand"]
    BY SMT, <1>2, <2>1 DEF ParserSets
  <2> HIDE DEF rs
  <2>3. MeshtasticInv(q)
    BY SMT, <1>2 DEF ParserInv
  <2>4. /\ MeshCoreInv(rs["MeshCore"]) /\ MeshtasticInv(rs["Meshtastic"])
        /\ KissInv(rs["RNode"]) /\ AtInv(rs["AtCommand"])
    BY <1>5, <2>2, <2>3, Zenon
  <2>5. \A a \in Protocols : ParserInv(a, rs[a])
    BY <2>4, InvOfEach, Zenon
  <2> QED BY <1>2, <2>2, <2>5, Zenon DEF rs
<1>3. CASE app = "RNode"
  <2>1. q \in KissParsers
    BY SMT, <1>3 DEF ParserInv, KissInv
  <2>2. /\ rs \in ParserSets /\ rs["MeshCore"] = ps["MeshCore"] /\ rs["RNode"] = q
        /\ rs["Meshtastic"] = ps["Meshtastic"] /\ rs["AtCommand"] = ps["AtCommand"]
    BY SMT, <1>3, <2>1 DEF ParserSets
  <2> HIDE DEF rs
  <2>3. KissInv(q)
    BY SMT, <1>3 DEF ParserInv
  <2>4. /\ MeshCoreInv(rs["MeshCore"]) /\ MeshtasticInv(rs["Meshtastic"])
        /\ KissInv(rs["RNode"]) /\ AtInv(rs["AtCommand"])
    BY <1>5, <2>2, <2>3, Zenon
  <2>5. \A a \in Protocols : ParserInv(a, rs[a])
    BY <2>4, InvOfEach, Zenon
  <2> QED BY <1>3, <2>2, <2>5, Zenon DEF rs
<1>4. CASE app = "AtCommand"
  <2>1. q \in Seq(Bytes)
    BY SMT, <1>4 DEF ParserInv, AtInv
  <2>2. /\ rs \in ParserSets /\ rs["MeshCore"] = ps["MeshCore"] /\ rs["AtCommand"] = q
        /\ rs["Meshtastic"] = ps["Meshtastic"] /\ rs["RNode"] = ps["RNode"]
    BY SMT, <1>4, <2>1 DEF ParserSets
  <2> HIDE DEF rs
  <2>3. AtInv(q)
    BY SMT, <1>4 DEF ParserInv
  <2>4. /\ MeshCoreInv(rs["MeshCore"]) /\ MeshtasticInv(rs["Meshtastic"])
        /\ KissInv(rs["RNode"]) /\ AtInv(rs["AtCommand"])
    BY <1>5, <2>2, <2>3, Zenon
  <2>5. \A a \in Protocols : ParserInv(a, rs[a])
    BY <2>4, InvOfEach, Zenon
  <2> QED BY <1>4, <2>2, <2>5, Zenon DEF rs
<1> QED BY <1>1, <1>2, <1>3, <1>4 DEF Protocols

-----------------------------------------------------------------------------
\* What read_serial makes of a byte.

\* The fields of a history, over any set for the truth values.
GhostWith(r, g, w, c) == [r EXCEPT !.got = g, !.wrong = w, !.corrupt = c]
GhostMeans(r, g, w)   == [r EXCEPT !.got = g, !.wrong = w]

LEMMA GhostFields ==
    ASSUME NEW r \in Ghosts, NEW g \in Truths, NEW w \in Truths, NEW c \in Truths
    PROVE  /\ GhostWith(r, g, w, c) \in Ghosts
           /\ GhostWith(r, g, w, c).got = g /\ GhostWith(r, g, w, c).wrong = w
           /\ GhostMeans(r, g, w) \in Ghosts
           /\ GhostMeans(r, g, w).got = g /\ GhostMeans(r, g, w).wrong = w
<1> DEFINE a == [r EXCEPT !.got = g]
           b == [a EXCEPT !.wrong = w]
           d == [b EXCEPT !.corrupt = c]
<1>1. a \in Ghosts /\ a.got = g
  BY SMT DEF Ghosts
<1>2. b \in Ghosts /\ b.got = g /\ b.wrong = w
  <2> HIDE DEF a
  <2> QED BY SMT, <1>1 DEF Ghosts
<1>3. d \in Ghosts /\ d.got = g /\ d.wrong = w
  <2> HIDE DEF b
  <2> QED BY SMT, <1>2 DEF Ghosts
<1>6. GhostMeans(r, g, w) = b
  BY SMT DEF GhostMeans, Ghosts
<1>7. GhostWith(r, g, w, c) = d
  BY SMT DEF GhostWith, Ghosts
<1> HIDE DEF a, b, d
<1> QED BY <1>2, <1>3, <1>6, <1>7, Zenon

LEMMA DeliverTypes ==
    ASSUME ghost \in Ghosts, NEW app, NEW frame
    PROVE  /\ Deliver(app, frame) \in Ghosts
           /\ Deliver(app, frame).got = (ghost.got \/ frame = current)
           /\ Deliver(app, frame).wrong = (ghost.wrong \/ ghost.got \/ frame # current)
<1> DEFINE g == ghost.got \/ frame = current
           w == ghost.wrong \/ ghost.got \/ frame # current
           c == ghost.corrupt \/ (app = "MeshCore" /\ frame # current)
<1>1. g \in Truths /\ w \in Truths /\ c \in Truths
  BY Zenon DEF Truths
<1>2. Deliver(app, frame) = GhostWith(ghost, g, w, c)
  BY Zenon DEF Deliver, GhostWith
<1> HIDE DEF g, w, c
<1>3. /\ GhostWith(ghost, g, w, c) \in Ghosts
      /\ GhostWith(ghost, g, w, c).got = g /\ GhostWith(ghost, g, w, c).wrong = w
  BY <1>1, GhostFields, SMT
<1> QED BY <1>2, <1>3, Zenon DEF g, w

LEMMA PrefedTypes ==
    ASSUME LimitsAssumption, ParsersInv, NEW app \in Protocols
    PROVE  ParserInv(app, Prefed(app)) /\ ParserInv(app, parsers[app])
<1>1. ParserInv(app, parsers[app])
  BY Zenon DEF ParsersInv
<1>2. \hAA \in Bytes /\ \h94 \in Bytes /\ \h41 \in Bytes
  BY SMT DEF Bytes
<1>3. \A b \in Bytes : ParserInv(app, Feed(app, parsers[app], b))
  BY <1>1, FeedTypes, Zenon
<1>4. Prefed(app) \in {Feed(app, parsers[app], \hAA), Feed(app, parsers[app], \h94),
                       Feed(app, parsers[app], \h41), parsers[app]}
  BY SMT DEF Prefed, Protocols
<1>5. /\ ParserInv(app, Feed(app, parsers[app], \hAA))
      /\ ParserInv(app, Feed(app, parsers[app], \h94))
      /\ ParserInv(app, Feed(app, parsers[app], \h41))
  BY SMT, <1>2, <1>3
<1> QED BY SMT, <1>1, <1>4, <1>5

\* What a byte does to the state, case by case.
LEMMA Processes ==
    ASSUME LimitsAssumption, TypesInv, NEW b \in Bytes, ProcessSerialByte(b)
    PROVE  LET unknown == serial_protocol = "Unknown"
               app     == IF unknown THEN Detector!Answer(detector, b) ELSE serial_protocol
               fed     == IF unknown THEN Detector!feed(detector, b) ELSE detector
               parser  == IF unknown THEN Prefed(app) ELSE parsers[app]
               frame   == Completed(app, parser, b)
           IN  /\ app \in Protocols \cup {"Unknown"} /\ fed \in Detectors
               /\ app = "Unknown" =>
                     /\ serial_protocol = "Unknown" /\ detector' = fed
                     /\ fed.detected = "Unknown" /\ fed.lock_count = 0
                     /\ UNCHANGED <<serial_protocol, parsers, ghost>>
               /\ app # "Unknown" =>
                     /\ app \in Protocols /\ ParserInv(app, parser)
                     /\ ghost' = IF Completes(app, parser, b) THEN Deliver(app, frame) ELSE ghost
                     /\ \/ /\ Completes(app, parser, b) /\ app = "AtCommand"
                           /\ ResetProtocol
                        \/ /\ serial_protocol' = app
                           /\ detector' \in {fed, Detector!confirm_frame(fed)}
                           /\ parsers' = [parsers EXCEPT ![app] = Feed(app, parser, b)]
<1> DEFINE unknown == serial_protocol = "Unknown"
           app     == IF unknown THEN Detector!Answer(detector, b) ELSE serial_protocol
           fed     == IF unknown THEN Detector!feed(detector, b) ELSE detector
           parser  == IF unknown THEN Prefed(app) ELSE parsers[app]
           frame   == Completed(app, parser, b)
<1>1. detector \in Detectors /\ serial_protocol \in Protocols \cup {"Unknown"}
  BY Zenon DEF TypesInv, DetectorInv
<1>2. ASSUME unknown PROVE /\ fed \in Detectors /\ app \in Protocols \cup {"Unknown"}
                           /\ app = "Unknown" => fed.detected = "Unknown" /\ fed.lock_count = 0
  <2>1. detector.lock_count = 0 /\ detector.detected = "Unknown"
    BY <1>2, Zenon DEF TypesInv, DetectorInv
  <2>2. /\ Detector!feed(detector, b) \in Detectors /\ Detector!feed(detector, b).lock_count = 0
        /\ Detector!Answer(detector, b) = Detector!Found(Detector!Counted(detector), b)
        /\ Detector!Answer(detector, b) \in Protocols \cup {"Unknown"}
        /\ Detector!Found(Detector!Counted(detector), b) = "Unknown" =>
              Detector!feed(detector, b).detected = detector.detected
    BY <1>1, <2>1, DetectorFeeds, Zenon
  <2> QED BY <1>2, <2>1, <2>2, Zenon
<1>3. fed \in Detectors /\ app \in Protocols \cup {"Unknown"}
  BY <1>1, <1>2, Zenon
<1>4. app = "Unknown" => unknown
  BY Zenon
<1>5. ASSUME app # "Unknown" PROVE app \in Protocols /\ ParserInv(app, parser)
  <2>1. app \in Protocols
    BY <1>3, <1>5, Zenon
  <2>2. ParsersInv
    BY Zenon DEF TypesInv
  <2> HIDE DEF app
  <2>3. ParserInv(app, Prefed(app)) /\ ParserInv(app, parsers[app])
    BY <2>1, <2>2, PrefedTypes, Zenon
  <2> QED BY <2>1, <2>3, Zenon
<1>6. \/ /\ app = "Unknown"
         /\ detector' = fed
         /\ UNCHANGED <<serial_protocol, parsers, ghost>>
      \/ /\ app # "Unknown"
         /\ IF Completes(app, parser, b)
            THEN /\ ghost' = Deliver(app, frame)
                 /\ IF app = "AtCommand" /\ IsPrefix(SwitchLine, frame)
                    THEN ResetProtocol
                    ELSE /\ serial_protocol' = app
                         /\ detector' = IF app = "AtCommand" THEN fed
                                        ELSE Detector!confirm_frame(fed)
                         /\ parsers' = [parsers EXCEPT ![app] = Feed(app, parser, b)]
            ELSE /\ serial_protocol' = app
                 /\ detector' = fed
                 /\ parsers' = [parsers EXCEPT ![app] = Feed(app, parser, b)]
                 /\ UNCHANGED ghost
  BY Zenon DEF ProcessSerialByte
<1> HIDE DEF unknown, app, fed, parser, frame
<1>7. CASE app = "Unknown"
  <2>1. unknown /\ detector' = fed /\ UNCHANGED <<serial_protocol, parsers, ghost>>
    BY <1>4, <1>6, <1>7, Zenon
  <2> QED BY <1>2, <1>3, <1>7, <2>1, Zenon DEF unknown, app, fed
<1>8. CASE app # "Unknown"
  <2>1. ghost' = IF Completes(app, parser, b) THEN Deliver(app, frame) ELSE ghost
    BY <1>6, <1>8, Zenon
  <2>2. \/ Completes(app, parser, b) /\ app = "AtCommand" /\ ResetProtocol
        \/ /\ serial_protocol' = app
           /\ detector' \in {fed, Detector!confirm_frame(fed)}
           /\ parsers' = [parsers EXCEPT ![app] = Feed(app, parser, b)]
    BY <1>6, <1>8, Zenon
  <2> QED BY <1>3, <1>5, <1>8, <2>1, <2>2, Zenon DEF unknown, app, fed, parser, frame
<1> QED BY <1>7, <1>8

LEMMA ProcessTypes ==
    ASSUME LimitsAssumption, TypesInv, NEW b \in Bytes, ProcessSerialByte(b)
    PROVE  /\ serial_protocol' \in Protocols \cup {"Unknown"}
           /\ ParsersInv' /\ DetectorInv' /\ ghost' \in Ghosts
<1> DEFINE unknown == serial_protocol = "Unknown"
           app     == IF unknown THEN Detector!Answer(detector, b) ELSE serial_protocol
           fed     == IF unknown THEN Detector!feed(detector, b) ELSE detector
           parser  == IF unknown THEN Prefed(app) ELSE parsers[app]
           frame   == Completed(app, parser, b)
<1>1. /\ app \in Protocols \cup {"Unknown"} /\ fed \in Detectors
      /\ app = "Unknown" =>
            /\ serial_protocol = "Unknown" /\ detector' = fed
            /\ fed.detected = "Unknown" /\ fed.lock_count = 0
            /\ UNCHANGED <<serial_protocol, parsers, ghost>>
      /\ app # "Unknown" =>
            /\ app \in Protocols /\ ParserInv(app, parser)
            /\ ghost' = IF Completes(app, parser, b) THEN Deliver(app, frame) ELSE ghost
            /\ \/ /\ Completes(app, parser, b) /\ app = "AtCommand"
                  /\ ResetProtocol
               \/ /\ serial_protocol' = app
                  /\ detector' \in {fed, Detector!confirm_frame(fed)}
                  /\ parsers' = [parsers EXCEPT ![app] = Feed(app, parser, b)]
  BY Processes, Zenon
<1> HIDE DEF unknown, app, fed, parser, frame
<1>2. ghost \in Ghosts /\ ParsersInv
  BY Zenon DEF TypesInv
<1>3. CASE app = "Unknown"
  <2>1. serial_protocol' = "Unknown" /\ parsers' = parsers /\ ghost' = ghost /\ detector' = fed
    BY <1>1, <1>3, Zenon
  <2>2. ParsersInv'
    BY <1>1, <1>2, <1>3, <2>1, Zenon DEF ParsersInv
  <2> QED BY <1>1, <1>2, <1>3, <2>1, <2>2, Zenon DEF DetectorInv
<1>4. CASE app # "Unknown"
  <2>1. Deliver(app, frame) \in Ghosts
    BY <1>2, DeliverTypes, Zenon
  <2>2. ghost' \in Ghosts
    BY <1>1, <1>2, <1>4, <2>1, Zenon
  <2>3. CASE ResetProtocol
    <3>1. /\ serial_protocol' = "Unknown" /\ detector' = Detector!Fresh
          /\ parsers' = ParsersAtRest
      BY <2>3, Zenon DEF ResetProtocol
    <3>2. ParsersInv'
      BY <3>1, ParsersKnown, Zenon DEF ParsersInv
    <3>3. DetectorInv'
      BY <1>1, <3>1, DetectorConfirms, Zenon DEF DetectorInv
    <3> QED BY <2>2, <3>1, <3>2, <3>3, Zenon
  <2>4. CASE /\ serial_protocol' = app
             /\ detector' \in {fed, Detector!confirm_frame(fed)}
             /\ parsers' = [parsers EXCEPT ![app] = Feed(app, parser, b)]
    <3>1. app \in Protocols /\ ParserInv(app, parser)
      BY <1>1, <1>4, Zenon
    <3>2. ParserInv(app, Feed(app, parser, b))
      BY <3>1, FeedTypes, Zenon
    <3>3. parsers \in ParserSets /\ \A a \in Protocols : ParserInv(a, parsers[a])
      BY <1>2, Zenon DEF ParsersInv
    <3> DEFINE q == Feed(app, parser, b)
    <3>4. /\ [parsers EXCEPT ![app] = q] \in ParserSets
          /\ \A a \in Protocols : ParserInv(a, [parsers EXCEPT ![app] = q][a])
      <4> HIDE DEF q
      <4>1. ParserInv(app, q)
        BY <3>2, Zenon DEF q
      <4> QED BY <3>1, <3>3, <4>1, ParserReplaced, Zenon
    <3>5. ParsersInv'
      <4>1. serial_protocol' # "Unknown"
        BY <1>4, <2>4, Zenon
      <4> DEFINE rs == [parsers EXCEPT ![app] = q]
      <4> HIDE DEF q
      <4>2. parsers' = rs
        BY <2>4, Zenon DEF q
      <4> HIDE DEF rs
      <4>3. rs \in ParserSets /\ \A a \in Protocols : ParserInv(a, rs[a])
        BY <3>4, Zenon DEF rs
      <4> QED BY <4>1, <4>2, <4>3, Zenon DEF ParsersInv
    <3>6. detector' \in Detectors
      BY <1>1, <2>4, DetectorConfirms, Zenon
    <3> QED BY <1>4, <2>2, <2>4, <3>1, <3>5, <3>6, Zenon DEF DetectorInv
  <2> QED BY <1>1, <1>4, <2>3, <2>4, Zenon
<1> QED BY <1>3, <1>4

-----------------------------------------------------------------------------
\* TypesInv is inductive.

LEMMA FrameKnown ==
    ASSUME FramesAssumption, NEW app \in Apps, NEW f \in FramesOf(app)
    PROVE  f \in Seq(Bytes) /\ f # NoFrame /\ Fits(app, f)
  BY Zenon DEF FramesAssumption, Bytes

\* What a host may send as a frame, and the bytes of it.
LEMMA MeshCoreFits ==
    ASSUME LimitsAssumption, NEW f \in Seq(Bytes), Fits("MeshCore", f)
    PROVE  /\ Len(f) \in Nat /\ Len(f) >= 2 /\ Len(f) <= MaxData + 2 /\ Len(f) <= MaxLength + 2
           /\ f[1] \in Commands /\ Crc(f) \in Words
<1>1. MaxData \in 0 .. MaxLength
  BY Zenon DEF LimitsAssumption
<1>2. Len(f) \in 2 .. MaxData + 2 /\ f[1] \in Commands /\ Crc(f) \in Nat /\ Crc(f) < 65536
  BY SMT DEF Fits
<1>3. Crc(f) \in Words
  BY SMT, <1>2 DEF Words
<1>4. MaxData \in Nat /\ MaxData <= MaxLength /\ MaxLength \in Nat
  BY SMT, <1>1, Lengths
<1>5. Len(f) \in Nat
  BY SMT
<1> QED BY SMT, <1>2, <1>3, <1>4, <1>5

LEMMA LengthsOf ==
    ASSUME NEW n \in 0 .. MaxLength
    PROVE  n \in 0 .. 256 * 255
<1> DEFINE m == 256 * 255
<1>1. MaxLength = m
  BY SMTT(90) DEF MaxLength
<1> HIDE DEF m
<1>2. n \in 0 .. m
  BY <1>1, Zenon
<1> QED BY <1>2, Zenon DEF m

LEMMA MeshtasticFits ==
    ASSUME LimitsAssumption, NEW f \in Seq(Bytes), Fits("Meshtastic", f)
    PROVE  Len(f) \in Nat /\ Len(f) <= MaxPayload /\ Len(f) <= MaxLength
<1>1. MaxPayload \in 0 .. MaxLength
  BY Zenon DEF LimitsAssumption
<1>2. Len(f) <= MaxPayload
  BY SMT DEF Fits
<1> QED BY SMT, <1>1, <1>2, Lengths

LEMMA KissFits ==
    ASSUME LimitsAssumption, NEW f \in Seq(Bytes), Fits("RNode", f)
    PROVE  /\ Len(f) \in Nat /\ Len(f) >= 1 /\ Len(f) <= MaxKissData + 1
           /\ f[1] \notin {Kiss!FEND, Kiss!FESC} /\ f # << >>
<1>1. MaxKissData \in Nat
  BY Zenon DEF LimitsAssumption
<1>2. Len(f) \in 1 .. MaxKissData + 1 /\ f[1] \notin {Kiss!FEND, Kiss!FESC}
  BY SMT DEF Fits
<1> QED BY SMT, <1>1, <1>2

LEMMA EncodeTypes ==
    ASSUME LimitsAssumption, FramesAssumption, NEW app \in Apps, NEW f \in FramesOf(app)
    PROVE  Encode(app, f) \in Seq(Bytes)
<1>1. f \in Seq(Bytes) /\ Fits(app, f) /\ app \in Protocols
  BY FrameKnown, Zenon DEF LimitsAssumption
<1>2. CASE app = "MeshCore"
  <2>1. /\ Len(f) \in Nat /\ Len(f) >= 2 /\ Len(f) <= MaxLength + 2 /\ Crc(f) \in Words
    BY <1>1, <1>2, MeshCoreFits, Zenon
  <2>2. MeshCore!encode(f) \in Seq(Bytes)
    BY <1>1, <2>1, MeshCoreEncoded, Zenon
  <2>3. Encode(app, f) = MeshCore!encode(f)
    BY SMT, <1>2 DEF Encode
  <2> QED BY <2>2, <2>3, Zenon
<1>3. CASE app = "Meshtastic"
  <2>1. Len(f) <= MaxLength
    BY <1>1, <1>3, MeshtasticFits, Zenon
  <2>2. Meshtastic!encode(f) \in Seq(Bytes)
    BY <1>1, <2>1, MeshtasticEncoded, Zenon
  <2>3. Encode(app, f) = Meshtastic!encode(f)
    BY SMT, <1>3 DEF Encode
  <2> QED BY <2>2, <2>3, Zenon
<1>4. CASE app = "RNode"
  <2>1. f # << >>
    BY <1>1, <1>4, KissFits, Zenon
  <2>2. Kiss!encode(f) \in Seq(Bytes)
    BY <1>1, <2>1, KissEncoded, Zenon
  <2>3. Encode(app, f) = Kiss!encode(f)
    BY SMT, <1>4 DEF Encode
  <2> QED BY <2>2, <2>3, Zenon
<1>5. CASE app = "AtCommand"
  <2>1. f \o <<CR, LF>> \in Seq(Bytes)
    BY <1>1, AtEncoded, Zenon
  <2>2. Encode(app, f) = f \o <<CR, LF>>
    BY SMT, <1>5 DEF Encode
  <2> QED BY <2>1, <2>2, Zenon
<1> QED BY <1>1, <1>2, <1>3, <1>4, <1>5 DEF Protocols

LEMMA InitTypesInv == LimitsAssumption /\ Init => TypesInv
<1> SUFFICES ASSUME LimitsAssumption, Init PROVE TypesInv
  OBVIOUS
<1>1. /\ serial_protocol = "Unknown" /\ detector = Detector!Fresh /\ parsers = ParsersAtRest
      /\ host \in Apps /\ current = NoFrame /\ line = << >> /\ noise = 0 /\ lost = 0
      /\ ghost = [got |-> TRUE, wrong |-> FALSE, corrupt |-> FALSE] /\ clean = TRUE
  BY Zenon DEF Init
<1>2. ParsersInv
  BY <1>1, ParsersKnown, Zenon DEF ParsersInv
<1>3. DetectorInv
  <2>1. /\ Detector!Fresh \in Detectors /\ Detector!Fresh.detected = "Unknown"
        /\ Detector!Fresh.lock_count = 0
    <3>1. SyncTimeout \in Nat /\ MaxLockCount \in Nat
      BY Zenon DEF LimitsAssumption
    <3>2. 0 \in 0 .. SyncTimeout + 1 /\ 0 \in 0 .. MaxLockCount
      BY SMT, <3>1
    <3> QED BY SMT, <3>2 DEF Detectors, Detector!Fresh, Protocols
  <2> QED BY <1>1, <2>1, Zenon DEF DetectorInv
<1>4. ghost \in Ghosts /\ clean \in BOOLEAN
  BY <1>1, Zenon DEF Ghosts, Truths
<1>5. line \in Seq(Bytes) /\ noise \in 0 .. MaxNoise /\ lost \in 0 .. MaxLost
  BY SMT, <1>1 DEF LimitsAssumption
<1> QED BY <1>1, <1>2, <1>3, <1>4, <1>5, Zenon DEF TypesInv

LEMMA NextTypesInv ==
    LimitsAssumption /\ FramesAssumption /\ TypesInv /\ [Next]_vars => TypesInv'
<1> SUFFICES ASSUME LimitsAssumption, FramesAssumption, TypesInv, [Next]_vars
             PROVE  TypesInv'
  OBVIOUS
<1>1. /\ serial_protocol \in Protocols \cup {"Unknown"} /\ ParsersInv /\ DetectorInv
      /\ host \in Apps /\ (current = NoFrame \/ current \in FramesOf(host))
      /\ line \in Seq(Bytes) /\ noise \in 0 .. MaxNoise /\ lost \in 0 .. MaxLost
      /\ ghost \in Ghosts /\ clean \in BOOLEAN
  BY Zenon DEF TypesInv
<1>2. line # << >> => Head(line) \in Bytes /\ Tail(line) \in Seq(Bytes)
  BY SMT, <1>1
<1>3. ASSUME ResetProtocol
      PROVE  /\ serial_protocol' \in Protocols \cup {"Unknown"} /\ ParsersInv' /\ DetectorInv'
  <2>1. /\ serial_protocol' = "Unknown" /\ detector' = Detector!Fresh
        /\ parsers' = ParsersAtRest
    BY <1>3, Zenon DEF ResetProtocol
  <2>2. ParsersInv'
    BY <2>1, ParsersKnown, Zenon DEF ParsersInv
  <2>3. detector \in Detectors
    BY <1>1, Zenon DEF DetectorInv
  <2>4. DetectorInv'
    BY <2>1, <2>3, DetectorConfirms, Zenon DEF DetectorInv
  <2> QED BY <2>1, <2>2, <2>4, Zenon
<1>4. ASSUME UNCHANGED <<serial_protocol, detector, parsers>>
      PROVE  /\ serial_protocol' \in Protocols \cup {"Unknown"} /\ ParsersInv' /\ DetectorInv'
  BY <1>1, <1>4, Zenon DEF ParsersInv, DetectorInv
<1>5. ASSUME Forget PROVE current' = NoFrame /\ ghost' \in Ghosts
  <2>1. current' = NoFrame /\ ghost' = GhostMeans(ghost, TRUE, FALSE)
    BY <1>5, Zenon DEF Forget, GhostMeans
  <2>2. TRUE \in Truths /\ FALSE \in Truths
    BY Zenon DEF Truths
  <2>3. GhostMeans(ghost, TRUE, FALSE) \in Ghosts
    <3> DEFINE t == TRUE
               f == FALSE
    <3>1. t \in Truths /\ f \in Truths
      BY <2>2, Zenon
    <3> HIDE DEF t, f
    <3>2. GhostMeans(ghost, t, f) \in Ghosts
      BY SMT, <1>1, <3>1, GhostFields
    <3> QED BY <3>2, Zenon DEF t, f
  <2> QED BY <2>1, <2>3, Zenon
<1>6. ASSUME NEW frame, BeginFrame(frame) PROVE TypesInv'
  <2>1. /\ frame \in FramesOf(host) /\ current' = frame /\ line' = Encode(host, frame)
        /\ noise' = 0 /\ ghost' = [ghost EXCEPT !.got = FALSE]
        /\ UNCHANGED <<serial_protocol, detector, parsers, host, lost, clean>>
    BY <1>6, Zenon DEF BeginFrame
  <2>2. line' \in Seq(Bytes)
    BY <1>1, <2>1, EncodeTypes, Zenon
  <2>3. ghost' \in Ghosts
    <3> DEFINE f == FALSE
    <3>1. f \in Truths /\ ghost' = [ghost EXCEPT !.got = f]
      BY <2>1, Zenon DEF Truths
    <3> HIDE DEF f
    <3> QED BY SMT, <1>1, <3>1 DEF Ghosts
  <2>4. noise' \in 0 .. MaxNoise
    BY SMT, <2>1 DEF LimitsAssumption
  <2> QED BY <1>1, <1>4, <2>1, <2>2, <2>3, <2>4, Zenon DEF TypesInv
<1>7. ASSUME ReadByte PROVE TypesInv'
  <2>1. /\ line # << >> /\ ProcessSerialByte(Head(line)) /\ line' = Tail(line)
        /\ UNCHANGED <<host, current, noise, lost, clean>>
    BY <1>7, Zenon DEF ReadByte
  <2> DEFINE b == Head(line)
  <2>2. b \in Bytes /\ ProcessSerialByte(b)
    BY <1>2, <2>1, Zenon
  <2> HIDE DEF b
  <2>3. /\ serial_protocol' \in Protocols \cup {"Unknown"}
        /\ ParsersInv' /\ DetectorInv' /\ ghost' \in Ghosts
    BY <2>2, ProcessTypes, Zenon
  <2> QED BY <1>1, <1>2, <2>1, <2>3, Zenon DEF TypesInv
<1>8. ASSUME LoseByte PROVE TypesInv'
  <2>1. /\ line # << >> /\ lost < MaxLost /\ lost' = lost + 1 /\ line' = Tail(line)
        /\ clean' = FALSE
        /\ UNCHANGED <<serial_protocol, detector, parsers, host, current, noise, ghost>>
    BY <1>8, Zenon DEF LoseByte
  <2>2. lost' \in 0 .. MaxLost
    BY SMT, <1>1, <2>1 DEF LimitsAssumption
  <2>3. clean' \in BOOLEAN
    BY <2>1, Zenon
  <2> QED BY <1>1, <1>2, <1>4, <2>1, <2>2, <2>3, Zenon DEF TypesInv
<1>9. ASSUME NEW b \in Noise, ReadNoise(b) PROVE TypesInv'
  <2>1. /\ noise < MaxNoise /\ noise' = noise + 1 /\ ProcessSerialByte(b)
        /\ clean' = (clean /\ Harmless(b)) /\ UNCHANGED <<host, current, line, lost>>
    BY <1>9, Zenon DEF ReadNoise
  <2>2. b \in Bytes
    BY Zenon DEF FramesAssumption, Bytes
  <2>3. /\ serial_protocol' \in Protocols \cup {"Unknown"}
        /\ ParsersInv' /\ DetectorInv' /\ ghost' \in Ghosts
    BY <2>1, <2>2, ProcessTypes, Zenon
  <2>4. noise' \in 0 .. MaxNoise
    BY SMT, <1>1, <2>1 DEF LimitsAssumption
  <2>5. clean' \in BOOLEAN
    BY <2>1, Zenon
  <2> QED BY <1>1, <2>1, <2>3, <2>4, <2>5, Zenon DEF TypesInv
<1>10. ASSUME Supervise PROVE TypesInv'
  <2>1. /\ ResetProtocol /\ clean' = (line = << >>)
        /\ IF line = << >> THEN Forget ELSE UNCHANGED <<current, ghost>>
        /\ UNCHANGED <<host, line, noise, lost>>
    BY <1>10, Zenon DEF Supervise
  <2>2. ghost' \in Ghosts /\ (current' = NoFrame \/ current' \in FramesOf(host)) /\ clean' \in BOOLEAN
    BY <1>1, <1>5, <2>1, Zenon
  <2> QED BY <1>1, <1>3, <2>1, <2>2, Zenon DEF TypesInv
<1>11. ASSUME NEW app \in Apps, OpenApp(app) PROVE TypesInv'
  <2>1. /\ host' = app /\ Forget
        /\ clean' = (serial_protocol = "Unknown" /\ detector.state = "Idle")
        /\ UNCHANGED <<serial_protocol, detector, parsers, line, noise, lost>>
    BY <1>11, Zenon DEF OpenApp
  <2>2. ghost' \in Ghosts /\ current' = NoFrame /\ clean' \in BOOLEAN
    BY <1>5, <2>1, Zenon
  <2> QED BY <1>1, <1>4, <2>1, <2>2, Zenon DEF TypesInv
<1>12. CASE UNCHANGED vars
  <2>1. UNCHANGED <<serial_protocol, detector, parsers, host, current, line, noise, lost, ghost, clean>>
    BY <1>12, Zenon DEF vars
  <2> QED BY <1>1, <1>4, <2>1, Zenon DEF TypesInv
<1> QED BY <1>6, <1>7, <1>8, <1>9, <1>10, <1>11, <1>12, Zenon DEF Next

(***************************************************************************)
(* Whatever bytes arrive, no parser writes past its buffer and none takes  *)
(* a length it does not hold (protocol.rs, meshtastic/mod.rs, rnode.rs and *)
(* the AT buffer of main.rs).                                              *)
(***************************************************************************)
THEOREM SerialTypes == Spec => []TypeOK
<1>1. TypesInv => TypeOK
  <2> SUFFICES ASSUME TypesInv PROVE TypeOK
    OBVIOUS
  <2>1. /\ parsers["MeshCore"] = parsers.MeshCore /\ parsers["Meshtastic"] = parsers.Meshtastic
        /\ parsers["RNode"] = parsers.RNode /\ parsers["AtCommand"] = parsers.AtCommand
    BY SMT
  <2>2. /\ MeshCoreInv(parsers.MeshCore) /\ MeshtasticInv(parsers.Meshtastic)
        /\ KissInv(parsers.RNode) /\ AtInv(parsers.AtCommand)
    BY <2>1, InvOfEach, Zenon DEF TypesInv, ParsersInv
  <2>3. MeshCore!IsParser(parsers.MeshCore)
    <3> DEFINE p == parsers.MeshCore
    <3>1. p \in MeshCoreParsers /\ MeshCoreInv(p)
      BY <2>2, Zenon DEF MeshCoreInv
    <3> HIDE DEF p
    <3>2. p.state \in MeshCore!States /\ p.data_len \in 0 .. MaxLength
      BY SMT, <3>1 DEF MeshCoreParsers
    <3>4. p.data_len \in 0 .. 256 * 255
      BY <3>2, LengthsOf, Zenon
    <3>3. p.state \notin {"WaitSync1", "WaitSync2", "WaitLenLow", "WaitLenHigh"} =>
             p.data_len <= MaxData /\ Len(p.frame) <= p.data_len + 2
      <4>1. p.data_len \in Nat
        BY SMT, <3>2
      <4> QED BY SMT, <3>1, <3>2, <4>1 DEF MeshCoreInv, MeshCore!States
    <3> QED BY <3>2, <3>3, <3>4, Zenon DEF MeshCore!IsParser, p
  <2>4. Meshtastic!IsParser(parsers.Meshtastic)
    <3> DEFINE p == parsers.Meshtastic
    <3>1. p \in MeshtasticParsers /\ MeshtasticInv(p)
      BY <2>2, Zenon DEF MeshtasticInv
    <3> HIDE DEF p
    <3>2. p.state \in Meshtastic!States /\ p.payload_len \in 0 .. MaxLength
      BY SMT, <3>1 DEF MeshtasticParsers
    <3>4. p.payload_len \in 0 .. 256 * 255
      BY <3>2, LengthsOf, Zenon
    <3>3. p.state = "WaitPayload" => p.payload_len <= MaxPayload /\ Len(p.frame) < p.payload_len
      BY Zenon, <3>1 DEF MeshtasticInv
    <3> QED BY <3>2, <3>3, <3>4, Zenon DEF Meshtastic!IsParser, p
  <2>5. Kiss!IsParser(parsers.RNode)
    BY SMT, <2>2 DEF KissInv, KissParsers, Kiss!IsParser
  <2>6. Detector!IsDetector(detector)
    BY SMT DEF TypesInv, DetectorInv, Detectors, Detector!IsDetector, Protocols
  <2>7. Len(parsers.AtCommand) <= AtCapacity /\ \A i \in DOMAIN line : line[i] \in Bytes
    BY SMT, <2>2 DEF AtInv, TypesInv
  <2>8. ghost \in [got : BOOLEAN, wrong : BOOLEAN, corrupt : BOOLEAN]
    BY Zenon DEF TypesInv, Ghosts, Truths
  <2> QED BY <2>3, <2>4, <2>5, <2>6, <2>7, <2>8, Zenon DEF TypesInv, TypeOK
<1> QED BY <1>1, InitTypesInv, NextTypesInv, LimitsAssumption, FramesAssumption, PTL DEF Spec

-----------------------------------------------------------------------------
\* Each parser reads the next byte of its frame.

LEMMA LowHigh ==
    ASSUME NEW n \in Words
    PROVE  /\ Low(n) \in Bytes /\ High(n) \in Bytes /\ Low(n) + 256 * High(n) = n
           /\ Low(n) = n % 256 /\ High(n) = n \div 256
  BY TwoBytes, ZenonT(60) DEF Low, High

\* Every byte of a frame moves the parser to where it belongs, and the last
\* one completes the frame.
LEMMA MeshCoreReads ==
    ASSUME LimitsAssumption, NEW f \in Seq(Bytes), Fits("MeshCore", f),
           NEW n \in 0 .. Len(f) + 6, NEW p, MeshCoreInv(p), MeshCoreAt(f, n, p)
    PROVE  LET b == MeshCore!encode(f)[n + 1]
           IN  /\ MeshCoreAt(f, n + 1, MeshCore!feed(p, b))
               /\ MeshCore!Completes(p, b) <=> n + 1 = Len(f) + 7
               /\ MeshCore!Completes(p, b) => p.frame = f
<1> DEFINE L == Len(f)
           e == MeshCore!encode(f)
           b == e[n + 1]
           q == MeshCore!feed(p, b)
           lo == Low(L - 2)
           hi == High(L - 2)
           crc == Crc(f)
<1>1. /\ L \in Nat /\ L >= 2 /\ L <= MaxData + 2 /\ L <= MaxLength + 2 /\ f[1] \in Commands
      /\ crc \in Words /\ L - 2 \in Words
  <2>1. /\ L \in Nat /\ L >= 2 /\ L <= MaxData + 2 /\ L <= MaxLength + 2 /\ f[1] \in Commands
        /\ crc \in Words
    BY MeshCoreFits, Zenon
  <2> QED BY <2>1, WordsOf, Zenon
<1>2. /\ lo \in Bytes /\ hi \in Bytes /\ lo + 256 * hi = L - 2
      /\ Low(crc) \in Bytes /\ High(crc) \in Bytes /\ Low(crc) + 256 * High(crc) = crc
  BY <1>1, LowHigh, ZenonT(60)
<1>3. /\ e[1] = \hAA /\ e[2] = \h55 /\ e[L + 7] = \h0D /\ e[3] = lo /\ e[4] = hi
      /\ \A i \in 1 .. L : e[i + 4] = f[i]
      /\ e[L + 5] = Low(crc) /\ e[L + 6] = High(crc)
  <2>1. /\ e[1] = \hAA /\ e[2] = \h55 /\ e[L + 7] = \h0D
        /\ e[3] = (L - 2) % 256 /\ e[4] = (L - 2) \div 256
        /\ \A i \in 1 .. L : e[i + 4] = f[i]
        /\ e[L + 5] = Crc(f) % 256 /\ e[L + 6] = Crc(f) \div 256
    <3>1. Len(f) >= 2 /\ Len(f) <= MaxLength + 2 /\ Crc(f) \in Words
      BY <1>1, Zenon
    <3> HIDE DEF lo, hi, crc
    <3> QED BY <3>1, MeshCoreEncoded, ZenonT(90)
  <2> HIDE DEF e
  <2> QED BY <2>1, Zenon DEF Low, High
<1>4. p \in MeshCoreParsers
  BY Zenon DEF MeshCoreInv
<1>5. /\ n \in {0, L + 7} => p = MeshCore!Fresh
      /\ n = 1 => p.state = "WaitSync2" /\ p.frame = << >>
      /\ n = 2 => p.state = "WaitLenLow" /\ p.frame = << >>
      /\ n = 3 => p.state = "WaitLenHigh" /\ p.data_len = lo /\ p.frame = << >>
      /\ n = 4 => p.state = "WaitCommand" /\ p.data_len = L - 2 /\ p.frame = << >>
      /\ n \in 5 .. L + 3 => /\ p.state = IF n = 5 THEN "WaitSequence" ELSE "WaitData"
                             /\ p.data_len = L - 2 /\ p.frame = SubSeq(f, 1, n - 4)
      /\ n = L + 4 => p.state = "WaitCrcLow" /\ p.frame = f
      /\ n = L + 5 => p.state = "WaitCrcHigh" /\ p.frame = f /\ p.crc_low = Low(crc)
      /\ n = L + 6 => p.state = "WaitEnd" /\ p.frame = f
  BY Zenon DEF MeshCoreAt
<1>6. L = Len(f)
  BY Zenon
<1> DEFINE After == /\ MeshCoreAt(f, n + 1, q)
                    /\ MeshCore!Completes(p, b) <=> n + 1 = Len(f) + 7
                    /\ MeshCore!Completes(p, b) => p.frame = f
<1> SUFFICES After
  BY Zenon
<1> HIDE DEF e, lo, hi, crc, L
<1>7. /\ n \in Nat /\ n + 1 \in Nat
      /\ n = 0 \/ n = 1 \/ n = 2 \/ n = 3 \/ n = 4 \/ n \in 5 .. L + 3
         \/ n = L + 4 \/ n = L + 5 \/ n = L + 6
  BY SMT, <1>1, <1>6
<1>8. p.state # "WaitEnd" => ~ MeshCore!Completes(p, b)
  BY Zenon DEF MeshCore!Completes
<1> HIDE DEF q, b
<1>10. CASE n = 0
  <2>1. p.state = "WaitSync1" /\ p.frame = << >> /\ b = \hAA
    BY <1>3, <1>5, <1>10, MeshCoreFresh DEF b
  <2>2. q = MeshCore!Goto(p, "WaitSync2")
    BY SMT, <2>1 DEF q, MeshCore!feed, MeshCore!AtSync, MeshCore!SYNC
  <2>3. q.state = "WaitSync2" /\ q.frame = << >>
    BY SMT, <1>4, <2>1, <2>2, MeshCoreGoto DEF MeshCore!States
  <2>4. MeshCoreAt(f, 1, q)
    BY SMT, <1>1, <1>6, <2>3 DEF MeshCoreAt
  <2> QED BY SMT, <1>1, <1>6, <1>8, <1>10, <2>1, <2>4
<1>11. CASE n = 1
  <2>1. p.state = "WaitSync2" /\ p.frame = << >> /\ b = \h55
    BY <1>3, <1>5, <1>11 DEF b
  <2>2. q = MeshCore!Goto(p, "WaitLenLow")
    BY SMT, <2>1 DEF q, MeshCore!feed, MeshCore!AtSync, MeshCore!SYNC
  <2>3. q.state = "WaitLenLow" /\ q.frame = << >>
    BY SMT, <1>4, <2>1, <2>2, MeshCoreGoto DEF MeshCore!States
  <2>4. MeshCoreAt(f, 2, q)
    BY SMT, <1>1, <1>6, <2>3 DEF MeshCoreAt
  <2> QED BY SMT, <1>1, <1>6, <1>8, <1>11, <2>1, <2>4
<1>12. CASE n = 2
  <2>1. p.state = "WaitLenLow" /\ p.frame = << >> /\ b = lo /\ lo \in 0 .. MaxLength
    BY <1>2, <1>3, <1>5, <1>12, Lengths DEF b
  <2> DEFINE g == MeshCore!Goto(p, "WaitLenHigh")
  <2>2. q = [g EXCEPT !.data_len = lo]
    BY SMT, <2>1 DEF q, MeshCore!feed, MeshCore!AtLength
  <2>3. g \in MeshCoreParsers /\ g.state = "WaitLenHigh" /\ g.frame = << >>
    BY SMT, <1>4, <2>1, MeshCoreGoto DEF MeshCore!States
  <2> HIDE DEF g
  <2>4. q.state = "WaitLenHigh" /\ q.frame = << >> /\ q.data_len = lo
    BY <2>1, <2>2, <2>3, MeshCoreLength, Zenon
  <2>5. MeshCoreAt(f, 3, q)
    BY SMT, <1>1, <1>6, <2>4 DEF MeshCoreAt, lo
  <2> QED BY SMT, <1>1, <1>6, <1>8, <1>12, <2>1, <2>5
<1>13. CASE n = 3
  <2>1. p.state = "WaitLenHigh" /\ p.frame = << >> /\ p.data_len = lo /\ b = hi
    BY <1>2, <1>3, <1>5, <1>13 DEF b
  <2>2. p.data_len + 256 * b = L - 2 /\ L - 2 \in 0 .. MaxLength /\ ~ (L - 2 > MaxData)
    <3>1. p.data_len + 256 * b = L - 2
      BY <1>2, <2>1, Zenon
    <3>2. MaxData \in Nat /\ MaxLength \in Nat
      BY SMT, Lengths DEF LimitsAssumption
    <3> QED BY SMT, <1>1, <3>1, <3>2
  <2> DEFINE g == MeshCore!Goto(p, "WaitCommand")
             l == L - 2
  <2>3. g \in MeshCoreParsers /\ g.state = "WaitCommand" /\ g.frame = << >> /\ g.data_len = p.data_len
    BY SMT, <1>4, <2>1, MeshCoreGoto DEF MeshCore!States
  <2>4. q = [g EXCEPT !.data_len = l]
    <3>1. q = [g EXCEPT !.data_len = g.data_len + 256 * b]
      <4>1. ~ (p.data_len + 256 * b > MaxData)
        BY <2>2, Zenon
      <4>2. /\ p.state = "WaitLenHigh" /\ p.state # "WaitLenLow"
            /\ p.state \notin {"WaitSync1", "WaitSync2"} /\ p.state \in {"WaitLenLow", "WaitLenHigh"}
        BY SMT, <2>1
      <4>3. q = MeshCore!AtLength(p, b)
        BY SMT, <2>1 DEF q, MeshCore!feed
      <4> QED BY <4>1, <4>2, <4>3, Zenon DEF MeshCore!AtLength
    <3> HIDE DEF g
    <3> QED BY <2>2, <2>3, <3>1, Zenon
  <2> HIDE DEF g, l
  <2>5. q.state = "WaitCommand" /\ q.frame = << >> /\ q.data_len = l
    <3>1. l \in 0 .. MaxLength
      BY <2>2, Zenon DEF l
    <3> QED BY <2>3, <2>4, <3>1, MeshCoreLength, Zenon
  <2>6. MeshCoreAt(f, 4, q)
    BY SMT, <1>1, <1>6, <2>5 DEF MeshCoreAt, l
  <2> QED BY SMT, <1>1, <1>6, <1>8, <1>13, <2>1, <2>6
<1>14. CASE n = 4
  <2>1. p.state = "WaitCommand" /\ p.frame = << >> /\ p.data_len = L - 2 /\ b = f[1] /\ b \in Bytes
    <3>1. e[5] = f[1] /\ f[1] \in Bytes
      BY SMT, <1>1, <1>3, <1>6
    <3> QED BY <1>5, <1>14, <3>1 DEF b
  <2> DEFINE c == MeshCore!Collect(p, b)
  <2>2. q = MeshCore!Goto(c, "WaitSequence")
    BY SMT, <2>1 DEF q, MeshCore!feed, MeshCore!AtFrame
  <2>3. c \in MeshCoreParsers /\ c.data_len = L - 2 /\ c.frame = Append(p.frame, b)
    BY <1>4, <2>1, MeshCoreCollect, Zenon
  <2> HIDE DEF c
  <2>4. q.state = "WaitSequence" /\ q.data_len = L - 2 /\ q.frame = <<f[1]>>
    BY SMT, <2>1, <2>2, <2>3, MeshCoreGoto DEF MeshCore!States
  <2>5. <<f[1]>> = SubSeq(f, 1, 5 - 4)
    BY SMT, <1>1, <1>6
  <2>6. MeshCoreAt(f, 5, q)
    BY SMT, <1>1, <1>6, <2>4, <2>5 DEF MeshCoreAt
  <2> QED BY SMT, <1>1, <1>6, <1>8, <1>14, <2>1, <2>6
<1>15. CASE n \in 5 .. L + 3
  <2> DEFINE k == n - 4
  <2>1. k \in 1 .. L - 1 /\ n = k + 4 /\ k + 1 \in 1 .. L /\ n + 1 = (k + 1) + 4 /\ k \in Nat
    BY SMT, <1>1, <1>15
  <2>2. /\ p.state \in {"WaitSequence", "WaitData"} /\ p.data_len = L - 2
        /\ p.frame = SubSeq(f, 1, k) /\ b = f[k + 1] /\ b \in Bytes
    <3>1. e[(k + 1) + 4] = f[k + 1] /\ f[k + 1] \in Bytes
      BY SMT, <1>3, <1>6, <2>1
    <3>2. b = e[(k + 1) + 4]
      BY <2>1, Zenon DEF b
    <3> QED BY <1>5, <1>15, <3>1, <3>2
  <2> HIDE DEF k
  <2> DEFINE c == MeshCore!Collect(p, b)
             s == IF (k + 1) - 2 >= L - 2 THEN "WaitCrcLow" ELSE "WaitData"
  <2>3. c \in MeshCoreParsers /\ c.data_len = L - 2 /\ c.frame = Append(SubSeq(f, 1, k), b)
    BY <1>4, <2>2, MeshCoreCollect, ZenonT(60)
  <2>4. c.frame = SubSeq(f, 1, k + 1) /\ Len(c.frame) = k + 1
    BY SMT, <1>6, <2>1, <2>2, <2>3
  <2>5. q = MeshCore!Goto(c, s)
    <3>1. q = MeshCore!AtFrame(p, b)
      BY SMT, <2>2 DEF q, MeshCore!feed
    <3>2. p.state # "WaitCommand"
      BY SMT, <2>2
    <3>3. q = IF Len(c.frame) - 2 >= p.data_len THEN MeshCore!Goto(c, "WaitCrcLow")
              ELSE MeshCore!Goto(c, "WaitData")
      BY <3>1, <3>2, Zenon DEF MeshCore!AtFrame
    <3> HIDE DEF c
    <3> QED BY <2>2, <2>4, <3>3, Zenon
  <2> HIDE DEF c
  <2>6. s \in MeshCore!States
    BY SMT DEF MeshCore!States
  <2> HIDE DEF s
  <2>7. q.state = s /\ q.data_len = L - 2 /\ q.frame = SubSeq(f, 1, k + 1)
    BY <2>3, <2>4, <2>5, <2>6, MeshCoreGoto, Zenon
  <2>8. CASE k + 1 = L
    <3>1. s = "WaitCrcLow" /\ SubSeq(f, 1, k + 1) = f
      BY SMT, <1>1, <1>6, <2>8 DEF s
    <3>2. MeshCoreAt(f, L + 4, q)
      BY SMTT(30), <1>1, <1>6, <2>7, <3>1 DEF MeshCoreAt
    <3> QED BY SMT, <1>1, <1>6, <1>8, <2>1, <2>2, <2>8, <3>2
  <2>9. CASE k + 1 # L
    <3>1. s = "WaitData" /\ n + 1 \in 6 .. L + 3 /\ (n + 1) - 4 = k + 1
      BY SMT, <1>1, <2>1, <2>9 DEF s
    <3>2. MeshCoreAt(f, n + 1, q)
      BY SMTT(30), <1>1, <1>6, <2>7, <3>1 DEF MeshCoreAt
    <3>3. n + 1 # L + 7 /\ p.state # "WaitEnd"
      BY SMT, <1>1, <2>1, <2>2
    <3> QED BY <1>6, <1>8, <3>2, <3>3, Zenon
  <2> QED BY <2>8, <2>9
<1>16. CASE n = L + 4
  <2>1. p.state = "WaitCrcLow" /\ p.frame = f /\ b = Low(crc)
    <3>1. n + 1 = L + 5
      BY SMT, <1>1, <1>16
    <3> QED BY <1>3, <1>5, <1>16, <3>1 DEF b
  <2> DEFINE g == MeshCore!Goto(p, "WaitCrcHigh")
             low == Low(crc)
  <2>2. q = [g EXCEPT !.crc_low = low]
    BY SMT, <2>1 DEF q, MeshCore!feed, MeshCore!AtCrc
  <2>3. g \in MeshCoreParsers /\ g.state = "WaitCrcHigh" /\ g.frame = f
    BY SMT, <1>4, <2>1, MeshCoreGoto DEF MeshCore!States
  <2>4. low \in Bytes
    BY <1>2, Zenon
  <2> HIDE DEF g, low
  <2>5. q.state = "WaitCrcHigh" /\ q.frame = f /\ q.crc_low = low
    BY <2>2, <2>3, <2>4, MeshCoreCrc, Zenon
  <2>6. MeshCoreAt(f, L + 5, q)
    BY SMT, <1>1, <1>6, <2>5 DEF MeshCoreAt, low, crc
  <2> QED BY SMT, <1>1, <1>6, <1>8, <1>16, <2>1, <2>6
<1>17. CASE n = L + 5
  <2>1. p.state = "WaitCrcHigh" /\ p.frame = f /\ p.crc_low = Low(crc) /\ b = High(crc)
    <3>1. n + 1 = L + 6
      BY SMT, <1>1, <1>17
    <3> QED BY <1>3, <1>5, <1>17, <3>1 DEF b
  <2>2. p.crc_low + 256 * b = Crc(p.frame)
    BY <1>2, <2>1, Zenon DEF crc
  <2>3. q = MeshCore!Goto(p, "WaitEnd")
    <3>1. q = MeshCore!AtCrc(p, b)
      BY SMT, <2>1 DEF q, MeshCore!feed
    <3>2. p.state # "WaitCrcLow"
      BY SMT, <2>1
    <3> QED BY <2>2, <3>1, <3>2, Zenon DEF MeshCore!AtCrc
  <2>4. q.state = "WaitEnd" /\ q.frame = f
    BY SMT, <1>4, <2>1, <2>3, MeshCoreGoto DEF MeshCore!States
  <2>5. MeshCoreAt(f, L + 6, q)
    BY SMT, <1>1, <1>6, <2>4 DEF MeshCoreAt
  <2> QED BY SMT, <1>1, <1>6, <1>8, <1>17, <2>1, <2>5
<1>18. CASE n = L + 6
  <2>1. p.state = "WaitEnd" /\ p.frame = f /\ b = \h0D /\ n + 1 = L + 7
    <3>1. n + 1 = L + 7
      BY SMT, <1>1, <1>18
    <3> QED BY <1>3, <1>5, <1>18, <3>1 DEF b
  <2>2. q = MeshCore!Fresh
    BY SMT, <2>1 DEF q, MeshCore!feed
  <2>3. MeshCoreAt(f, L + 7, q)
    BY SMT, <1>1, <1>6, <2>2 DEF MeshCoreAt
  <2>4. MeshCore!Completes(p, b)
    BY <1>1, <2>1, Zenon DEF MeshCore!Completes, MeshCore!END
  <2> QED BY <1>6, <2>1, <2>3, <2>4, Zenon
<1> HIDE DEF After
<1> QED BY <1>7, <1>10, <1>11, <1>12, <1>13, <1>14, <1>15, <1>16, <1>17, <1>18, Zenon

LEMMA MeshtasticReads ==
    ASSUME LimitsAssumption, NEW f \in Seq(Bytes), Fits("Meshtastic", f),
           NEW n \in 0 .. Len(f) + 3, NEW p, MeshtasticInv(p), MeshtasticAt(f, n, p)
    PROVE  LET b == Meshtastic!encode(f)[n + 1]
           IN  /\ MeshtasticAt(f, n + 1, Meshtastic!feed(p, b))
               /\ Meshtastic!Completes(p, b) <=> n + 1 = Len(f) + 4
               /\ Meshtastic!Completes(p, b) => Meshtastic!Completed(p, b) = f
<1> DEFINE L == Len(f)
           e == Meshtastic!encode(f)
           b == e[n + 1]
           q == Meshtastic!feed(p, b)
           lo == Low(L)
           hi == High(L)
<1>1. /\ L \in Nat /\ L <= MaxPayload /\ L <= MaxLength /\ L \in Words
  <2>1. L \in Nat /\ L <= MaxPayload /\ L <= MaxLength
    BY MeshtasticFits, Zenon
  <2> QED BY <2>1, WordsOf, Zenon
<1>2. lo \in Bytes /\ hi \in Bytes /\ lo + 256 * hi = L
  BY <1>1, LowHigh, Zenon
<1>3. /\ e[1] = \h94 /\ e[2] = \hC3 /\ e[3] = hi /\ e[4] = lo
      /\ \A i \in 1 .. L : e[i + 4] = f[i]
  <2>1. /\ e[1] = \h94 /\ e[2] = \hC3 /\ e[3] = L \div 256 /\ e[4] = L % 256
        /\ \A i \in 1 .. L : e[i + 4] = f[i]
    <3>1. Len(f) <= MaxLength
      BY <1>1, Zenon
    <3> HIDE DEF lo, hi
    <3> QED BY <3>1, MeshtasticEncoded, ZenonT(90)
  <2> HIDE DEF e
  <2> QED BY <2>1, Zenon DEF Low, High
<1>4. p \in MeshtasticParsers
  BY Zenon DEF MeshtasticInv
<1>5. /\ n \in {0, L + 4} => p = Meshtastic!Fresh
      /\ n = 1 => p.state = "WaitSync2" /\ p.frame = << >>
      /\ n = 2 => p.state = "WaitLenHigh" /\ p.frame = << >>
      /\ n = 3 => p.state = "WaitLenLow" /\ p.payload_len = 256 * hi /\ p.frame = << >>
      /\ n \in 4 .. L + 3 => /\ p.state = "WaitPayload" /\ p.payload_len = L
                             /\ p.frame = SubSeq(f, 1, n - 4)
  BY Zenon DEF MeshtasticAt
<1>6. L = Len(f)
  BY Zenon
<1> DEFINE After == /\ MeshtasticAt(f, n + 1, q)
                    /\ Meshtastic!Completes(p, b) <=> n + 1 = Len(f) + 4
                    /\ Meshtastic!Completes(p, b) => Meshtastic!Completed(p, b) = f
<1> SUFFICES After
  BY Zenon
<1> HIDE DEF e, lo, hi, L
<1>7. /\ n \in Nat /\ n + 1 \in Nat
      /\ n = 0 \/ n = 1 \/ n = 2 \/ n = 3 \/ n \in 4 .. L + 3
  BY SMT, <1>1, <1>6
<1>8. p.state \notin {"WaitLenLow", "WaitPayload"} => ~ Meshtastic!Completes(p, b)
  BY SMT DEF Meshtastic!Completes
<1> HIDE DEF q, b
<1>10. CASE n = 0
  <2>1. p.state = "WaitSync1" /\ p.frame = << >> /\ b = \h94
    BY <1>3, <1>5, <1>10, MeshtasticFresh DEF b
  <2>2. q = Meshtastic!Goto(p, "WaitSync2")
    BY SMT, <2>1 DEF q, Meshtastic!feed, Meshtastic!AtSync, Meshtastic!SERIAL_SYNC
  <2>3. q.state = "WaitSync2" /\ q.frame = << >>
    BY SMT, <1>4, <2>1, <2>2, MeshtasticGoto DEF Meshtastic!States
  <2>4. MeshtasticAt(f, 1, q)
    BY SMT, <1>1, <1>6, <2>3 DEF MeshtasticAt
  <2> QED BY SMT, <1>1, <1>6, <1>8, <1>10, <2>1, <2>4
<1>11. CASE n = 1
  <2>1. p.state = "WaitSync2" /\ p.frame = << >> /\ b = \hC3
    BY <1>3, <1>5, <1>11 DEF b
  <2>2. q = Meshtastic!Goto(p, "WaitLenHigh")
    BY SMT, <2>1 DEF q, Meshtastic!feed, Meshtastic!AtSync, Meshtastic!SERIAL_SYNC
  <2>3. q.state = "WaitLenHigh" /\ q.frame = << >>
    BY SMT, <1>4, <2>1, <2>2, MeshtasticGoto DEF Meshtastic!States
  <2>4. MeshtasticAt(f, 2, q)
    BY SMT, <1>1, <1>6, <2>3 DEF MeshtasticAt
  <2> QED BY SMT, <1>1, <1>6, <1>8, <1>11, <2>1, <2>4
<1>12. CASE n = 2
  <2> DEFINE g == Meshtastic!Goto(p, "WaitLenLow")
             h == 256 * hi
  <2>1. p.state = "WaitLenHigh" /\ p.frame = << >> /\ b = hi /\ h \in 0 .. MaxLength
    BY <1>2, <1>3, <1>5, <1>12, Lengths DEF b
  <2>2. q = [g EXCEPT !.payload_len = h]
    BY SMT, <2>1 DEF q, Meshtastic!feed, Meshtastic!AtLength
  <2>3. g \in MeshtasticParsers /\ g.state = "WaitLenLow" /\ g.frame = << >>
    BY SMT, <1>4, <2>1, MeshtasticGoto DEF Meshtastic!States
  <2> HIDE DEF g, h
  <2>4. q.state = "WaitLenLow" /\ q.frame = << >> /\ q.payload_len = h
    BY <2>1, <2>2, <2>3, MeshtasticLength, Zenon
  <2>5. MeshtasticAt(f, 3, q)
    BY SMT, <1>1, <1>6, <2>4 DEF MeshtasticAt, h, hi
  <2> QED BY SMT, <1>1, <1>6, <1>8, <1>12, <2>1, <2>5
<1>13. CASE n = 3
  <2>1. p.state = "WaitLenLow" /\ p.frame = << >> /\ p.payload_len = 256 * hi /\ b = lo
    BY <1>2, <1>3, <1>5, <1>13 DEF b
  <2>2. p.payload_len + b = L /\ L \in 0 .. MaxLength /\ ~ (p.payload_len + b > MaxPayload)
    <3>1. p.payload_len + b = L
      BY SMT, <1>2, <2>1 DEF Bytes
    <3>2. MaxPayload \in Nat /\ MaxLength \in Nat
      BY SMT, Lengths DEF LimitsAssumption
    <3> QED BY SMT, <1>1, <3>1, <3>2
  <2>3. q = Meshtastic!AtLength(p, b) /\ p.state # "WaitLenHigh"
    BY SMT, <2>1 DEF q, Meshtastic!feed
  <2>4. CASE L = 0
    <3>1. q = Meshtastic!Fresh
      BY <2>2, <2>3, <2>4, Zenon DEF Meshtastic!AtLength
    <3>2. f = << >>
      BY <1>6, <2>4, EmptySeq
    <3>3. Meshtastic!Completes(p, b) /\ Meshtastic!Completed(p, b) = f
      BY <2>1, <2>2, <2>4, <3>2, Zenon DEF Meshtastic!Completes, Meshtastic!Completed
    <3>4. MeshtasticAt(f, 4, q)
      BY SMT, <1>6, <2>4, <3>1 DEF MeshtasticAt
    <3> QED BY SMT, <1>6, <1>13, <2>4, <3>3, <3>4
  <2>5. CASE L # 0
    <3> DEFINE g == Meshtastic!Goto(p, "WaitPayload")
    <3>1. /\ g \in MeshtasticParsers /\ g.state = "WaitPayload" /\ g.frame = << >>
          /\ g.payload_len = p.payload_len
      BY SMT, <1>4, <2>1, MeshtasticGoto DEF Meshtastic!States
    <3>2. q = [g EXCEPT !.payload_len = L]
      <4>1. q = [g EXCEPT !.payload_len = g.payload_len + b]
        BY <2>2, <2>3, <2>5, Zenon DEF Meshtastic!AtLength
      <4> HIDE DEF g
      <4> QED BY <2>2, <3>1, <4>1, Zenon
    <3> HIDE DEF g
    <3>3. q.state = "WaitPayload" /\ q.frame = << >> /\ q.payload_len = L
      BY <2>2, <3>1, <3>2, MeshtasticLength, Zenon
    <3>4. MeshtasticAt(f, 4, q)
      BY SMT, <1>1, <1>6, <2>5, <3>3 DEF MeshtasticAt
    <3>5. ~ Meshtastic!Completes(p, b)
      <4>1. p.payload_len + b # 0 /\ p.state # "WaitPayload"
        BY SMT, <2>1, <2>2, <2>5
      <4> QED BY <4>1, Zenon DEF Meshtastic!Completes
    <3> QED BY SMT, <1>1, <1>6, <1>13, <2>5, <3>4, <3>5
  <2> QED BY <2>4, <2>5
<1>14. CASE n \in 4 .. L + 3
  <2> DEFINE k == n - 4
  <2>1. k \in 0 .. L - 1 /\ n = k + 4 /\ k + 1 \in 1 .. L /\ n + 1 = (k + 1) + 4 /\ k \in Nat
    BY SMT, <1>1, <1>14
  <2>2. /\ p.state = "WaitPayload" /\ p.payload_len = L
        /\ p.frame = SubSeq(f, 1, k) /\ b = f[k + 1] /\ b \in Bytes
    <3>1. e[(k + 1) + 4] = f[k + 1] /\ f[k + 1] \in Bytes
      BY SMT, <1>3, <1>6, <2>1
    <3>2. b = e[(k + 1) + 4]
      BY <2>1, Zenon DEF b
    <3> QED BY <1>5, <1>14, <3>1, <3>2
  <2> HIDE DEF k
  <2>3. Len(p.frame) = k /\ Append(p.frame, b) = SubSeq(f, 1, k + 1)
    BY SMT, <1>6, <2>1, <2>2
  <2>4. q = Meshtastic!AtPayload(p, b)
    BY SMT, <2>2 DEF q, Meshtastic!feed
  <2>5. CASE k + 1 = L
    <3>1. q = Meshtastic!Fresh
      BY SMT, <1>1, <2>2, <2>3, <2>4, <2>5 DEF Meshtastic!AtPayload
    <3>2. SubSeq(f, 1, k + 1) = f
      BY SMT, <1>6, <2>5
    <3>3. MeshtasticAt(f, L + 4, q)
      BY SMT, <1>1, <1>6, <3>1 DEF MeshtasticAt
    <3>4. Meshtastic!Completes(p, b)
      <4>1. Len(p.frame) + 1 >= p.payload_len
        <5>1. Len(p.frame) + 1 = L
          BY <2>3, <2>5, Zenon
        <5>2. L >= L
          BY SMT, <1>1
        <5> QED BY <2>2, <5>1, <5>2, Zenon
      <4> QED BY <2>2, <4>1, Zenon DEF Meshtastic!Completes
    <3>5. Meshtastic!Completed(p, b) = f
      <4>1. p.state # "WaitLenLow"
        BY SMT, <2>2
      <4> QED BY <2>3, <3>2, <4>1, Zenon DEF Meshtastic!Completed
    <3> QED BY SMT, <1>6, <2>1, <2>5, <3>3, <3>4, <3>5
  <2>6. CASE k + 1 # L
    <3>1. Len(p.frame) + 1 = k + 1 /\ ~ (k + 1 >= L)
      BY SMT, <1>1, <2>1, <2>3, <2>6
    <3> DEFINE x == Append(p.frame, b)
               r == [p EXCEPT !.frame = Append(@, b)]
    <3>2. q = r
      BY <2>2, <2>4, <3>1, Zenon DEF Meshtastic!AtPayload
    <3>3. r.state = "WaitPayload" /\ r.payload_len = L /\ r.frame = SubSeq(f, 1, k + 1)
      BY <1>4, <2>2, <2>3, MeshtasticCollect, Zenon
    <3> HIDE DEF r
    <3>4. n + 1 \in 4 .. L + 3 /\ (n + 1) - 4 = k + 1
      BY SMT, <1>1, <2>1, <2>6
    <3>5. MeshtasticAt(f, n + 1, q)
      BY SMT, <1>1, <1>6, <3>2, <3>3, <3>4 DEF MeshtasticAt
    <3>6. ~ Meshtastic!Completes(p, b)
      <4>1. p.state # "WaitLenLow"
        BY SMT, <2>2
      <4> QED BY <2>2, <3>1, <4>1, Zenon DEF Meshtastic!Completes
    <3> QED BY SMT, <1>1, <1>6, <3>4, <3>5, <3>6
  <2> QED BY <2>5, <2>6
<1> HIDE DEF After
<1> QED BY <1>7, <1>10, <1>11, <1>12, <1>13, <1>14, Zenon

\* What a KISS frame grows to, byte by byte.
LEMMA UptoGrows ==
    ASSUME NEW f \in Seq(Bytes), f # << >>, NEW k \in 0 .. Len(f) - 1
    PROVE  /\ Upto(f, k) \in Nat /\ Upto(f, k + 1) \in Nat /\ Upto(f, Len(f)) \in Nat
           /\ Upto(f, k + 1) <= Upto(f, Len(f))
           /\ Upto(f, k + 1) = Upto(f, k) + Len(Kiss!escape_byte(f[k + 1]))
           /\ f[k + 1] \in Bytes
<1>1. Len(f) \in Nat /\ Len(f) # 0 /\ k + 1 \in 1 .. Len(f) /\ (k + 1) - 1 = k
      /\ Len(f) \in k + 1 .. Len(f) /\ Len(f) \in 1 .. Len(f) /\ f[k + 1] \in Bytes
  <2>1. Len(f) \in Nat /\ Len(f) # 0
    BY PiecesOf, SMT
  <2> QED BY SMT, <2>1
<1> DEFINE m == k + 1
<1>2. m \in 1 .. Len(f) /\ Len(f) \in m .. Len(f) /\ m - 1 = k
  BY <1>1, Zenon
<1> HIDE DEF m
<1>3. Upto(f, m) <= Upto(f, Len(f))
  BY <1>2, UptoKeeps, Zenon
<1>4. /\ Upto(f, m - 1) \in Nat
      /\ Upto(f, m) = Upto(f, m - 1) + Len(Kiss!escape_byte(f[m]))
  BY <1>2, UptoNext, Zenon
<1>5. Upto(f, Len(f)) \in Nat /\ Upto(f, m) \in Nat
  <2>1. \A i \in 1 .. Len(f) : Upto(f, i) \in Nat
    <3> TAKE i \in 1 .. Len(f)
    <3>1. Flat(Pieces(f))[i] \in Seq(Bytes) /\ Upto(f, i) = Len(Flat(Pieces(f))[i])
      BY UptoNext, Zenon
    <3> QED BY SMT, <3>1
  <2> QED BY <1>1, <1>2, <2>1, Zenon
<1> QED BY <1>1, <1>2, <1>3, <1>4, <1>5, Zenon DEF m

LEMMA KissReads ==
    ASSUME LimitsAssumption, NEW f \in Seq(Bytes), Fits("RNode", f),
           NEW n \in 0 .. 1 + Upto(f, Len(f)), NEW p, KissInv(p), KissAt(f, n, p)
    PROVE  LET b == Kiss!encode(f)[n + 1]
           IN  /\ KissAt(f, n + 1, Kiss!feed(p, b))
               /\ Kiss!Completes(p, b) <=> n + 1 = 2 + Upto(f, Len(f))
               /\ Kiss!Completes(p, b) => p.frame = f
<1> DEFINE L == Len(f)
           e == Kiss!encode(f)
           b == e[n + 1]
           q == Kiss!feed(p, b)
           After == /\ KissAt(f, n + 1, q)
                    /\ Kiss!Completes(p, b) <=> n + 1 = 2 + Upto(f, Len(f))
                    /\ Kiss!Completes(p, b) => p.frame = f
<1>1. /\ L \in Nat /\ L >= 1 /\ L <= MaxKissData + 1 /\ f # << >>
      /\ f[1] \notin {Kiss!FEND, Kiss!FESC}
  BY KissFits, Zenon
<1>2. /\ e[1] = Kiss!FEND /\ e[2 + Upto(f, L)] = Kiss!FEND
      /\ \A k \in 1 .. L : \A j \in 1 .. Len(Kiss!escape_byte(f[k])) :
            e[1 + Upto(f, k - 1) + j] = Kiss!escape_byte(f[k])[j]
  BY <1>1, KissEncoded, Zenon
<1>3. \A k \in 0 .. L - 1 :
         /\ Upto(f, k) \in Nat /\ Upto(f, k + 1) \in Nat /\ Upto(f, L) \in Nat
         /\ Upto(f, k + 1) <= Upto(f, L)
         /\ Upto(f, k + 1) = Upto(f, k) + Len(Kiss!escape_byte(f[k + 1]))
         /\ f[k + 1] \in Bytes
  BY <1>1, UptoGrows, Zenon
<1>4. p \in KissParsers /\ Len(p.frame) <= MaxKissData + 1 /\ MaxKissData \in Nat
  BY Zenon DEF KissInv, LimitsAssumption
<1>5. Upto(f, 0) = 0 /\ Upto(f, L) \in Nat /\ n \in Nat /\ n < 2 + Upto(f, L)
  <2>1. Upto(f, 0) = 0
    BY SMT DEF Upto
  <2>2. 0 \in 0 .. L - 1
    BY SMT, <1>1
  <2>3. Upto(f, L) \in Nat
    BY <1>3, <2>2, Zenon
  <2> QED BY SMT, <2>1, <2>3
<1> SUFFICES After
  BY Zenon
<1> HIDE DEF e, b, q
<1>6. CASE n \in {0, 2 + Upto(f, L)} /\ p = Kiss!Fresh
  <2>1. n = 0 /\ n + 1 = 1
    BY SMT, <1>5, <1>6
  <2>2. b = Kiss!FEND
    BY <1>2, <2>1, Zenon DEF b
  <2>3. p.state = "WaitStart" /\ q = [Kiss!Fresh EXCEPT !.state = "WaitCommand"]
    BY SMT, <1>6, <2>2 DEF q, Kiss!feed, Kiss!AtStart, Kiss!Fresh
  <2>4. q.state = "WaitCommand" /\ q.frame = << >> /\ SubSeq(f, 1, 0) = << >>
    BY SMT, <2>3 DEF Kiss!Fresh
  <2>5. KissAt(f, 1, q)
    <3>1. 0 \in 0 .. Len(f) /\ 1 = 1 + Upto(f, 0)
      BY SMT, <1>1, <1>5
    <3> QED BY SMT, <2>4, <3>1 DEF KissAt
  <2> QED BY SMT, <1>5, <2>1, <2>3, <2>5 DEF Kiss!Completes
<1>7. ASSUME NEW k \in 0 .. L, n = 1 + Upto(f, k),
             p.state = (IF k = 0 THEN "WaitCommand" ELSE "ReadData"), p.frame = SubSeq(f, 1, k)
      PROVE  After
  <2>1. CASE k = L
    <3>1. p.state = "ReadData" /\ p.frame = f
      BY SMT, <1>1, <1>7, <2>1
    <3>2. n + 1 = 2 + Upto(f, L)
      BY SMT, <1>5, <1>7, <2>1
    <3>3. b = Kiss!FEND
      BY <1>2, <3>2, Zenon DEF b
    <3>4. q = Kiss!Fresh
      BY SMT, <3>1, <3>3 DEF q, Kiss!feed, Kiss!AtData, Kiss!FEND, Kiss!FESC
    <3>5. Kiss!Completes(p, b)
      BY SMT, <3>1, <3>3 DEF Kiss!Completes
    <3>6. KissAt(f, n + 1, q)
      BY <3>2, <3>4, Zenon DEF KissAt
    <3> QED BY <3>1, <3>2, <3>5, <3>6, Zenon
  <2>2. CASE k # L
    <3> DEFINE c == f[k + 1]
    <3>1. k \in 0 .. L - 1 /\ k + 1 \in 1 .. L /\ (k + 1) - 1 = k /\ k \in Nat
      BY SMT, <1>1, <1>7, <2>2
    <3>2. /\ Upto(f, k) \in Nat /\ Upto(f, k + 1) \in Nat /\ Upto(f, k + 1) <= Upto(f, L)
          /\ Upto(f, k + 1) = Upto(f, k) + Len(Kiss!escape_byte(c)) /\ c \in Bytes
      BY <1>3, <3>1, Zenon
    <3>3. \A j \in 1 .. Len(Kiss!escape_byte(c)) :
             e[1 + Upto(f, k) + j] = Kiss!escape_byte(c)[j]
      BY <1>2, <3>1, Zenon
    <3> HIDE DEF c
    <3>4. /\ Len(Kiss!escape_byte(c)) \in {1, 2}
          /\ c \notin {Kiss!FEND, Kiss!FESC} =>
                Len(Kiss!escape_byte(c)) = 1 /\ Kiss!escape_byte(c)[1] = c
          /\ c \in {Kiss!FEND, Kiss!FESC} =>
                Len(Kiss!escape_byte(c)) = 2 /\ Kiss!escape_byte(c)[1] = Kiss!FESC
      BY <3>2, Escaped, Zenon
    <3>5. b = Kiss!escape_byte(c)[1]
      <4>1. 1 \in 1 .. Len(Kiss!escape_byte(c)) /\ n + 1 = 1 + Upto(f, k) + 1
        BY SMT, <1>5, <1>7, <3>2, <3>4
      <4> QED BY <3>3, <4>1, Zenon DEF b
    <3>6. n + 1 # 2 + Upto(f, Len(f)) /\ n + 1 = 2 + Upto(f, k)
      <4> DEFINE m == Len(Kiss!escape_byte(c))
      <4>1. m \in {1, 2} /\ Upto(f, k + 1) = Upto(f, k) + m
        BY <3>2, <3>4, Zenon
      <4> HIDE DEF m
      <4> QED BY SMTT(30), <1>5, <1>7, <3>2, <4>1
    <3>7. CASE c \in {Kiss!FEND, Kiss!FESC}
      <4>1. k # 0 /\ k \in 1 .. Len(f) - 1
        <5>1. k = 0 => c = f[1]
          BY SMT DEF c
        <5>2. k # 0
          BY <1>1, <3>7, <5>1, Zenon
        <5> QED BY SMT, <3>1, <5>2
      <4>2. p.state = "ReadData" /\ b = Kiss!FESC
        BY <1>7, <3>4, <3>5, <3>7, <4>1, Zenon
      <4>3. q = [p EXCEPT !.state = "Escape"] /\ b # Kiss!FEND
        BY SMT, <4>2 DEF q, Kiss!feed, Kiss!AtData, Kiss!FESC, Kiss!FEND
      <4>4. q.state = "Escape" /\ q.frame = SubSeq(f, 1, k)
        BY SMT, <1>4, <1>7, <4>3 DEF KissParsers
      <4>5. KissAt(f, n + 1, q)
        BY <3>6, <3>7, <4>1, <4>4, Zenon DEF KissAt, c
      <4>6. ~ Kiss!Completes(p, b)
        BY <4>3, Zenon DEF Kiss!Completes
      <4> QED BY <3>6, <4>5, <4>6, Zenon
    <3>8. CASE c \notin {Kiss!FEND, Kiss!FESC}
      <4>1. b = c /\ b \notin {Kiss!FEND, Kiss!FESC} /\ n + 1 = 1 + Upto(f, k + 1)
        <5>1. b = c /\ Len(Kiss!escape_byte(c)) = 1
          BY <3>4, <3>5, <3>8, Zenon
        <5>2. n + 1 = 1 + Upto(f, k + 1)
          BY SMT, <3>2, <3>6, <5>1
        <5> QED BY <3>8, <5>1, <5>2, Zenon
      <4>2. Append(SubSeq(f, 1, k), f[k + 1]) = SubSeq(f, 1, k + 1) /\ Len(SubSeq(f, 1, k)) = k
        BY SMT, <1>1, <3>1
      <4>3. q.state = "ReadData" /\ q.frame = SubSeq(f, 1, k + 1)
        <5>1. CASE k = 0
          <6>1. p.state = "WaitCommand"
            BY <1>7, <5>1, Zenon
          <6>2. q = [state |-> "ReadData", frame |-> <<b>>]
            BY SMT, <4>1, <6>1 DEF q, Kiss!feed, Kiss!AtCommand
          <6>3. <<b>> = SubSeq(f, 1, k + 1)
            BY SMT, <1>1, <4>1, <5>1 DEF c
          <6> QED BY <6>2, <6>3, Zenon
        <5>2. CASE k # 0
          <6>1. p.state = "ReadData"
            BY <1>7, <5>2, Zenon
          <6>2. q = [p EXCEPT !.frame = Kiss!Push(@, b)]
            BY SMT, <4>1, <6>1 DEF q, Kiss!feed, Kiss!AtData
          <6>3. q.state = "ReadData" /\ q.frame = Kiss!Push(p.frame, b)
            <7> DEFINE x == Kiss!Push(p.frame, b)
            <7>1. q = [p EXCEPT !.frame = x]
              BY <6>2, Zenon
            <7> HIDE DEF x
            <7>2. q.state = "ReadData" /\ q.frame = x
              BY SMT, <1>4, <6>1, <7>1 DEF KissParsers
            <7> QED BY <7>2, Zenon DEF x
          <6>4. Len(p.frame) <= MaxKissData
            BY SMT, <1>1, <1>4, <1>7, <3>1, <4>2
          <6>5. Kiss!Push(p.frame, b) = Append(p.frame, b)
            BY <6>4, Zenon DEF Kiss!Push
          <6> QED BY <1>7, <4>1, <4>2, <6>3, <6>5, Zenon DEF c
        <5> QED BY <5>1, <5>2
      <4>4. KissAt(f, n + 1, q)
        <5>1. k + 1 \in 0 .. Len(f) /\ k + 1 # 0
          BY SMT, <1>1, <3>1
        <5> QED BY <4>1, <4>3, <5>1, Zenon DEF KissAt
      <4>5. ~ Kiss!Completes(p, b)
        BY SMT, <4>1 DEF Kiss!Completes
      <4> QED BY <3>6, <4>4, <4>5, Zenon
    <3> QED BY <3>7, <3>8
  <2> QED BY <2>1, <2>2
<1>8. ASSUME NEW k \in 1 .. L - 1, n = 2 + Upto(f, k), f[k + 1] \in {Kiss!FEND, Kiss!FESC},
             p.state = "Escape", p.frame = SubSeq(f, 1, k)
      PROVE  After
  <2> DEFINE c == f[k + 1]
  <2>1. k \in 0 .. L - 1 /\ k + 1 \in 1 .. L /\ (k + 1) - 1 = k /\ k \in Nat
    BY SMT, <1>1, <1>8
  <2>2. /\ Upto(f, k) \in Nat /\ Upto(f, k + 1) \in Nat /\ Upto(f, k + 1) <= Upto(f, L)
        /\ Upto(f, k + 1) = Upto(f, k) + Len(Kiss!escape_byte(c)) /\ c \in Bytes
    BY <1>3, <2>1, Zenon
  <2>3. \A j \in 1 .. Len(Kiss!escape_byte(c)) :
           e[1 + Upto(f, k) + j] = Kiss!escape_byte(c)[j]
    BY <1>2, <2>1, Zenon
  <2>4. Append(SubSeq(f, 1, k), c) = SubSeq(f, 1, k + 1) /\ Len(SubSeq(f, 1, k)) = k
    BY SMT, <1>1, <2>1
  <2> HIDE DEF c
  <2>5. /\ c \in {Kiss!FEND, Kiss!FESC} /\ Len(Kiss!escape_byte(c)) = 2
        /\ Kiss!escape_byte(c)[2] = IF c = Kiss!FEND THEN Kiss!TFEND ELSE Kiss!TFESC
    BY <1>8, <2>2, Escaped, Zenon DEF c
  <2>6. b = IF c = Kiss!FEND THEN Kiss!TFEND ELSE Kiss!TFESC
    <3>1. 2 \in 1 .. Len(Kiss!escape_byte(c)) /\ n + 1 = 1 + Upto(f, k) + 2
      BY SMT, <1>5, <1>8, <2>2, <2>5
    <3> QED BY <2>3, <2>5, <3>1, Zenon DEF b
  <2>7. n + 1 # 2 + Upto(f, Len(f)) /\ n + 1 = 1 + Upto(f, k + 1)
    BY SMT, <1>5, <1>8, <2>2, <2>5
  <2>8. q = [state |-> "ReadData", frame |-> Kiss!Push(p.frame, c)]
    <3> DEFINE u == IF b = Kiss!TFEND THEN Kiss!FEND ELSE IF b = Kiss!TFESC THEN Kiss!FESC ELSE b
    <3>1. u = c
      BY SMT, <2>5, <2>6 DEF Kiss!TFEND, Kiss!TFESC, Kiss!FEND, Kiss!FESC
    <3>2. q = Kiss!AtEscape(p, b)
      BY SMT, <1>8 DEF q, Kiss!feed
    <3> QED BY <3>1, <3>2, Zenon DEF Kiss!AtEscape
  <2>9. Kiss!Push(p.frame, c) = SubSeq(f, 1, k + 1)
    <3>1. Len(p.frame) <= MaxKissData
      BY SMT, <1>1, <1>4, <1>8, <2>1, <2>4
    <3> QED BY <1>8, <2>4, <3>1, Zenon DEF Kiss!Push
  <2>10. KissAt(f, n + 1, q)
    <3>1. k + 1 \in 0 .. Len(f) /\ k + 1 # 0
      BY SMT, <1>1, <2>1
    <3>2. q.state = "ReadData" /\ q.frame = SubSeq(f, 1, k + 1)
      BY <2>8, <2>9, Zenon
    <3> QED BY <2>7, <3>1, <3>2, Zenon DEF KissAt
  <2>11. ~ Kiss!Completes(p, b)
    BY SMT, <1>8 DEF Kiss!Completes
  <2> QED BY <2>7, <2>10, <2>11, Zenon
<1> HIDE DEF After
<1> QED BY <1>6, <1>7, <1>8, Zenon DEF KissAt

LEMMA AtReads ==
    ASSUME LimitsAssumption, NEW f \in Seq(Bytes), Fits("AtCommand", f),
           NEW n \in 0 .. Len(f) + 1
    PROVE  LET e == f \o <<CR, LF>>
               b == e[n + 1]
               p == AtAt(f, n)
           IN  /\ FeedAt(p, b) = AtAt(f, n + 1)
               /\ (b \in {CR, LF} /\ p # << >>) <=> n + 1 = Len(f) + 1
               /\ b \in {CR, LF} /\ p # << >> => p = f
<1> DEFINE L == Len(f)
           e == f \o <<CR, LF>>
           b == e[n + 1]
           p == AtAt(f, n)
<1>1. L \in Nat /\ L >= 2 /\ L <= AtCapacity /\ \A i \in 1 .. L : f[i] \in \h20 .. \h7E
  <2>1. /\ Len(f) \in 2 .. AtCapacity
        /\ \A i \in DOMAIN f : f[i] \in \h20 .. \h7E
    BY SMT DEF Fits
  <2>2. AtCapacity \in Nat
    BY Zenon DEF LimitsAssumption
  <2>3. DOMAIN f = 1 .. L
    BY SMT
  <2>4. L \in Nat /\ L >= 2 /\ L <= AtCapacity
    BY SMT, <2>1, <2>2
  <2> QED BY <2>1, <2>3, <2>4, Zenon
<1>2. /\ \A i \in 1 .. L : e[i] = f[i]
      /\ e[L + 1] = CR /\ e[L + 2] = LF
  BY AtEncoded, Zenon
<1>3. AtCapacity \in Nat
  BY Zenon DEF LimitsAssumption
<1> HIDE DEF e
<1>4. CASE n \in 0 .. L - 1
  <2>1. n + 1 \in 1 .. L /\ n <= L /\ n + 1 <= L /\ n \in Nat /\ n + 1 # L + 1
    BY SMT, <1>1, <1>4
  <2>2. b = f[n + 1] /\ b \in \h20 .. \h7E
    BY <1>1, <1>2, <2>1, Zenon
  <2>3. p = SubSeq(f, 1, n) /\ AtAt(f, n + 1) = SubSeq(f, 1, n + 1)
    BY <2>1, Zenon DEF AtAt
  <2>4. Len(p) = n /\ Append(p, b) = SubSeq(f, 1, n + 1)
    BY SMT, <1>1, <2>1, <2>2, <2>3
  <2> HIDE DEF b, p
  <2>5. b \notin {CR, LF} /\ Len(p) < AtCapacity
    <3>1. b \notin {CR, LF}
      <4> DEFINE first == \h20
                 last == \h7E
      <4>1. first \in Int /\ last \in Int /\ first > CR /\ first > LF /\ CR \in Int /\ LF \in Int
        BY SMT DEF CR, LF
      <4>2. b \in first .. last
        BY <2>2, Zenon
      <4> HIDE DEF first, last
      <4> QED BY SMT, <4>1, <4>2
    <3>2. Len(p) < AtCapacity
      BY SMT, <1>1, <1>3, <2>1, <2>4
    <3> QED BY <3>1, <3>2, Zenon
  <2>6. FeedAt(p, b) = Append(p, b)
    BY <2>2, <2>5, Zenon DEF FeedAt
  <2> QED BY <2>1, <2>3, <2>4, <2>5, <2>6, Zenon DEF b, p, e
<1>5. CASE n = L
  <2>1. b = CR /\ p = f /\ f # << >> /\ AtAt(f, n + 1) = << >>
    <3>1. SubSeq(f, 1, L) = f /\ f # << >>
      BY SMT, <1>1
    <3>2. n <= L /\ ~ (n + 1 <= L)
      BY SMT, <1>1, <1>5
    <3> QED BY <1>2, <1>5, <3>1, <3>2, Zenon DEF AtAt
  <2>2. FeedAt(p, b) = << >>
    BY <2>1, Zenon DEF FeedAt
  <2> QED BY <1>5, <2>1, <2>2, Zenon DEF e
<1>6. CASE n = L + 1
  <2>1. n + 1 = L + 2 /\ ~ (n <= L) /\ ~ (n + 1 <= L) /\ n + 1 # L + 1
    BY SMT, <1>1, <1>6
  <2>2. b = LF /\ p = << >> /\ AtAt(f, n + 1) = << >>
    BY <1>2, <2>1, Zenon DEF AtAt
  <2>3. FeedAt(p, b) = << >>
    BY <2>2, Zenon DEF FeedAt
  <2> QED BY <2>1, <2>2, <2>3, Zenon DEF e
<1> QED
  <2>1. n \in 0 .. L - 1 \/ n = L \/ n = L + 1
    BY SMT, <1>1
  <2> QED BY <1>4, <1>5, <1>6, <2>1, Zenon

\* The first byte of each format, the second where two open it, and the
\* length of what is sent.
LEMMA Openings ==
    ASSUME LimitsAssumption, NEW app \in Protocols, NEW f \in Seq(Bytes), Fits(app, f)
    PROVE  LET e == Encode(app, f)
           IN  /\ e \in Seq(Bytes) /\ Len(e) \in Nat /\ Len(e) >= 2
               /\ app = "AtCommand" => Len(e) >= 4 /\ Len(e) = Len(f) + 2 /\ e[Len(e)] = LF
               /\ e[1] = First(app)
               /\ app # "RNode" => e[2] = Second(app)
<1> DEFINE e == Encode(app, f)
<1>1. CASE app = "MeshCore"
  <2>1. e = MeshCore!encode(f)
    BY SMT, <1>1 DEF Encode
  <2>2. Len(f) \in Nat /\ Len(f) >= 2 /\ Len(f) <= MaxLength + 2 /\ Crc(f) \in Words
    BY <1>1, MeshCoreFits, Zenon
  <2>3. e \in Seq(Bytes) /\ Len(e) = Len(f) + 7 /\ e[1] = \hAA /\ e[2] = \h55
    <3> HIDE DEF e
    <3>1. /\ MeshCore!encode(f) \in Seq(Bytes) /\ Len(MeshCore!encode(f)) = Len(f) + 7
          /\ MeshCore!encode(f)[1] = \hAA /\ MeshCore!encode(f)[2] = \h55
      BY <2>2, MeshCoreEncoded, ZenonT(30)
    <3> QED BY <2>1, <3>1, Zenon
  <2> HIDE DEF e
  <2>4. Len(e) \in Nat /\ Len(e) >= 2
    BY SMT, <2>2, <2>3
  <2>5. e[1] = First(app) /\ e[2] = Second(app)
    BY SMT, <1>1, <2>3 DEF First, Second
  <2> QED BY <1>1, <2>3, <2>4, <2>5, Zenon DEF e
<1>2. CASE app = "Meshtastic"
  <2>1. e = Meshtastic!encode(f)
    BY SMT, <1>2 DEF Encode
  <2>2. Len(f) \in Nat /\ Len(f) <= MaxLength
    BY <1>2, MeshtasticFits, Zenon
  <2>3. e \in Seq(Bytes) /\ Len(e) = Len(f) + 4 /\ e[1] = \h94 /\ e[2] = \hC3
    <3> HIDE DEF e
    <3>1. /\ Meshtastic!encode(f) \in Seq(Bytes) /\ Len(Meshtastic!encode(f)) = Len(f) + 4
          /\ Meshtastic!encode(f)[1] = \h94 /\ Meshtastic!encode(f)[2] = \hC3
      BY <2>2, MeshtasticEncoded, ZenonT(90)
    <3> QED BY <2>1, <3>1, Zenon
  <2> HIDE DEF e
  <2>4. Len(e) \in Nat /\ Len(e) >= 2
    BY SMT, <2>2, <2>3
  <2>5. e[1] = First(app) /\ e[2] = Second(app)
    BY SMT, <1>2, <2>3 DEF First, Second
  <2> QED BY <1>2, <2>3, <2>4, <2>5, Zenon DEF e
<1>3. CASE app = "RNode"
  <2>1. e = Kiss!encode(f)
    BY SMT, <1>3 DEF Encode
  <2>2. f # << >> /\ Len(f) \in Nat /\ Len(f) >= 1
    BY <1>3, KissFits, Zenon
  <2>3. e \in Seq(Bytes) /\ Len(e) = 2 + Upto(f, Len(f)) /\ e[1] = Kiss!FEND
    BY <2>1, <2>2, KissEncoded, Zenon
  <2>4. Upto(f, Len(f)) \in Nat
    <3>1. 0 \in 0 .. Len(f) - 1
      BY SMT, <2>2
    <3> QED BY <2>2, <3>1, UptoGrows, Zenon
  <2> HIDE DEF e
  <2>5. Len(e) \in Nat /\ Len(e) >= 2
    BY SMT, <2>3, <2>4
  <2>6. e[1] = First(app)
    BY SMT, <1>3, <2>3 DEF First, Kiss!FEND
  <2> QED BY <1>3, <2>3, <2>5, <2>6, Zenon DEF e
<1>4. CASE app = "AtCommand"
  <2>1. e = f \o <<CR, LF>>
    BY SMT, <1>4 DEF Encode
  <2>2. Len(f) \in Nat /\ Len(f) >= 2 /\ f[1] = \h41 /\ f[2] = \h54
    BY SMT, <1>4 DEF Fits
  <2>3. /\ e \in Seq(Bytes) /\ Len(e) = Len(f) + 2 /\ \A i \in 1 .. Len(f) : e[i] = f[i]
        /\ e[Len(f) + 2] = LF
    BY <2>1, AtEncoded, Zenon
  <2> HIDE DEF e
  <2>4. /\ Len(e) \in Nat /\ Len(e) >= 2 /\ Len(e) >= 4 /\ 1 \in 1 .. Len(f) /\ 2 \in 1 .. Len(f)
    BY SMT, <2>2, <2>3
  <2>5. e[1] = f[1] /\ e[2] = f[2]
    BY <2>3, <2>4, Zenon
  <2>6. e[1] = First(app) /\ e[2] = Second(app)
    BY SMT, <1>4, <2>2, <2>5 DEF First, Second
  <2> QED BY <1>4, <2>3, <2>4, <2>6, Zenon DEF e
<1> QED BY <1>1, <1>2, <1>3, <1>4 DEF Protocols

-----------------------------------------------------------------------------
\* Whatever the app, its parser reads the next byte of its frame.

LEMMA Reads ==
    ASSUME LimitsAssumption, NEW app \in Protocols, NEW f \in Seq(Bytes), Fits(app, f),
           NEW n \in Nat, n < Len(Encode(app, f)),
           NEW p, ParserInv(app, p), ParserAt(app, f, n, p)
    PROVE  LET b == Encode(app, f)[n + 1]
           IN  /\ ParserAt(app, f, n + 1, Feed(app, p, b))
               /\ Completes(app, p, b) <=> n + 1 = Done(app, f)
               /\ Completes(app, p, b) => Completed(app, p, b) = f
<1>1. CASE app = "MeshCore"
  <2> DEFINE e == MeshCore!encode(f)
             b == e[n + 1]
  <2>1. Len(f) \in Nat /\ Len(f) >= 2 /\ Len(f) <= MaxLength + 2 /\ Crc(f) \in Words
    BY <1>1, MeshCoreFits, Zenon
  <2>2. Len(e) = Len(f) + 7
    BY <2>1, MeshCoreEncoded, ZenonT(30)
  <2>3. Encode(app, f) = e /\ Done(app, f) = Len(f) + 7
    <3>1. Encode(app, f) = e /\ Done(app, f) = Len(Encode(app, f))
      BY SMT, <1>1 DEF Encode, Done
    <3> QED BY <2>2, <3>1, Zenon
  <2> HIDE DEF e
  <2>4. n \in 0 .. Len(f) + 6
    BY SMT, <2>1, <2>2, <2>3
  <2>5. MeshCoreInv(p) /\ MeshCoreAt(f, n, p)
    BY SMT, <1>1 DEF ParserInv, ParserAt
  <2>6. /\ MeshCoreAt(f, n + 1, MeshCore!feed(p, b))
        /\ MeshCore!Completes(p, b) <=> n + 1 = Len(f) + 7
        /\ MeshCore!Completes(p, b) => p.frame = f
    BY <1>1, <2>4, <2>5, MeshCoreReads, Zenon DEF e
  <2> HIDE DEF b
  <2>7. /\ Feed(app, p, b) = MeshCore!feed(p, b)
        /\ Completes(app, p, b) <=> MeshCore!Completes(p, b)
        /\ Completed(app, p, b) = p.frame
    BY SMT, <1>1 DEF Feed, Completes, Completed
  <2>8. ParserAt(app, f, n + 1, Feed(app, p, b))
    BY SMT, <1>1, <2>6, <2>7 DEF ParserAt
  <2> QED BY <2>3, <2>6, <2>7, <2>8, Zenon DEF b
<1>2. CASE app = "Meshtastic"
  <2> DEFINE e == Meshtastic!encode(f)
             b == e[n + 1]
  <2>1. Len(f) \in Nat /\ Len(f) <= MaxLength
    BY <1>2, MeshtasticFits, Zenon
  <2>2. Len(e) = Len(f) + 4
    BY <2>1, MeshtasticEncoded, ZenonT(30)
  <2>3. Encode(app, f) = e /\ Done(app, f) = Len(f) + 4
    <3>1. Encode(app, f) = e /\ Done(app, f) = Len(Encode(app, f))
      BY SMT, <1>2 DEF Encode, Done
    <3> QED BY <2>2, <3>1, Zenon
  <2> HIDE DEF e
  <2>4. n \in 0 .. Len(f) + 3
    BY SMT, <2>1, <2>2, <2>3
  <2>5. MeshtasticInv(p) /\ MeshtasticAt(f, n, p)
    BY SMT, <1>2 DEF ParserInv, ParserAt
  <2>6. /\ MeshtasticAt(f, n + 1, Meshtastic!feed(p, b))
        /\ Meshtastic!Completes(p, b) <=> n + 1 = Len(f) + 4
        /\ Meshtastic!Completes(p, b) => Meshtastic!Completed(p, b) = f
    BY <1>2, <2>4, <2>5, MeshtasticReads, Zenon DEF e
  <2> HIDE DEF b
  <2>7. /\ Feed(app, p, b) = Meshtastic!feed(p, b)
        /\ Completes(app, p, b) <=> Meshtastic!Completes(p, b)
        /\ Completed(app, p, b) = Meshtastic!Completed(p, b)
    BY SMT, <1>2 DEF Feed, Completes, Completed
  <2>8. ParserAt(app, f, n + 1, Feed(app, p, b))
    BY SMT, <1>2, <2>6, <2>7 DEF ParserAt
  <2> QED BY <2>3, <2>6, <2>7, <2>8, Zenon DEF b
<1>3. CASE app = "RNode"
  <2> DEFINE e == Kiss!encode(f)
             b == e[n + 1]
  <2>1. Len(f) \in Nat /\ Len(f) >= 1 /\ f # << >>
    BY <1>3, KissFits, Zenon
  <2>2. Len(e) = 2 + Upto(f, Len(f)) /\ Upto(f, Len(f)) \in Nat
    <3>1. 0 \in 0 .. Len(f) - 1
      BY SMT, <2>1
    <3> QED BY <2>1, <3>1, KissEncoded, UptoGrows, Zenon
  <2>3. Encode(app, f) = e /\ Done(app, f) = 2 + Upto(f, Len(f))
    <3>1. Encode(app, f) = e /\ Done(app, f) = Len(Encode(app, f))
      BY SMT, <1>3 DEF Encode, Done
    <3> QED BY <2>2, <3>1, Zenon
  <2> HIDE DEF e
  <2>4. n \in 0 .. 1 + Upto(f, Len(f))
    BY SMT, <2>2, <2>3
  <2>5. KissInv(p) /\ KissAt(f, n, p)
    BY SMT, <1>3 DEF ParserInv, ParserAt
  <2>6. /\ KissAt(f, n + 1, Kiss!feed(p, b))
        /\ Kiss!Completes(p, b) <=> n + 1 = 2 + Upto(f, Len(f))
        /\ Kiss!Completes(p, b) => p.frame = f
    BY <1>3, <2>4, <2>5, KissReads, Zenon DEF e
  <2> HIDE DEF b
  <2>7. /\ Feed(app, p, b) = Kiss!feed(p, b)
        /\ Completes(app, p, b) <=> Kiss!Completes(p, b)
        /\ Completed(app, p, b) = p.frame
    BY SMT, <1>3 DEF Feed, Completes, Completed
  <2>8. ParserAt(app, f, n + 1, Feed(app, p, b))
    BY SMT, <1>3, <2>6, <2>7 DEF ParserAt
  <2> QED BY <2>3, <2>6, <2>7, <2>8, Zenon DEF b
<1>4. CASE app = "AtCommand"
  <2> DEFINE e == f \o <<CR, LF>>
             b == e[n + 1]
  <2>1. Len(e) = Len(f) + 2 /\ Len(f) \in Nat
    BY AtEncoded, Zenon
  <2>3. Encode(app, f) = e /\ Done(app, f) = Len(f) + 1
    BY SMT, <1>4 DEF Encode, Done
  <2> HIDE DEF e
  <2>4. n \in 0 .. Len(f) + 1
    BY SMT, <2>1, <2>3
  <2>5. p = AtAt(f, n)
    BY SMT, <1>4 DEF ParserAt
  <2>6. /\ FeedAt(p, b) = AtAt(f, n + 1)
        /\ (b \in {CR, LF} /\ p # << >>) <=> n + 1 = Len(f) + 1
        /\ b \in {CR, LF} /\ p # << >> => p = f
    BY <1>4, <2>4, <2>5, AtReads, ZenonT(60) DEF e
  <2> HIDE DEF b
  <2>7. /\ Feed(app, p, b) = FeedAt(p, b)
        /\ Completes(app, p, b) <=> (b \in {CR, LF} /\ p # << >>)
        /\ Completed(app, p, b) = p
    BY SMT, <1>4 DEF Feed, Completes, Completed
  <2>8. ParserAt(app, f, n + 1, Feed(app, p, b))
    BY SMT, <1>4, <2>6, <2>7 DEF ParserAt
  <2> QED BY <2>3, <2>6, <2>7, <2>8, Zenon DEF b
<1> QED BY <1>1, <1>2, <1>3, <1>4 DEF Protocols

\* Between two frames the parsers are at rest.
LEMMA RestsBetween ==
    ASSUME LimitsAssumption, NEW app \in Protocols, NEW f \in Seq(Bytes), Fits(app, f)
    PROVE  /\ ParserAt(app, f, 0, ParsersAtRest[app])
           /\ \A p : ParserAt(app, f, Len(Encode(app, f)), p) => p = ParsersAtRest[app]
<1>1. CASE app = "MeshCore"
  <2>1. Len(f) \in Nat /\ Len(f) >= 2 /\ Len(f) <= MaxLength + 2 /\ Crc(f) \in Words
    BY <1>1, MeshCoreFits, Zenon
  <2>2. Len(MeshCore!encode(f)) = Len(f) + 7
    BY <2>1, MeshCoreEncoded, ZenonT(30)
  <2>3. Encode(app, f) = MeshCore!encode(f) /\ ParsersAtRest[app] = MeshCore!Fresh
    BY SMT, <1>1, ParsersKnown DEF Encode
  <2>4. \A p, n : ParserAt(app, f, n, p) <=> MeshCoreAt(f, n, p)
    BY SMT, <1>1 DEF ParserAt
  <2>5. MeshCoreAt(f, 0, MeshCore!Fresh)
    BY SMT, <2>1 DEF MeshCoreAt
  <2>6. \A p : MeshCoreAt(f, Len(f) + 7, p) => p = MeshCore!Fresh
    BY Zenon DEF MeshCoreAt
  <2> QED BY <2>2, <2>3, <2>4, <2>5, <2>6, Zenon
<1>2. CASE app = "Meshtastic"
  <2>1. Len(f) \in Nat /\ Len(f) <= MaxLength
    BY <1>2, MeshtasticFits, Zenon
  <2>2. Len(Meshtastic!encode(f)) = Len(f) + 4
    BY <2>1, MeshtasticEncoded, ZenonT(30)
  <2>3. Encode(app, f) = Meshtastic!encode(f) /\ ParsersAtRest[app] = Meshtastic!Fresh
    BY SMT, <1>2, ParsersKnown DEF Encode
  <2>4. \A p, n : ParserAt(app, f, n, p) <=> MeshtasticAt(f, n, p)
    BY SMT, <1>2 DEF ParserAt
  <2>5. MeshtasticAt(f, 0, Meshtastic!Fresh)
    BY SMT, <2>1 DEF MeshtasticAt
  <2>6. \A p : MeshtasticAt(f, Len(f) + 4, p) => p = Meshtastic!Fresh
    BY Zenon DEF MeshtasticAt
  <2> QED BY <2>2, <2>3, <2>4, <2>5, <2>6, Zenon
<1>3. CASE app = "RNode"
  <2>1. Len(f) \in Nat /\ Len(f) >= 1 /\ f # << >>
    BY <1>3, KissFits, Zenon
  <2>2. Len(Kiss!encode(f)) = 2 + Upto(f, Len(f))
    BY <2>1, KissEncoded, Zenon
  <2>3. Encode(app, f) = Kiss!encode(f) /\ ParsersAtRest[app] = Kiss!Fresh
    BY SMT, <1>3, ParsersKnown DEF Encode
  <2>4. \A p, n : ParserAt(app, f, n, p) <=> KissAt(f, n, p)
    BY SMT, <1>3 DEF ParserAt
  <2>5. KissAt(f, 0, Kiss!Fresh)
    BY Zenon DEF KissAt
  <2>6. \A k \in 0 .. Len(f) - 1 : /\ Upto(f, k) \in Nat /\ Upto(f, Len(f)) \in Nat
                                   /\ Upto(f, k) < Upto(f, Len(f))
    <3> TAKE k \in 0 .. Len(f) - 1
    <3> DEFINE m == Len(Kiss!escape_byte(f[k + 1]))
    <3>1. /\ Upto(f, k) \in Nat /\ Upto(f, k + 1) \in Nat /\ Upto(f, Len(f)) \in Nat
          /\ Upto(f, k + 1) <= Upto(f, Len(f)) /\ Upto(f, k + 1) = Upto(f, k) + m
          /\ f[k + 1] \in Bytes
      BY <2>1, UptoGrows, Zenon
    <3>2. m \in {1, 2}
      BY <3>1, Escaped, Zenon
    <3> HIDE DEF m
    <3> QED BY SMT, <3>1, <3>2
  <2>7. ASSUME NEW p, KissAt(f, 2 + Upto(f, Len(f)), p) PROVE p = Kiss!Fresh
    <3>1. ASSUME NEW k \in 0 .. Len(f) PROVE 2 + Upto(f, Len(f)) # 1 + Upto(f, k)
      <4>1. 0 \in 0 .. Len(f) - 1
        BY SMT, <2>1
      <4>2. Upto(f, Len(f)) \in Nat
        BY <2>6, <4>1, Zenon
      <4>3. CASE k = Len(f)
        BY SMT, <4>2, <4>3
      <4>4. CASE k # Len(f)
        <5>1. k \in 0 .. Len(f) - 1
          BY SMT, <2>1, <4>4
        <5>2. Upto(f, k) \in Nat /\ Upto(f, k) < Upto(f, Len(f))
          BY <2>6, <5>1, Zenon
        <5> QED BY SMT, <4>2, <5>2
      <4> QED BY <4>3, <4>4
    <3>2. ASSUME NEW k \in 1 .. Len(f) - 1 PROVE 2 + Upto(f, Len(f)) # 2 + Upto(f, k)
      <4>1. k \in 0 .. Len(f) - 1
        BY SMT, <2>1
      <4>2. Upto(f, k) \in Nat /\ Upto(f, Len(f)) \in Nat /\ Upto(f, k) < Upto(f, Len(f))
        BY <2>6, <4>1, Zenon
      <4> QED BY SMT, <4>2
    <3> QED BY <2>7, <3>1, <3>2, Zenon DEF KissAt
  <2> QED BY <2>2, <2>3, <2>4, <2>5, <2>7, Zenon
<1>4. CASE app = "AtCommand"
  <2>1. Len(f \o <<CR, LF>>) = Len(f) + 2 /\ Len(f) \in Nat
    BY AtEncoded, Zenon
  <2>2. Encode(app, f) = f \o <<CR, LF>> /\ ParsersAtRest[app] = << >>
    BY SMT, <1>4, ParsersKnown DEF Encode
  <2>3. \A p, n : ParserAt(app, f, n, p) <=> p = AtAt(f, n)
    BY SMT, <1>4 DEF ParserAt
  <2>4. AtAt(f, 0) = << >> /\ AtAt(f, Len(f) + 2) = << >>
    BY SMT, <2>1 DEF AtAt
  <2> QED BY <2>1, <2>2, <2>3, <2>4, Zenon
<1> QED BY <1>1, <1>2, <1>3, <1>4 DEF Protocols

-----------------------------------------------------------------------------
\* Until the protocol is known, the detector reads it.

\* A first byte opens, or for KISS already tells; the second byte tells.
LEMMA FirstByte ==
    ASSUME LimitsAssumption, NEW app \in Protocols, NEW d \in Detectors, d.lock_count = 0,
           d.detected = "Unknown", Waits(app, d, MaxNoise), NEW b, b = First(app)
    PROVE  /\ app = "RNode" => Detector!Answer(d, b) = "RNode"
           /\ app # "RNode" => /\ Detector!Answer(d, b) = "Unknown"
                               /\ Opening(app, Detector!feed(d, b))
<1> DEFINE c == Detector!Counted(d)
           found == Detector!Found(c, b)
           fed == Detector!feed(d, b)
<1>1. /\ Detector!Answer(d, b) = found
      /\ found = "Unknown" => /\ fed.state = Detector!Opened(c, b)
                              /\ fed.state_bytes = IF fed.state = c.state
                                                   THEN c.state_bytes ELSE 0
  BY DetectorFeeds, Zenon
<1>2. /\ c \in Detectors /\ c.detected = "Unknown" /\ c.state \in {d.state, "Idle"}
      /\ d.state_bytes < SyncTimeout => c.state = d.state /\ c.state_bytes = d.state_bytes + 1
  BY DetectorCounts, Zenon
<1>3. /\ d.state_bytes \in 0 .. SyncTimeout + 1 /\ MaxNoise \in Nat /\ SyncTimeout \in Nat
      /\ MaxNoise < SyncTimeout
  BY SMT DEF Detectors, LimitsAssumption
<1> HIDE DEF c, found, fed
<1>4. CASE d.state = "Idle"
  <2>1. c.state = "Idle"
    BY <1>2, <1>4, Zenon
  <2>2. CASE app = "RNode"
    <3>1. found = "RNode"
      BY SMT, <1>2, <2>1, <2>2 DEF found, Detector!Found, First
    <3> QED BY <1>1, <2>2, <3>1, Zenon
  <2>3. CASE app # "RNode"
    <3>1. found = "Unknown"
      BY SMT, <2>1, <2>3 DEF found, Detector!Found, Protocols, First
    <3>2. fed.state = OpeningOf(app) /\ OpeningOf(app) # "Idle"
      <4>1. Detector!Opened(c, b) = OpeningOf(app) /\ OpeningOf(app) # "Idle"
        BY SMT, <2>1, <2>3 DEF Detector!Opened, OpeningOf, Protocols, First
      <4> QED BY <1>1, <3>1, <4>1, Zenon
    <3>3. fed.state_bytes = 0
      BY <1>1, <2>1, <3>1, <3>2, Zenon
    <3>4. fed.state_bytes <= MaxNoise
      BY SMT, <1>3, <3>3
    <3> QED BY <1>1, <2>3, <3>1, <3>2, <3>4, Zenon DEF Opening, fed
  <2> QED BY <2>2, <2>3
<1>5. CASE app = "MeshCore" /\ d.state = "MeshCore1" /\ d.state_bytes < MaxNoise
  <2>1. c.state = "MeshCore1" /\ c.state_bytes = d.state_bytes + 1
    <3>1. d.state_bytes < SyncTimeout
      BY SMT, <1>3, <1>5
    <3> QED BY <1>2, <1>5, <3>1, Zenon
  <2>2. found = "Unknown"
    BY SMT, <1>5, <2>1 DEF found, Detector!Found, First
  <2>3. Detector!Opened(c, b) = "MeshCore1"
    BY SMT, <1>5, <2>1 DEF Detector!Opened, First
  <2>4. fed.state = "MeshCore1" /\ fed.state_bytes = d.state_bytes + 1
    BY <1>1, <2>1, <2>2, <2>3, Zenon
  <2>5. d.state_bytes + 1 <= MaxNoise
    BY SMT, <1>3, <1>5
  <2>6. OpeningOf(app) = "MeshCore1" /\ app # "RNode"
    BY SMT, <1>5 DEF OpeningOf
  <2> QED BY <1>1, <2>2, <2>4, <2>5, <2>6, Zenon DEF Opening, fed
<1> QED BY <1>4, <1>5, Zenon DEF Waits

LEMMA SecondByte ==
    ASSUME LimitsAssumption, NEW app \in Protocols \ {"RNode"}, NEW d \in Detectors,
           d.lock_count = 0, Opening(app, d), NEW b, b = Second(app)
    PROVE  Detector!Answer(d, b) = app
<1> DEFINE c == Detector!Counted(d)
           found == Detector!Found(c, b)
<1>1. Detector!Answer(d, b) = found
  BY DetectorFeeds, Zenon
<1>2. d.state_bytes < SyncTimeout => c.state = d.state
  BY DetectorCounts, Zenon
<1>3. d.state_bytes < SyncTimeout
  BY SMT DEF Detectors, LimitsAssumption, Opening
<1> HIDE DEF c, found
<1>4. c.state = OpeningOf(app)
  BY <1>2, <1>3, Zenon DEF Opening
<1>5. found = app
  BY SMT, <1>4 DEF found, Detector!Found, OpeningOf, Protocols, Second
<1> QED BY <1>1, <1>5, Zenon

\* Noise opens nothing but what the next frame of the app opens again.
LEMMA NoiseByte ==
    ASSUME LimitsAssumption, NEW app \in Protocols, NEW d \in Detectors, d.lock_count = 0,
           NEW n \in Nat, n < MaxNoise, Waits(app, d, n), NEW b, Innocent(app, b)
    PROVE  /\ Detector!Answer(d, b) = "Unknown"
           /\ Waits(app, Detector!feed(d, b), n + 1)
<1> DEFINE c == Detector!Counted(d)
           found == Detector!Found(c, b)
           fed == Detector!feed(d, b)
<1>1. /\ Detector!Answer(d, b) = found
      /\ found = "Unknown" => /\ fed.state = Detector!Opened(c, b)
                              /\ fed.state_bytes = IF fed.state = c.state
                                                   THEN c.state_bytes ELSE 0
  BY DetectorFeeds, Zenon
<1>2. /\ c \in Detectors /\ c.state \in {d.state, "Idle"}
      /\ d.state_bytes < SyncTimeout => c.state = d.state /\ c.state_bytes = d.state_bytes + 1
  BY DetectorCounts, Zenon
<1>3. /\ d.state_bytes \in 0 .. SyncTimeout + 1 /\ MaxNoise \in Nat /\ SyncTimeout \in Nat
      /\ MaxNoise < SyncTimeout
  BY SMT DEF Detectors, LimitsAssumption
<1> HIDE DEF c, found, fed
<1>4. CASE c.state = "Idle"
  <2>1. found = "Unknown"
    BY SMT, <1>4 DEF found, Detector!Found, Innocent
  <2>2. Detector!Opened(c, b) = IF b = \hAA THEN "MeshCore1" ELSE "Idle"
    BY SMT, <1>4 DEF Detector!Opened, Innocent
  <2>3. fed.state = "Idle" \/ (fed.state = "MeshCore1" /\ fed.state_bytes = 0 /\ app = "MeshCore")
    BY SMT, <1>1, <1>4, <2>1, <2>2 DEF Innocent
  <2>4. 0 < n + 1
    BY SMT
  <2> QED BY <1>1, <2>1, <2>3, <2>4, Zenon DEF Waits, fed
<1>5. CASE app = "MeshCore" /\ d.state = "MeshCore1" /\ d.state_bytes < n
  <2>1. c.state = "MeshCore1" /\ c.state_bytes = d.state_bytes + 1
    <3>1. d.state_bytes < SyncTimeout
      BY SMT, <1>3, <1>5
    <3> QED BY <1>2, <1>5, <3>1, Zenon
  <2>2. found = "Unknown"
    BY SMT, <2>1 DEF found, Detector!Found, Innocent
  <2>3. Detector!Opened(c, b) \in {"MeshCore1", "Idle"}
    BY SMT, <2>1 DEF Detector!Opened
  <2>4. fed.state = "Idle" \/ (fed.state = "MeshCore1" /\ fed.state_bytes = d.state_bytes + 1)
    BY <1>1, <2>1, <2>2, <2>3, Zenon
  <2>5. d.state_bytes + 1 < n + 1
    BY SMT, <1>3, <1>5
  <2> QED BY <1>1, <1>5, <2>2, <2>4, <2>5, Zenon DEF Waits, fed
<1> QED BY <1>2, <1>4, <1>5, Zenon DEF Waits

LEMMA IdleByte ==
    ASSUME LimitsAssumption, NEW d \in Detectors, d.lock_count = 0, d.state = "Idle"
    PROVE  Detector!Answer(d, LF) = "Unknown" /\ Detector!feed(d, LF).state = "Idle"
<1> DEFINE c == Detector!Counted(d)
           found == Detector!Found(c, LF)
           fed == Detector!feed(d, LF)
<1>1. /\ Detector!Answer(d, LF) = found
      /\ found = "Unknown" => fed.state = Detector!Opened(c, LF)
  BY DetectorFeeds, Zenon
<1>2. c.state = "Idle"
  <2>1. c.state \in {d.state, "Idle"}
    BY DetectorCounts, Zenon
  <2> QED BY <2>1, Zenon
<1> HIDE DEF c
<1>3. found = "Unknown" /\ Detector!Opened(c, LF) = "Idle"
  BY SMT, <1>2 DEF Detector!Found, Detector!Opened, LF
<1> QED BY <1>1, <1>3, Zenon

\* What is left of a frame after its next byte.
LEMMA NextByte ==
    ASSUME NEW e \in Seq(Bytes), NEW n \in Nat, NEW l \in Seq(Bytes), l # << >>,
           Remains(l, e, n)
    PROVE  n < Len(e) /\ Head(l) = e[n + 1] /\ Remains(Tail(l), e, n + 1)
<1>0. n <= Len(e) /\ Len(l) = Len(e) - n /\ \A i \in 1 .. Len(l) : l[i] = e[n + i]
  BY Zenon DEF Remains
<1>1. Len(l) \in Nat /\ Len(l) >= 1 /\ Len(e) \in Nat
  <2>1. Len(l) \in Nat /\ Len(e) \in Nat
    BY SMT
  <2>2. Len(l) # 0
    BY EmptySeq
  <2> QED BY SMT, <2>1, <2>2
<1>2. n < Len(e) /\ n + 1 <= Len(e)
  BY SMT, <1>0, <1>1
<1>3. Head(l) = e[n + 1]
  <2>1. Head(l) = l[1] /\ 1 \in 1 .. Len(l)
    BY SMT, <1>1
  <2> QED BY <1>0, <2>1, Zenon
<1>4. Len(Tail(l)) = Len(l) - 1 /\ Tail(l) \in Seq(Bytes)
  BY SMT, <1>1
<1>5. ASSUME NEW i \in 1 .. Len(Tail(l)) PROVE Tail(l)[i] = e[(n + 1) + i]
  <2>1. i + 1 \in 1 .. Len(l) /\ n + (i + 1) = (n + 1) + i
    BY SMT, <1>1, <1>4
  <2>2. Tail(l)[i] = l[i + 1]
    BY SMT, <1>1, <1>4
  <2>3. l[i + 1] = e[n + (i + 1)]
    BY <1>0, <2>1, Zenon
  <2> QED BY <2>1, <2>2, <2>3, Zenon
<1>6. Len(Tail(l)) = Len(e) - (n + 1)
  BY SMT, <1>0, <1>1, <1>4
<1> QED BY <1>2, <1>3, <1>5, <1>6, Zenon DEF Remains

-----------------------------------------------------------------------------
\* A byte of a frame, the last one included.

\* What is known of the frame under way.
LEMMA FrameUnderWay ==
    ASSUME LimitsAssumption, FramesAssumption, NEW app \in Apps, NEW f \in FramesOf(app)
    PROVE  LET e == Encode(app, f)
           IN  /\ app \in Protocols /\ app # "Unknown" /\ f \in Seq(Bytes) /\ Fits(app, f)
               /\ e \in Seq(Bytes) /\ Len(e) \in Nat
               /\ e[1] = First(app) /\ (app # "RNode" => e[2] = Second(app))
               /\ Done(app, f) \in Nat /\ Done(app, f) >= 2 /\ Done(app, f) <= Len(e)
               /\ app = "AtCommand" => Done(app, f) + 1 = Len(e) /\ e[Len(e)] = LF
<1> DEFINE e == Encode(app, f)
<1>1. f \in Seq(Bytes) /\ Fits(app, f) /\ app \in Protocols
  BY FrameKnown, Zenon DEF LimitsAssumption
<1>2. app # "Unknown"
  BY SMT, <1>1 DEF Protocols
<1>3. /\ e \in Seq(Bytes) /\ Len(e) \in Nat /\ Len(e) >= 2
      /\ app = "AtCommand" => Len(e) >= 4 /\ Len(e) = Len(f) + 2 /\ e[Len(e)] = LF
      /\ e[1] = First(app)
      /\ app # "RNode" => e[2] = Second(app)
  BY <1>1, Openings, Zenon
<1> HIDE DEF e
<1>4. /\ Done(app, f) \in Nat /\ Done(app, f) >= 2 /\ Done(app, f) <= Len(e)
      /\ app = "AtCommand" => Done(app, f) + 1 = Len(e)
  <2>1. CASE app = "AtCommand"
    <3>1. Done(app, f) = Len(f) + 1 /\ Len(f) \in Nat
      BY SMT, <1>1, <2>1 DEF Done
    <3> QED BY SMT, <1>3, <2>1, <3>1
  <2>2. CASE app # "AtCommand"
    <3>1. Done(app, f) = Len(e)
      BY <2>2, Zenon DEF Done, e
    <3> QED BY SMT, <1>3, <2>2, <3>1
  <2> QED BY <2>1, <2>2
<1> QED BY <1>1, <1>2, <1>3, <1>4, Zenon DEF e

LEMMA EndsBetween ==
    ASSUME LimitsAssumption, FramesAssumption, TypesInv, NEW n \in Nat, current # NoFrame,
           InFrame(current, n), line = << >>
    PROVE  Between
<1> DEFINE f == current
           e == Encode(host, f)
<1>1. /\ host \in Apps /\ f \in FramesOf(host)
  BY Zenon DEF TypesInv
<1>2. /\ host \in Protocols /\ f \in Seq(Bytes) /\ Fits(host, f) /\ Len(e) \in Nat
      /\ Done(host, f) \in Nat /\ Done(host, f) >= 2 /\ Done(host, f) <= Len(e)
  BY <1>1, FrameUnderWay, Zenon
<1>3. /\ n <= Len(e) /\ Len(line) = Len(e) - n
      /\ ghost.got <=> n >= Done(host, f)
      /\ \/ serial_protocol = host /\ ParserAt(host, f, n, parsers[host])
         \/ serial_protocol = "Unknown" /\ n = 0 /\ Waits(host, detector, MaxNoise)
         \/ serial_protocol = "Unknown" /\ n = 1 /\ host # "RNode" /\ Opening(host, detector)
         \/ /\ host = "AtCommand" /\ serial_protocol = "Unknown" /\ ghost.got
            /\ detector.state = "Idle"
  BY Zenon DEF InFrame, Remains
<1> HIDE DEF e, f
<1>4. n = Len(e) /\ n >= Done(host, f) /\ n # 0 /\ n # 1
  <2>1. Len(line) = 0
    BY SMT
  <2> HIDE DEF Between
  <2> QED BY SMT, <1>2, <1>3, <2>1
<1>5. ghost.got
  BY <1>3, <1>4, Zenon
<1>6. CASE serial_protocol = host /\ ParserAt(host, f, n, parsers[host])
  <2>1. parsers[host] = ParsersAtRest[host]
    BY <1>2, <1>4, <1>6, RestsBetween, Zenon DEF e
  <2> QED BY <1>5, <1>6, <2>1, Zenon DEF Between
<1>7. CASE serial_protocol = "Unknown" /\ detector.state = "Idle"
  BY <1>5, <1>7, Zenon DEF Between, Waits
<1> QED BY <1>3, <1>4, <1>6, <1>7, Zenon

LEMMA DeliversIt ==
    ASSUME ghost \in Ghosts, NEW app, NEW frame, NEW completes,
           NEW n \in Nat, NEW done \in Nat, ghost.got <=> n >= done, ~ ghost.wrong,
           completes <=> n + 1 = done, completes => frame = current,
           ghost' = IF completes THEN Deliver(app, frame) ELSE ghost
    PROVE  (ghost'.got <=> n + 1 >= done) /\ ~ ghost'.wrong /\ (completes => ghost'.got)
<1>1. CASE completes
  <2>1. ~ (n >= done) /\ n + 1 >= done
    BY SMT, <1>1
  <2>2. ~ ghost.got /\ frame = current /\ ghost' = Deliver(app, frame)
    BY <1>1, <2>1, Zenon
  <2>3. /\ Deliver(app, frame).got = (ghost.got \/ frame = current)
        /\ Deliver(app, frame).wrong = (ghost.wrong \/ ghost.got \/ frame # current)
    BY DeliverTypes, Zenon
  <2> QED BY <2>1, <2>2, <2>3, Zenon
<1>2. CASE ~ completes
  <2>1. n >= done <=> n + 1 >= done
    BY SMT, <1>2
  <2>2. ghost' = ghost
    BY <1>2, Zenon
  <2> QED BY <1>2, <2>1, <2>2, Zenon
<1> QED BY <1>1, <1>2

LEMMA ReadsOn ==
    ASSUME LimitsAssumption, FramesAssumption, TypesInv, ReadByte, ~ ghost.wrong,
           current # NoFrame, NEW n \in Nat, InFrame(current, n)
    PROVE  InFrame(current, n + 1)' /\ ~ ghost'.wrong
<1> DEFINE f == current
           e == Encode(host, f)
           b == Head(line)
           unknown == serial_protocol = "Unknown"
           app     == IF unknown THEN Detector!Answer(detector, b) ELSE serial_protocol
           fed     == IF unknown THEN Detector!feed(detector, b) ELSE detector
           parser  == IF unknown THEN Prefed(app) ELSE parsers[app]
           frame   == Completed(app, parser, b)
<1>1. /\ host \in Apps /\ f \in FramesOf(host) /\ line \in Seq(Bytes) /\ ghost \in Ghosts
      /\ detector \in Detectors /\ parsers \in ParserSets
      /\ \A a \in Protocols : ParserInv(a, parsers[a])
      /\ unknown => /\ parsers = ParsersAtRest
                    /\ detector.detected = "Unknown" /\ detector.lock_count = 0
  BY Zenon DEF TypesInv, DetectorInv, ParsersInv
<1>2. /\ host \in Protocols /\ host # "Unknown" /\ f \in Seq(Bytes) /\ Fits(host, f)
      /\ e \in Seq(Bytes) /\ Len(e) \in Nat
      /\ e[1] = First(host) /\ (host # "RNode" => e[2] = Second(host))
      /\ Done(host, f) \in Nat /\ Done(host, f) >= 2 /\ Done(host, f) <= Len(e)
      /\ host = "AtCommand" => Done(host, f) + 1 = Len(e) /\ e[Len(e)] = LF
  BY <1>1, FrameUnderWay, Zenon
<1>3. /\ Remains(line, e, n)
      /\ ghost.got <=> n >= Done(host, f)
      /\ \/ serial_protocol = host /\ ParserAt(host, f, n, parsers[host])
         \/ serial_protocol = "Unknown" /\ n = 0 /\ Waits(host, detector, MaxNoise)
         \/ serial_protocol = "Unknown" /\ n = 1 /\ host # "RNode" /\ Opening(host, detector)
         \/ /\ host = "AtCommand" /\ serial_protocol = "Unknown" /\ ghost.got
            /\ detector.state = "Idle"
  BY Zenon DEF InFrame
<1>4. /\ line # << >> /\ ProcessSerialByte(b) /\ line' = Tail(line)
      /\ host' = host /\ current' = current
  BY Zenon DEF ReadByte
<1> HIDE DEF e
<1>5. n < Len(e) /\ b = e[n + 1] /\ Remains(Tail(line), e, n + 1)
  BY <1>1, <1>2, <1>3, <1>4, NextByte, Zenon
<1> HIDE DEF b
<1>6. b \in Bytes
  BY SMT, <1>1, <1>4 DEF b
<1>7. /\ app \in Protocols \cup {"Unknown"} /\ fed \in Detectors
      /\ app = "Unknown" =>
            /\ serial_protocol = "Unknown" /\ detector' = fed
            /\ fed.detected = "Unknown" /\ fed.lock_count = 0
            /\ UNCHANGED <<serial_protocol, parsers, ghost>>
      /\ app # "Unknown" =>
            /\ app \in Protocols /\ ParserInv(app, parser)
            /\ ghost' = IF Completes(app, parser, b) THEN Deliver(app, frame) ELSE ghost
            /\ \/ /\ Completes(app, parser, b) /\ app = "AtCommand"
                  /\ ResetProtocol
               \/ /\ serial_protocol' = app
                  /\ detector' \in {fed, Detector!confirm_frame(fed)}
                  /\ parsers' = [parsers EXCEPT ![app] = Feed(app, parser, b)]
  BY <1>4, <1>6, Processes, Zenon
<1>8. Remains(line, Encode(host, f), n + 1)'
  <2>1. Encode(host, f)' = e
    BY <1>4, Zenon DEF e
  <2> QED BY <1>4, <1>5, <2>1, Zenon
<1>9. unknown => app = Detector!Answer(detector, b) /\ fed = Detector!feed(detector, b)
                 /\ parser = Prefed(app)
  BY Zenon
<1>10. ~ unknown => app = serial_protocol /\ parser = parsers[app]
  BY Zenon
<1> HIDE DEF unknown, app, fed, parser, frame
<1>11. ASSUME (ghost'.got <=> n + 1 >= Done(host, f)), ~ ghost'.wrong,
              \/ serial_protocol' = host /\ ParserAt(host, f, n + 1, parsers'[host])
              \/ serial_protocol' = "Unknown" /\ n + 1 = 1 /\ host # "RNode" /\ Opening(host, detector')
              \/ /\ host = "AtCommand" /\ serial_protocol' = "Unknown" /\ ghost'.got
                 /\ detector'.state = "Idle"
       PROVE  InFrame(current, n + 1)' /\ ~ ghost'.wrong
  BY <1>4, <1>8, <1>11, Zenon DEF InFrame
<1>12. ASSUME app = host, ParserAt(host, f, n, parser)
       PROVE  InFrame(current, n + 1)' /\ ~ ghost'.wrong
  <2> DEFINE completes == Completes(app, parser, b)
             next == Feed(app, parser, b)
  <2>1. /\ app # "Unknown" /\ app \in Protocols /\ ParserInv(app, parser)
    BY <1>2, <1>7, <1>12, Zenon
  <2>2. /\ ParserAt(host, f, n + 1, Feed(host, parser, b))
        /\ Completes(host, parser, b) <=> n + 1 = Done(host, f)
        /\ Completes(host, parser, b) => Completed(host, parser, b) = f
    <3>1. ParserInv(host, parser) /\ n < Len(Encode(host, f)) /\ b = Encode(host, f)[n + 1]
      BY <1>5, <1>12, <2>1, Zenon DEF e
    <3>2. host \in Protocols /\ f \in Seq(Bytes) /\ Fits(host, f) /\ ParserAt(host, f, n, parser)
      BY <1>2, <1>12, Zenon
    <3> HIDE DEF f
    <3> QED BY <3>1, <3>2, Reads, ZenonT(60)
  <2>3. ghost' = IF completes THEN Deliver(app, frame) ELSE ghost
    BY <1>7, <2>1, Zenon
  <2>5. (completes <=> n + 1 = Done(host, f)) /\ (completes => frame = current)
    BY <1>12, <2>2, Zenon DEF frame, f
  <2> HIDE DEF completes
  <2>6. (ghost'.got <=> n + 1 >= Done(host, f)) /\ ~ ghost'.wrong /\ (completes => ghost'.got)
    BY <1>1, <1>2, <1>3, <2>3, <2>5, DeliversIt, Zenon
  <2>7. CASE completes /\ app = "AtCommand" /\ ResetProtocol
    <3>1. serial_protocol' = "Unknown" /\ detector' = Detector!Fresh
      BY <2>7, Zenon DEF ResetProtocol
    <3>2. Detector!Fresh.state = "Idle"
      BY SMT DEF Detector!Fresh
    <3> QED BY <1>11, <1>12, <2>6, <2>7, <3>1, <3>2, Zenon
  <2>8. CASE serial_protocol' = app /\ parsers' = [parsers EXCEPT ![app] = next]
    <3>1. ParserInv(app, next)
      BY <1>6, <2>1, FeedTypes, Zenon
    <3>2. next = Feed(host, parser, b)
      BY <1>12, Zenon
    <3> HIDE DEF next
    <3>3. parsers'[host] = next
      <4>1. [parsers EXCEPT ![app] = next][app] = next
        BY <1>1, <2>1, <3>1, ParserReplaced, ZenonT(60)
      <4> QED BY <1>12, <2>8, <4>1, Zenon DEF next
    <3> QED BY <1>11, <1>12, <2>2, <2>6, <2>8, <3>2, <3>3, Zenon
  <2> QED BY <1>7, <2>1, <2>7, <2>8, Zenon DEF completes
<1>13. CASE serial_protocol = host /\ ParserAt(host, f, n, parsers[host])
  <2>1. ~ unknown
    BY <1>2, <1>13, Zenon DEF unknown
  <2>2. app = host /\ parser = parsers[host]
    BY <1>10, <1>13, <2>1, Zenon
  <2> QED BY <1>12, <1>13, <2>2, Zenon
<1>14. CASE serial_protocol = "Unknown" /\ n = 0 /\ Waits(host, detector, MaxNoise)
  <2>1. unknown /\ b = First(host)
    <3>1. n + 1 = 1
      BY SMT, <1>14
    <3> QED BY <1>2, <1>5, <1>14, <3>1, Zenon DEF unknown
  <2>2. /\ host = "RNode" => Detector!Answer(detector, b) = "RNode"
        /\ host # "RNode" => /\ Detector!Answer(detector, b) = "Unknown"
                             /\ Opening(host, Detector!feed(detector, b))
    <3>1. detector \in Detectors /\ detector.lock_count = 0 /\ detector.detected = "Unknown"
      BY <1>1, <2>1, Zenon
    <3>2. host \in Protocols /\ Waits(host, detector, MaxNoise) /\ b = First(host)
      BY <1>2, <1>14, <2>1, Zenon
    <3> QED BY <3>1, <3>2, FirstByte, ZenonT(60)
  <2>3. CASE host = "RNode"
    <3>1. app = host
      BY <1>9, <2>1, <2>2, <2>3, Zenon
    <3>2. Prefed(app) = parsers[app]
      BY SMT, <2>3, <3>1 DEF Prefed
    <3>3. ParserAt(host, f, 0, ParsersAtRest[host])
      BY <1>2, RestsBetween, Zenon
    <3> QED BY <1>1, <1>9, <1>12, <1>14, <2>1, <3>1, <3>2, <3>3, Zenon
  <2>4. CASE host # "RNode"
    <3>1. app = "Unknown" /\ Opening(host, fed)
      BY <1>9, <2>1, <2>2, <2>4, Zenon
    <3>2. serial_protocol' = "Unknown" /\ detector' = fed /\ ghost' = ghost
      BY <1>7, <3>1, Zenon
    <3>3. n + 1 = 1 /\ ~ (n >= Done(host, f)) /\ ~ (n + 1 >= Done(host, f))
      BY SMT, <1>2, <1>14
    <3> QED BY <1>3, <1>11, <2>4, <3>1, <3>2, <3>3, Zenon
  <2> QED BY <2>3, <2>4
<1>15. CASE serial_protocol = "Unknown" /\ n = 1 /\ host # "RNode" /\ Opening(host, detector)
  <2>1. unknown /\ b = Second(host)
    <3>1. n + 1 = 2
      BY SMT, <1>15
    <3> QED BY <1>2, <1>5, <1>15, <3>1, Zenon DEF unknown
  <2>2. Detector!Answer(detector, b) = host
    BY <1>1, <1>2, <1>15, <2>1, SecondByte, Zenon
  <2>3. app = host /\ parser = Prefed(host)
    BY <1>9, <2>1, <2>2, Zenon
  <2>4. Prefed(host) = Feed(host, parsers[host], First(host))
    BY SMT, <1>2, <1>15 DEF Prefed, First, Protocols
  <2>5. ParserAt(host, f, 1, Feed(host, parsers[host], First(host)))
    <3>1. ParserAt(host, f, 0, parsers[host]) /\ ParserInv(host, parsers[host])
      BY <1>1, <1>2, <2>1, RestsBetween, Zenon
    <3>2. 0 \in Nat /\ 0 < Len(e) /\ 0 + 1 = 1
      BY SMT, <1>2
    <3>3. ParserAt(host, f, 0 + 1, Feed(host, parsers[host], e[0 + 1]))
      BY <1>2, <3>1, <3>2, Reads, Zenon DEF e
    <3> QED BY <1>2, <3>2, <3>3, Zenon
  <2> QED BY <1>12, <1>15, <2>3, <2>4, <2>5, Zenon
<1>16. CASE /\ host = "AtCommand" /\ serial_protocol = "Unknown" /\ ghost.got
            /\ detector.state = "Idle"
  <2>1. n + 1 = Len(e) /\ n + 1 >= Done(host, f)
    BY SMT, <1>2, <1>3, <1>5, <1>16
  <2>2. unknown /\ b = LF
    BY <1>2, <1>5, <1>16, <2>1, Zenon DEF unknown
  <2>3. Detector!Answer(detector, LF) = "Unknown" /\ Detector!feed(detector, LF).state = "Idle"
    BY <1>1, <1>16, <2>2, IdleByte, Zenon
  <2>4. app = "Unknown" /\ fed.state = "Idle"
    BY <1>9, <2>2, <2>3, Zenon
  <2>5. serial_protocol' = "Unknown" /\ detector' = fed /\ ghost' = ghost
    BY <1>7, <2>4, Zenon
  <2> QED BY <1>11, <1>16, <2>1, <2>4, <2>5, Zenon
<1> QED BY <1>3, <1>13, <1>14, <1>15, <1>16, Zenon

-----------------------------------------------------------------------------
\* FollowsInv is inductive.

LEMMA BeginsFrame ==
    ASSUME LimitsAssumption, FramesAssumption, TypesInv, NEW frame, BeginFrame(frame),
           Between, ~ ghost.wrong
    PROVE  current' # NoFrame /\ InFrame(current, 0)' /\ ~ ghost'.wrong
<1> DEFINE e == Encode(host, frame)
<1>1. /\ frame \in FramesOf(host) /\ current' = frame /\ line' = e
      /\ ghost' = [ghost EXCEPT !.got = FALSE] /\ host' = host
      /\ serial_protocol' = serial_protocol /\ detector' = detector /\ parsers' = parsers
  BY Zenon DEF BeginFrame
<1>2. /\ host \in Apps /\ ghost \in Ghosts /\ detector \in Detectors
      /\ noise \in 0 .. MaxNoise
  BY Zenon DEF TypesInv, DetectorInv
<1>3. /\ host \in Protocols /\ frame \in Seq(Bytes) /\ Fits(host, frame)
      /\ e \in Seq(Bytes) /\ Len(e) \in Nat
      /\ Done(host, frame) \in Nat /\ Done(host, frame) >= 2
  BY <1>1, <1>2, FrameUnderWay, Zenon
<1>4. current' # NoFrame
  BY <1>1, <1>2, FrameKnown, Zenon
<1>5. ~ ghost'.got /\ ~ ghost'.wrong
  <2> DEFINE no == FALSE
  <2>1. no \in Truths /\ ghost' = [ghost EXCEPT !.got = no]
    BY <1>1, Zenon DEF Truths
  <2> HIDE DEF no
  <2>2. ghost'.got = no /\ ghost'.wrong = ghost.wrong
    BY SMT, <1>2, <2>1 DEF Ghosts
  <2> QED BY <2>2, Zenon DEF no
<1> HIDE DEF e
<1>6. Remains(line', e, 0) /\ ~ (0 >= Done(host, frame))
  <2>1. 0 <= Len(e) /\ Len(e) = Len(e) - 0 /\ \A i \in 1 .. Len(e) : e[i] = e[0 + i]
    BY SMT, <1>3
  <2>2. ~ (0 >= Done(host, frame))
    BY SMT, <1>3
  <2> QED BY <1>1, <2>1, <2>2, Zenon DEF Remains
<1>7. \/ serial_protocol' = host /\ ParserAt(host, frame, 0, parsers'[host])
      \/ serial_protocol' = "Unknown" /\ Waits(host, detector', MaxNoise)
  <2>1. CASE serial_protocol = host /\ parsers[host] = ParsersAtRest[host]
    <3>1. ParserAt(host, frame, 0, ParsersAtRest[host])
      BY <1>3, RestsBetween, Zenon
    <3> QED BY <1>1, <2>1, <3>1, Zenon
  <2>2. CASE serial_protocol = "Unknown" /\ Waits(host, detector, noise)
    <3>1. detector.state_bytes < noise => detector.state_bytes < MaxNoise
      BY SMT, <1>2 DEF Detectors, LimitsAssumption
    <3>2. Waits(host, detector, MaxNoise)
      BY <2>2, <3>1, Zenon DEF Waits
    <3> QED BY <1>1, <2>2, <3>2, Zenon
  <2> QED BY <2>1, <2>2, Zenon DEF Between
<1>8. InFrame(current, 0)'
  BY <1>1, <1>5, <1>6, <1>7, Zenon DEF InFrame, e
<1> QED BY <1>4, <1>5, <1>8, Zenon

LEMMA NoiseBetween ==
    ASSUME LimitsAssumption, FramesAssumption, TypesInv, NEW b \in Noise, ReadNoise(b),
           Harmless(b), Between, ~ ghost.wrong
    PROVE  Between' /\ ~ ghost'.wrong
<1>1. /\ line = << >> /\ serial_protocol = "Unknown" /\ noise < MaxNoise
      /\ noise' = noise + 1 /\ ProcessSerialByte(b) /\ host' = host /\ line' = line
  BY Zenon DEF ReadNoise
<1>2. /\ host \in Apps /\ noise \in 0 .. MaxNoise /\ detector \in Detectors
      /\ detector.lock_count = 0 /\ MaxNoise \in Nat
  BY <1>1, Zenon DEF TypesInv, DetectorInv, LimitsAssumption
<1>3. host \in Protocols /\ host # "Unknown" /\ b \in Bytes /\ noise \in Nat
  <2>1. host \in Protocols /\ b \in Bytes
    BY <1>2, ZenonT(60) DEF LimitsAssumption, FramesAssumption, Bytes
  <2>2. host # "Unknown"
    BY SMT, <2>1 DEF Protocols
  <2>3. noise \in Nat
    BY SMT, <1>2
  <2> QED BY <2>1, <2>2, <2>3, Zenon
<1>4. Innocent(host, b)
  BY SMT DEF Harmless, Innocent
<1>5. ghost.got /\ Waits(host, detector, noise)
  BY <1>1, <1>3, Zenon DEF Between
<1>6. /\ Detector!Answer(detector, b) = "Unknown"
      /\ Waits(host, Detector!feed(detector, b), noise + 1)
  BY <1>1, <1>2, <1>3, <1>4, <1>5, NoiseByte, Zenon
<1>7. detector' = Detector!feed(detector, b) /\ serial_protocol' = "Unknown" /\ ghost' = ghost
  BY <1>1, <1>6, Zenon DEF ProcessSerialByte
<1> QED BY <1>1, <1>5, <1>6, <1>7, Zenon DEF Between

LEMMA ForgetsAll ==
    ASSUME ghost \in Ghosts, Forget
    PROVE  ghost'.got /\ ~ ghost'.wrong
<1> DEFINE yes == TRUE
           no == FALSE
<1>1. yes \in Truths /\ no \in Truths /\ ghost' = GhostMeans(ghost, yes, no)
  BY Zenon DEF Truths, Forget, GhostMeans
<1> HIDE DEF yes, no
<1>2. ghost'.got = yes /\ ghost'.wrong = no
  BY SMT, <1>1, GhostFields
<1> QED BY <1>2, Zenon DEF yes, no

LEMMA InitFollows == Init => FollowsInv
<1> SUFFICES ASSUME Init PROVE FollowsInv
  OBVIOUS
<1>1. /\ serial_protocol = "Unknown" /\ detector = Detector!Fresh /\ line = << >>
      /\ ghost = [got |-> TRUE, wrong |-> FALSE, corrupt |-> FALSE]
  BY Zenon DEF Init
<1>2. detector.state = "Idle"
  BY SMT, <1>1 DEF Detector!Fresh
<1>3. ghost.got /\ ~ ghost.wrong
  BY <1>1, Zenon
<1> QED BY <1>1, <1>2, <1>3, Zenon DEF FollowsInv, Between, Waits

LEMMA NextFollows ==
    LimitsAssumption /\ FramesAssumption /\ TypesInv /\ FollowsInv /\ [Next]_vars => FollowsInv'
<1> SUFFICES ASSUME LimitsAssumption, FramesAssumption, TypesInv, FollowsInv, [Next]_vars
             PROVE  FollowsInv'
  OBVIOUS
<1>1. ghost \in Ghosts
  BY Zenon DEF TypesInv
<1>2. ASSUME clean, line = << >> PROVE Between /\ ~ ghost.wrong
  BY <1>2, EndsBetween, Zenon DEF FollowsInv
<1>3. ASSUME NEW frame, BeginFrame(frame) PROVE FollowsInv'
  <2> SUFFICES ASSUME clean' PROVE FollowsInv'
    BY Zenon DEF FollowsInv
  <2>1. clean /\ line = << >>
    BY <1>3, Zenon DEF BeginFrame
  <2>2. current' # NoFrame /\ InFrame(current, 0)' /\ ~ ghost'.wrong
    BY <1>2, <1>3, <2>1, BeginsFrame, Zenon
  <2>3. 0 \in Nat
    BY SMT
  <2> QED BY <2>2, <2>3, Zenon DEF FollowsInv
<1>4. ASSUME ReadByte PROVE FollowsInv'
  <2> SUFFICES ASSUME clean' PROVE FollowsInv'
    BY Zenon DEF FollowsInv
  <2>1. clean /\ line # << >> /\ current' = current
    BY <1>4, Zenon DEF ReadByte
  <2>2. ~ ghost.wrong /\ current # NoFrame
    BY <2>1, Zenon DEF FollowsInv, Between
  <2>3. PICK n \in Nat : InFrame(current, n)
    BY <2>1, Zenon DEF FollowsInv, Between
  <2>4. InFrame(current, n + 1)' /\ ~ ghost'.wrong
    BY <1>4, <2>2, <2>3, ReadsOn, Zenon
  <2>5. n + 1 \in Nat
    BY SMT
  <2> QED BY <2>1, <2>2, <2>4, <2>5, Zenon DEF FollowsInv
<1>5. ASSUME LoseByte PROVE FollowsInv'
  BY <1>5, Zenon DEF LoseByte, FollowsInv
<1>6. ASSUME NEW b \in Noise, ReadNoise(b) PROVE FollowsInv'
  <2> SUFFICES ASSUME clean' PROVE FollowsInv'
    BY Zenon DEF FollowsInv
  <2>1. clean /\ Harmless(b) /\ line = << >>
    BY <1>6, Zenon DEF ReadNoise
  <2>2. Between' /\ ~ ghost'.wrong
    BY <1>2, <1>6, <2>1, NoiseBetween, Zenon
  <2> QED BY <2>2, Zenon DEF FollowsInv
<1>7. ASSUME Supervise PROVE FollowsInv'
  <2> SUFFICES ASSUME clean' PROVE FollowsInv'
    BY Zenon DEF FollowsInv
  <2>1. line = << >> /\ Forget /\ ResetProtocol /\ line' = line
    BY <1>7, Zenon DEF Supervise
  <2>2. ghost'.got /\ ~ ghost'.wrong
    BY <1>1, <2>1, ForgetsAll, Zenon
  <2>3. serial_protocol' = "Unknown" /\ detector' = Detector!Fresh
    BY <2>1, Zenon DEF ResetProtocol
  <2>4. Detector!Fresh.state = "Idle"
    BY SMT DEF Detector!Fresh
  <2> QED BY <2>1, <2>2, <2>3, <2>4, Zenon DEF FollowsInv, Between, Waits
<1>8. ASSUME NEW app \in Apps, OpenApp(app) PROVE FollowsInv'
  <2> SUFFICES ASSUME clean' PROVE FollowsInv'
    BY Zenon DEF FollowsInv
  <2>1. /\ line = << >> /\ Forget /\ serial_protocol = "Unknown" /\ detector.state = "Idle"
        /\ serial_protocol' = serial_protocol /\ detector' = detector /\ line' = line
    BY <1>8, Zenon DEF OpenApp
  <2>2. ghost'.got /\ ~ ghost'.wrong
    BY <1>1, <2>1, ForgetsAll, Zenon
  <2> QED BY <2>1, <2>2, Zenon DEF FollowsInv, Between, Waits
<1>9. CASE UNCHANGED vars
  BY <1>9, Zenon DEF vars, FollowsInv, Between, InFrame
<1> QED BY <1>3, <1>4, <1>5, <1>6, <1>7, <1>8, <1>9, Zenon DEF Next

LEMMA FollowsAlways == Spec => [](TypesInv /\ FollowsInv)
<1>1. Init => TypesInv /\ FollowsInv
  BY InitTypesInv, InitFollows, LimitsAssumption, Zenon
<1>2. TypesInv /\ FollowsInv /\ [Next]_vars => (TypesInv /\ FollowsInv)'
  BY NextTypesInv, NextFollows, LimitsAssumption, FramesAssumption, Zenon
<1> QED BY <1>1, <1>2, PTL DEF Spec

(***************************************************************************)
(* A session that began between two frames and lost no byte acts on every  *)
(* frame, whatever the frames are and whatever session was reset before    *)
(* it: the byte the detector took is given to the parser (process_serial_  *)
(* byte of main.rs).                                                       *)
(***************************************************************************)
THEOREM EveryFrameArrives == Spec => []DeliversEveryFrame
<1>1. TypesInv /\ FollowsInv => DeliversEveryFrame
  <2> SUFFICES ASSUME TypesInv, FollowsInv, clean, line = << >> PROVE ghost.got
    BY Zenon DEF DeliversEveryFrame
  <2>1. Between
    BY EndsBetween, LimitsAssumption, FramesAssumption, Zenon DEF FollowsInv
  <2> QED BY <2>1, Zenon DEF Between
<1> QED BY <1>1, FollowsAlways, PTL

(***************************************************************************)
(* Such a session acts on nothing but the frames sent and on each once,    *)
(* and takes the host for the app it is: no byte inside a frame is taken   *)
(* for the end of it or for the opening of another protocol.               *)
(***************************************************************************)
THEOREM NothingElseArrives == Spec => []DeliversNothingElse
<1>1. FollowsInv => DeliversNothingElse
  BY Zenon DEF FollowsInv, Between, InFrame, DeliversNothingElse
<1> QED BY <1>1, FollowsAlways, PTL
=============================================================================

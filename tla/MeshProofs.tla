----------------------------- MODULE MeshProofs ------------------------------
(***************************************************************************)
(* What a node does with messages for others: the duplicate filter         *)
(* (Dedup), the addresses of MeshCore (AddressTable), the flooding of      *)
(* Meshtastic (MeshtasticRouting), and packets in layers and secured       *)
(* messages (Onion); and all the parts of Mesh together.                   *)
(***************************************************************************)
EXTENDS Mesh, SessionProofs, MeshtasticProofs, FiniteSetTheorems,
        SequenceTheorems, WellFoundedInduction, TLAPS

(***************************************************************************)
(* The duplicate filter, for every ring size and every set of              *)
(* fingerprints.  RingInv is inductive: NoDuplicateSlots alone is not,     *)
(* because the slot that Insert overwrites and the slots it leaves live    *)
(* are related only through FillsFromZero.                                 *)
(***************************************************************************)
RingInv ==
    /\ TypeOK
    /\ FillsFromZero
    /\ NoDuplicateSlots

(* The write position stays in the ring, and moves by one slot or to 0. *)
LEMMA NextSlot ==
    ASSUME NEW i \in Slots
    PROVE  (i + 1) % RingSize = IF i + 1 = RingSize THEN 0 ELSE i + 1
<1>1. CASE i + 1 = RingSize
    BY <1>1, RingSizeAssumption DEF Slots
<1>2. CASE i + 1 # RingSize
    <2>1. i + 1 \in Nat /\ i + 1 < RingSize
        BY <1>2, RingSizeAssumption DEF Slots
    <2>2. QED
        BY <1>2, <2>1, RingSizeAssumption
<1>3. QED
    BY <1>1, <1>2

(* What Insert does to a well-formed ring, without the modulus. *)
LEMMA InsertEffect ==
    ASSUME NEW r \in Ring, NEW h \in Hashes
    PROVE  /\ Insert(r, h) \in Ring
           /\ Insert(r, h).hashes = [r.hashes EXCEPT ![r.head] = h]
           /\ Insert(r, h).head = IF r.head + 1 = RingSize THEN 0 ELSE r.head + 1
           /\ Insert(r, h).count = IF r.count < RingSize THEN r.count + 1 ELSE r.count
<1>1. r.head \in Slots
    BY DEF Ring
<1>2. (r.head + 1) % RingSize = IF r.head + 1 = RingSize THEN 0 ELSE r.head + 1
    BY <1>1, NextSlot
<1>3. (r.head + 1) % RingSize \in Slots
    BY <1>1, <1>2, RingSizeAssumption DEF Slots
<1>4. QED
    BY <1>2, <1>3, RingSizeAssumption DEF Insert, Ring, Slots

(***************************************************************************)
(* The ring stays well formed, fills from slot 0 and holds no fingerprint  *)
(* twice (check_and_insert and clear, main.rs).                            *)
(***************************************************************************)
THEOREM RingInvariant == Spec => []RingInv
<1>1. Init => RingInv
    BY RingSizeAssumption
    DEF Init, RingInv, TypeOK, FillsFromZero, NoDuplicateSlots, EmptyRing, Ring, Slots
<1>2. RingInv /\ [Next]_vars => RingInv'
    <2> SUFFICES ASSUME RingInv, [Next]_vars
                 PROVE  RingInv'
        OBVIOUS
    <2>1. ASSUME NEW h \in Hashes, CheckAndInsert(h)
          PROVE  RingInv'
        <3>1. CASE Seen(ring, h)
            BY <2>1, <3>1
            DEF CheckAndInsert, RingInv, TypeOK, FillsFromZero, NoDuplicateSlots
        <3>2. CASE ~ Seen(ring, h)
            <4>1. ring' = Insert(ring, h) /\ ring \in Ring
                BY <2>1, <3>2 DEF CheckAndInsert, RingInv, TypeOK
            <4>2. PICK c \in 0 .. RingSize, d \in Slots :
                     /\ c = ring.count /\ d = ring.head
                     /\ ring.hashes \in [Slots -> Hashes \cup {EmptySlot}]
                     /\ c < RingSize => d = c
                BY <4>1 DEF Ring, RingInv, FillsFromZero
            <4>3. /\ ring' \in Ring
                  /\ ring'.hashes = [ring.hashes EXCEPT ![d] = h]
                  /\ ring'.head = IF d + 1 = RingSize THEN 0 ELSE d + 1
                  /\ ring'.count = IF c < RingSize THEN c + 1 ELSE c
                BY <4>1, <4>2, InsertEffect
            <4>4. TypeOK'
                BY <2>1, <4>3 DEF CheckAndInsert, TypeOK
            <4>5. FillsFromZero'
                BY <4>2, <4>3, RingSizeAssumption DEF FillsFromZero, Slots
            <4>6. \A s \in 0 .. c - 1 : ring.hashes[s] # h
                BY <3>2, <4>2 DEF Seen
            <4>7. ASSUME NEW s \in 0 .. ring'.count - 1, NEW t \in 0 .. ring'.count - 1,
                         ring'.hashes[s] = ring'.hashes[t]
                  PROVE  s = t
                <5>1. s \in Slots /\ t \in Slots
                    BY <4>2, <4>3, RingSizeAssumption DEF Slots
                <5>2. /\ s # d => s \in 0 .. c - 1
                      /\ t # d => t \in 0 .. c - 1
                    BY <4>2, <4>3, RingSizeAssumption DEF Slots
                <5>3. /\ ring'.hashes[s] = IF s = d THEN h ELSE ring.hashes[s]
                      /\ ring'.hashes[t] = IF t = d THEN h ELSE ring.hashes[t]
                    BY <4>2, <4>3, <5>1
                <5>4. CASE s = d \/ t = d
                    BY <4>6, <4>7, <5>2, <5>3, <5>4
                <5>5. CASE s # d /\ t # d
                    BY <4>2, <4>7, <5>2, <5>3, <5>5 DEF RingInv, NoDuplicateSlots
                <5>6. QED
                    BY <5>4, <5>5
            <4>8. NoDuplicateSlots'
                BY <4>7 DEF NoDuplicateSlots
            <4>9. QED
                BY <4>4, <4>5, <4>8 DEF RingInv
        <3>3. QED
            BY <3>1, <3>2
    <2>2. CASE Clear
        BY <2>2, RingSizeAssumption
        DEF Clear, RingInv, TypeOK, FillsFromZero, NoDuplicateSlots, EmptyRing, Ring, Slots
    <2>3. CASE UNCHANGED vars
        BY <2>3 DEF vars, RingInv, TypeOK, FillsFromZero, NoDuplicateSlots
    <2>4. QED
        BY <2>1, <2>2, <2>3 DEF Next
<1>3. QED
    BY <1>1, <1>2, PTL DEF Spec
-----------------------------------------------------------------------------
(* No fingerprint is in two live slots, in particular (check_and_insert,    *)
(* main.rs).                                                               *)
THEOREM RingHasNoDuplicates == Spec => []NoDuplicateSlots
<1>1. RingInv => NoDuplicateSlots
    BY DEF RingInv
<1>2. QED
    BY <1>1, RingInvariant, PTL

(* The window has one entry per live slot, and each live slot one entry. *)
LEMMA WindowShape ==
    ASSUME RingInv
    PROVE  /\ WindowOf \in Seq(Hashes \cup {EmptySlot})
           /\ Len(WindowOf) = ring.count
           /\ \A i \in 1 .. ring.count :
                /\ SlotAt(i) \in 0 .. ring.count - 1
                /\ WindowOf[i] = ring.hashes[SlotAt(i)]
           /\ \A s \in 0 .. ring.count - 1 : \E i \in 1 .. ring.count : SlotAt(i) = s
<1>1. PICK c \in 0 .. RingSize, d \in Slots :
         /\ c = ring.count /\ d = ring.head
         /\ ring.hashes \in [Slots -> Hashes \cup {EmptySlot}]
    BY DEF RingInv, TypeOK, Ring
<1>2. \A i \in 1 .. c : SlotAt(i) \in 0 .. c - 1
    BY SMTT(30), <1>1, RingSizeAssumption DEF SlotAt, Slots
<1>3. ASSUME NEW s \in 0 .. c - 1
      PROVE  \E i \in 1 .. c : SlotAt(i) = s
    <2>1. CASE c < RingSize
        <3>1. s + 1 \in 1 .. c /\ SlotAt(s + 1) = s
            BY <1>1, <2>1 DEF SlotAt
        <3>2. QED
            BY <3>1
    <2>2. CASE c = RingSize /\ s >= d
        <3>1. s - d + 1 \in 1 .. c /\ SlotAt(s - d + 1) = s
            BY <1>1, <2>2, RingSizeAssumption DEF SlotAt, Slots
        <3>2. QED
            BY <3>1
    <2>3. CASE c = RingSize /\ s < d
        <3>1. s - d + 1 + RingSize \in 1 .. c /\ SlotAt(s - d + 1 + RingSize) = s
            BY <1>1, <2>3, RingSizeAssumption DEF SlotAt, Slots
        <3>2. QED
            BY <3>1
    <2>4. QED
        BY <2>1, <2>2, <2>3, <1>1, RingSizeAssumption DEF Slots
<1>4. WindowOf = [i \in 1 .. c |-> ring.hashes[SlotAt(i)]]
    BY <1>1 DEF WindowOf
<1>5. \A i \in 1 .. c : ring.hashes[SlotAt(i)] \in Hashes \cup {EmptySlot}
    BY <1>1, <1>2, RingSizeAssumption DEF Slots
<1>6. WindowOf \in [1 .. c -> Hashes \cup {EmptySlot}]
    BY <1>4, <1>5
<1>7. WindowOf \in Seq(Hashes \cup {EmptySlot}) /\ Len(WindowOf) = c
    BY <1>6
<1>8. QED
    BY <1>1, <1>2, <1>3, <1>4, <1>7

(* The scan of the slots sees what the window remembers. *)
LEMMA SeenIsRemembered ==
    ASSUME RingInv, NEW h \in Hashes
    PROVE  Seen(ring, h) <=> h \in Window!Remembered
<1>1. Seen(ring, h) <=> \E i \in 1 .. ring.count : ring.hashes[SlotAt(i)] = h
    BY WindowShape DEF Seen
<1>2. h \in Window!Remembered <=> \E i \in 1 .. Len(WindowOf) : WindowOf[i] = h
    BY Zenon DEF Window!Remembered
<1>3. /\ Len(WindowOf) = ring.count
      /\ \A i \in 1 .. ring.count : WindowOf[i] = ring.hashes[SlotAt(i)]
    BY WindowShape, Zenon
<1>4. QED
    BY <1>1, <1>2, <1>3, Zenon

(* An insertion appends to the window, dropping the oldest entry when full. *)
LEMMA InsertShiftsWindow ==
    ASSUME RingInv, RingInv', NEW h \in Hashes, ring' = Insert(ring, h)
    PROVE  WindowOf' = Append(IF Len(WindowOf) = RingSize THEN Tail(WindowOf)
                                                          ELSE WindowOf, h)
<1>1. PICK c \in 0 .. RingSize, d \in Slots :
         /\ c = ring.count /\ d = ring.head /\ ring \in Ring
         /\ ring.hashes \in [Slots -> Hashes \cup {EmptySlot}]
         /\ c < RingSize => d = c
    BY DEF RingInv, TypeOK, FillsFromZero, Ring
<1>2. /\ ring'.hashes = [ring.hashes EXCEPT ![d] = h]
      /\ ring'.head = IF d + 1 = RingSize THEN 0 ELSE d + 1
      /\ ring'.count = IF c < RingSize THEN c + 1 ELSE c
    BY <1>1, InsertEffect
<1>3. /\ WindowOf \in Seq(Hashes \cup {EmptySlot})
      /\ Len(WindowOf) = c
      /\ \A i \in 1 .. c : /\ SlotAt(i) \in 0 .. c - 1
                           /\ WindowOf[i] = ring.hashes[SlotAt(i)]
    BY <1>1, WindowShape
<1> DEFINE n == ring'.count
           w == Append(IF c = RingSize THEN Tail(WindowOf) ELSE WindowOf, h)
<1>4. n \in 1 .. RingSize
    BY <1>1, <1>2, RingSizeAssumption
<1>5. w \in Seq(Hashes \cup {EmptySlot}) /\ Len(w) = n
    BY <1>1, <1>2, <1>3, RingSizeAssumption
<1>6. /\ w[n] = h
      /\ \A i \in 1 .. n - 1 : w[i] = IF c = RingSize THEN WindowOf[i + 1] ELSE WindowOf[i]
    BY <1>1, <1>2, <1>3, RingSizeAssumption
<1>7. ASSUME NEW i \in 1 .. n
      PROVE  WindowOf'[i] = w[i]
    <2>1. WindowOf'[i] = ring'.hashes[SlotAt(i)']
        BY <1>4 DEF WindowOf
    <2>2. SlotAt(i)' = IF n < RingSize THEN i - 1
                       ELSE IF ring'.head + i - 1 < RingSize THEN ring'.head + i - 1
                       ELSE ring'.head + i - 1 - RingSize
        BY DEF SlotAt
    <2>3. CASE i = n
        <3>1. SlotAt(i)' = d
            <4>1. CASE c + 1 < RingSize
                <5>1. n = c + 1 /\ n < RingSize /\ d = c
                    BY <1>1, <1>2, <4>1, RingSizeAssumption
                <5>2. QED
                    BY <1>1, <2>2, <2>3, <5>1
            <4>2. CASE c + 1 = RingSize
                <5>1. n = RingSize /\ ring'.head = 0 /\ d = RingSize - 1
                    BY <1>1, <1>2, <4>2, RingSizeAssumption DEF Slots
                <5>2. QED
                    BY <2>2, <2>3, <5>1, RingSizeAssumption
            <4>3. CASE c = RingSize
                <5>1. n = RingSize /\ d \in 0 .. RingSize - 1
                    BY <1>1, <1>2, <4>3 DEF Slots
                <5>2. QED
                    BY <1>2, <2>2, <2>3, <5>1, RingSizeAssumption
            <4>4. QED
                BY <1>1, <4>1, <4>2, <4>3, RingSizeAssumption
        <3>2. QED
            BY <1>1, <1>2, <1>6, <2>1, <2>3, <3>1
    <2>4. CASE i < n /\ c = RingSize
        <3>1. i + 1 \in 1 .. c
            BY <1>1, <1>2, <2>4
        <3>2. SlotAt(i)' = SlotAt(i + 1) /\ SlotAt(i + 1) # d /\ SlotAt(i + 1) \in Slots
            <4> DEFINE next == IF d + i < RingSize THEN d + i ELSE d + i - RingSize
            <4>1. d \in 0 .. RingSize - 1 /\ i \in 1 .. RingSize - 1 /\ n = RingSize
                BY <1>1, <1>2, <1>4, <2>4, RingSizeAssumption DEF Slots
            <4>2. SlotAt(i + 1) = next
                BY <1>1, <2>4, <4>1, RingSizeAssumption DEF SlotAt
            <4>3. SlotAt(i)' = next
                <5>1. ring'.head = IF d + 1 = RingSize THEN 0 ELSE d + 1
                    BY <1>2
                <5>2. QED
                    BY <2>2, <4>1, <5>1, RingSizeAssumption
            <4>4. next # d /\ next \in Slots
                BY <4>1, RingSizeAssumption DEF Slots
            <4>5. QED
                BY <4>2, <4>3, <4>4
        <3>3. w[i] = ring.hashes[SlotAt(i + 1)]
            <4>1. i \in 1 .. n - 1
                BY <1>4, <2>4
            <4>2. w[i] = WindowOf[i + 1]
                BY <1>6, <2>4, <4>1, Zenon
            <4>3. QED
                BY <1>3, <3>1, <4>2, Zenon
        <3>4. ring'.hashes[SlotAt(i + 1)] = ring.hashes[SlotAt(i + 1)]
            BY <1>1, <1>2, <3>2
        <3>5. QED
            BY <2>1, <3>2, <3>3, <3>4
    <2>5. CASE i < n /\ c < RingSize
        <3>1. SlotAt(i)' = i - 1 /\ SlotAt(i) = i - 1 /\ i - 1 # d /\ i - 1 \in Slots
            BY <1>1, <1>2, <1>4, <2>2, <2>5, RingSizeAssumption DEF Slots, SlotAt
        <3>2. i \in 1 .. c
            BY <1>1, <1>2, <2>5
        <3>3. QED
            BY <1>1, <1>2, <1>3, <1>6, <2>1, <2>5, <3>1, <3>2
    <2>6. (i = n \/ i < n) /\ (c = RingSize \/ c < RingSize)
        BY <1>1, <1>4, RingSizeAssumption
    <2>7. QED
        BY <2>3, <2>4, <2>5, <2>6
<1>8. WindowOf' = [i \in 1 .. n |-> WindowOf'[i]]
    BY DEF WindowOf
<1>9. w = [i \in 1 .. n |-> w[i]]
    BY <1>5
<1>10. WindowOf' = w
    BY <1>7, <1>8, <1>9
<1>11. QED
    BY <1>3, <1>10

(***************************************************************************)
(* The ring implements the abstract filter DedupWindow: every call of      *)
(* check_and_insert is a Pass or a Drop of the window of the last RingSize *)
(* distinct packets (check_and_insert and clear, main.rs).                 *)
(***************************************************************************)
THEOREM RingImplementsWindow == Spec => ImplementsWindow
<1>1. Init => Window!Init
    <2> SUFFICES ASSUME Init PROVE Window!Init
        OBVIOUS
    <2>1. WindowOf = << >>
        BY DEF Init, EmptyRing, WindowOf
    <2>2. QED
        BY <2>1 DEF Init, Window!Init, Window!Verdicts
<1>2. RingInv /\ RingInv' /\ [Next]_vars => [Window!Next]_(Window!vars)
    <2> SUFFICES ASSUME RingInv, RingInv', [Next]_vars
                 PROVE  [Window!Next]_(Window!vars)
        OBVIOUS
    <2>1. ASSUME NEW h \in Hashes, CheckAndInsert(h), Seen(ring, h)
          PROVE  Window!Drop(h)
        <3>1. ring' = ring
            BY <2>1 DEF CheckAndInsert
        <3>2. WindowOf' = WindowOf
            BY <3>1 DEF WindowOf, SlotAt
        <3>3. QED
            BY <2>1, <3>2, SeenIsRemembered DEF CheckAndInsert, Window!Drop
    <2>2. ASSUME NEW h \in Hashes, CheckAndInsert(h), ~ Seen(ring, h)
          PROVE  Window!Pass(h)
        <3>1. ring' = Insert(ring, h) /\ verdict' = [hash |-> h, passed |-> TRUE]
            BY <2>2 DEF CheckAndInsert
        <3>2. QED
            BY <2>2, <3>1, SeenIsRemembered, InsertShiftsWindow DEF Window!Pass
    <2>3. CASE Clear
        <3>1. WindowOf' = << >>
            BY <2>3 DEF Clear, EmptyRing, WindowOf
        <3>2. QED
            BY <2>3, <3>1 DEF Clear, Window!Next, Window!Forget
    <2>4. CASE UNCHANGED vars
        BY <2>4 DEF vars, Window!vars, WindowOf, SlotAt
    <2>5. QED
        BY <2>1, <2>2, <2>3, <2>4 DEF Next, Window!Next
<1>3. QED
    BY <1>1, <1>2, RingInvariant, PTL DEF Spec, Window!Spec, ImplementsWindow

-----------------------------------------------------------------------------
\* The table of addresses.

\* The entries of an index when every registered key has its own.
Entries(n) == {<<AddressOf[k][n], k>> : k \in registered}

\* The entries belong to registered keys, whatever has clashed: so that an
\* empty table has no entries left.
AddressInv ==
    /\ clashed \in BOOLEAN
    /\ registered \subseteq PublicKeys /\ IsFiniteSet(registered)
    /\ DOMAIN index = Networks
    /\ \A n \in Networks : index[n] \subseteq Entries(n)
    /\ clashed \/ /\ Cardinality(registered) <= MaxKnown
                  /\ \A j, k \in registered : j # k => ~ Shares(j, k)
                  /\ \A n \in Networks : index[n] = Entries(n)

\* An index has no more entries than there are registered keys.
LEMMA EntriesCounted ==
    ASSUME AddressInv, NEW n \in Networks
    PROVE  /\ IsFiniteSet(index[n]) /\ Cardinality(index[n]) \in Nat
           /\ Cardinality(index[n]) <= Cardinality(registered)
<1> DEFINE f == [e \in index[n] |-> e[2]]
<1>1. f \in Injection(index[n], registered)
  BY DEF AddressInv, Entries, Injection, IsInjective
<1>2. IsFiniteSet(registered)
  BY DEF AddressInv
<1>3. IsFiniteSet(index[n]) /\ Cardinality(index[n]) <= Cardinality(registered)
  BY <1>1, <1>2, FS_Injection
<1> QED BY <1>3, FS_CardinalityType

LEMMA RegisterKeeps ==
    ASSUME AddressAssumption, AddressInv, NEW key \in PublicKeys, Register(key)
    PROVE  AddressInv'
<1>1. /\ registered' = registered \cup {key}
      /\ index' = [n \in Networks |-> Inserted(index[n], AddressOf[key][n], key)]
      /\ clashed' = (clashed \/ Cardinality(registered') > MaxKnown
                     \/ \E other \in registered \ {key} : Shares(key, other))
  BY DEF Register
<1>2. /\ registered' \subseteq PublicKeys /\ IsFiniteSet(registered')
      /\ Cardinality(registered') \in Nat
      /\ Cardinality(registered') = IF key \in registered THEN Cardinality(registered)
                                    ELSE Cardinality(registered) + 1
  BY <1>1, FS_AddElement, FS_CardinalityType DEF AddressInv
<1>3. clashed' \in BOOLEAN
  BY <1>1 DEF AddressInv
<1>4. ASSUME NEW n \in Networks PROVE index'[n] \subseteq Entries(n)'
  BY <1>1, <1>4 DEF AddressInv, Entries, Inserted, Without
<1>5. CASE ~ clashed'
  <2>1. /\ ~ clashed /\ Cardinality(registered') <= MaxKnown
        /\ \A other \in registered \ {key} : ~ Shares(key, other)
    <3>1. /\ ~ clashed /\ ~ (Cardinality(registered') > MaxKnown)
          /\ ~ \E other \in registered \ {key} : Shares(key, other)
      BY <1>1, <1>5, Zenon
    <3> QED BY <1>2, <3>1 DEF AddressAssumption
  <2>2. \A j, k \in registered' : j # k => ~ Shares(j, k)
    BY <1>1, <2>1 DEF AddressInv, Shares
  <2>3. ASSUME NEW n \in Networks PROVE index'[n] = Entries(n)'
    <3>1. /\ index[n] = Entries(n)
          /\ index'[n] = Inserted(index[n], AddressOf[key][n], key)
      BY <1>1, <2>1 DEF AddressInv
    <3>2. \A other \in registered \ {key} : AddressOf[other][n] # AddressOf[key][n]
      BY <2>1 DEF Shares
    <3>3. Without(index[n], AddressOf[key][n]) \cup {<<AddressOf[key][n], key>>} = Entries(n)'
      BY <1>1, <3>1, <3>2 DEF Without, Entries
    <3>4. CASE key \in registered
      <4>1. Without(index[n], AddressOf[key][n]) # index[n]
        <5>1. <<AddressOf[key][n], key>> \in index[n]
          BY <3>1, <3>4 DEF Entries
        <5>2. <<AddressOf[key][n], key>> \notin Without(index[n], AddressOf[key][n])
          BY DEF Without
        <5> QED BY <5>1, <5>2
      <4> QED BY <3>1, <3>3, <4>1 DEF Inserted
    <3>5. CASE key \notin registered
      <4>1. Cardinality(index[n]) \in Nat /\ Cardinality(index[n]) <= Cardinality(registered)
        BY EntriesCounted
      <4>2. Cardinality(registered) \in Nat
        BY FS_CardinalityType DEF AddressInv
      <4>3. Cardinality(index[n]) < MaxKnown
        BY <1>2, <2>1, <3>5, <4>1, <4>2 DEF AddressAssumption
      <4> QED BY <3>1, <3>3, <4>3 DEF Inserted
    <3> QED BY <3>4, <3>5
  <2> QED BY <1>1, <1>2, <1>3, <1>4, <2>1, <2>2, <2>3 DEF AddressInv
<1>6. CASE clashed'
  BY <1>1, <1>2, <1>3, <1>4, <1>6 DEF AddressInv
<1> QED BY <1>3, <1>5, <1>6

LEMMA UnregisterKeeps ==
    ASSUME AddressAssumption, AddressInv, NEW key \in PublicKeys, Unregister(key)
    PROVE  AddressInv'
<1>1. /\ registered' = registered \ {key}
      /\ index' = [n \in Networks |-> Without(index[n], AddressOf[key][n])]
      /\ clashed' = /\ registered' # {}
                    /\ clashed \/ \E other \in registered' : Shares(key, other)
  BY DEF Unregister
<1>2. /\ registered' \subseteq PublicKeys /\ IsFiniteSet(registered')
      /\ Cardinality(registered') \in Nat /\ Cardinality(registered) \in Nat
      /\ Cardinality(registered') <= Cardinality(registered)
  BY <1>1, FS_Subset, FS_CardinalityType DEF AddressInv
<1>3. clashed' \in BOOLEAN /\ DOMAIN index' = Networks
  BY <1>1 DEF AddressInv
<1>4. ASSUME NEW n \in Networks PROVE index'[n] \subseteq Entries(n)'
  BY <1>1, <1>4 DEF AddressInv, Entries, Without
<1>5. CASE clashed'
  BY <1>1, <1>2, <1>3, <1>4, <1>5 DEF AddressInv
<1>6. CASE registered' = {}
  <2>1. \A n \in Networks : index'[n] = Entries(n)'
    BY <1>4, <1>6 DEF Entries
  <2>2. Cardinality(registered') <= MaxKnown
    BY <1>6, FS_EmptySet DEF AddressAssumption
  <2> QED BY <1>2, <1>3, <1>4, <1>6, <2>1, <2>2 DEF AddressInv
<1>7. CASE ~ clashed' /\ registered' # {}
  <2>1. ~ clashed /\ \A other \in registered' : ~ Shares(key, other)
    BY <1>1, <1>7
  <2>2. \A n \in Networks : index'[n] = Entries(n)'
    BY <1>1, <2>1 DEF AddressInv, Entries, Without, Shares
  <2>3. Cardinality(registered') <= MaxKnown
    BY <1>2, <2>1 DEF AddressInv, AddressAssumption
  <2>4. \A j, k \in registered' : j # k => ~ Shares(j, k)
    BY <1>1, <2>1 DEF AddressInv
  <2> QED BY <1>2, <1>3, <1>4, <2>2, <2>3, <2>4 DEF AddressInv
<1> QED BY <1>5, <1>6, <1>7

LEMMA InitAddressInv == AddressAssumption /\ AddressInit => AddressInv
<1> SUFFICES ASSUME AddressAssumption, AddressInit PROVE AddressInv
  OBVIOUS
<1>1. IsFiniteSet({}) /\ Cardinality({}) = 0
  BY FS_EmptySet
<1>2. registered = {} /\ clashed = FALSE /\ index = [n \in Networks |-> {}]
  BY DEF AddressInit
<1>3. Cardinality(registered) <= MaxKnown /\ IsFiniteSet(registered)
  BY <1>1, <1>2 DEF AddressAssumption
<1>4. \A n \in Networks : index[n] = Entries(n)
  BY <1>2 DEF Entries
<1> QED BY <1>2, <1>3, <1>4 DEF AddressInv

LEMMA NextAddressInv ==
    AddressAssumption /\ AddressInv /\ [AddressNext]_addressVars => AddressInv'
<1> SUFFICES ASSUME AddressAssumption, AddressInv, [AddressNext]_addressVars
             PROVE  AddressInv'
  OBVIOUS
<1>1. CASE UNCHANGED addressVars
  BY <1>1 DEF AddressInv, Entries, addressVars
<1> QED BY <1>1, RegisterKeeps, UnregisterKeeps DEF AddressNext

LEMMA AgreementFollows == AddressInv => IndexesAgree
<1> SUFFICES ASSUME AddressInv, ~ clashed, NEW n \in Networks, NEW key \in PublicKeys
             PROVE  key \in Lookup(n, AddressOf[key][n]) <=> key \in registered
  BY DEF IndexesAgree
<1>1. index[n] = Entries(n)
  BY DEF AddressInv
<1>2. ASSUME key \in registered PROVE key \in Lookup(n, AddressOf[key][n])
  <2>1. <<AddressOf[key][n], key>> \in {f \in index[n] : f[1] = AddressOf[key][n]}
    BY <1>1, <1>2 DEF Entries
  <2>2. <<AddressOf[key][n], key>>[2] = key
    OBVIOUS
  <2> QED BY <2>1, <2>2 DEF Lookup
<1>3. ASSUME key \in Lookup(n, AddressOf[key][n]) PROVE key \in registered
  <2>1. PICK e \in index[n] : e[2] = key
    BY <1>3 DEF Lookup
  <2>2. PICK k \in registered : e = <<AddressOf[k][n], k>>
    BY <1>1, <2>1 DEF Entries
  <2> QED BY <2>1, <2>2
<1> QED BY <1>2, <1>3

\* For any keys, addresses and networks: until two registered keys share an
\* address or there are too many, each is found in every network, and no other
\* is; and after a clash again once the table has been emptied (register,
\* unregister).
THEOREM AddressesAreFound == AddressSpec => []IndexesAgree
<1>1. AddressAssumption
  BY AddressAssumption
<1> QED BY <1>1, InitAddressInv, NextAddressInv, AgreementFollows, PTL DEF AddressSpec

\* An index has one entry for an address and no more than it has room for, even
\* after a clash.
OneEach(entries) ==
    /\ IsFiniteSet(entries) /\ Cardinality(entries) <= MaxKnown
    /\ \A e, f \in entries : e[1] = f[1] => e = f

\* FnvIndexMap::remove leaves fewer entries, or all of them.
LEMMA RemovedOneEach ==
    ASSUME AddressAssumption, NEW entries, OneEach(entries), NEW address
    PROVE  /\ OneEach(Without(entries, address))
           /\ Without(entries, address) # entries =>
                 Cardinality(Without(entries, address)) < Cardinality(entries)
<1> DEFINE others == Without(entries, address)
<1>1. others \subseteq entries /\ IsFiniteSet(entries)
  BY DEF Without, OneEach
<1> HIDE DEF others
<1>2. /\ IsFiniteSet(others) /\ Cardinality(others) <= Cardinality(entries)
      /\ Cardinality(others) = Cardinality(entries) => others = entries
  BY <1>1, FS_Subset
<1>3. Cardinality(others) \in Nat /\ Cardinality(entries) \in Nat
  BY <1>1, <1>2, FS_CardinalityType
<1>4. OneEach(others)
  BY <1>1, <1>2, <1>3 DEF OneEach, AddressAssumption
<1> QED BY <1>2, <1>3, <1>4 DEF others

\* FnvIndexMap::insert keeps the room and one entry for an address.
LEMMA InsertedOneEach ==
    ASSUME AddressAssumption, NEW entries, OneEach(entries), NEW address, NEW key
    PROVE  OneEach(Inserted(entries, address, key))
<1> DEFINE others == Without(entries, address)
           more   == others \cup {<<address, key>>}
<1>1. /\ OneEach(others)
      /\ others # entries => Cardinality(others) < Cardinality(entries)
  BY RemovedOneEach
<1>2. \A e \in others : e[1] # address
  BY DEF Without
<1>3. Inserted(entries, address, key) =
        IF others # entries \/ Cardinality(entries) < MaxKnown THEN more ELSE entries
  BY DEF Inserted
<1> HIDE DEF others
<1>4. /\ IsFiniteSet(more) /\ Cardinality(others) \in Nat /\ Cardinality(entries) \in Nat
      /\ Cardinality(more) \in Nat /\ Cardinality(more) <= Cardinality(others) + 1
  <2>1. IsFiniteSet(others) /\ IsFiniteSet(entries)
    BY <1>1 DEF OneEach
  <2>2. Cardinality(others) \in Nat /\ Cardinality(entries) \in Nat
    BY <2>1, FS_CardinalityType
  <2>3. /\ IsFiniteSet(more)
        /\ Cardinality(more) = IF <<address, key>> \in others THEN Cardinality(others)
                               ELSE Cardinality(others) + 1
    BY <2>1, FS_AddElement
  <2> HIDE DEF more
  <2> QED BY <2>2, <2>3
<1>5. \A e, f \in more : e[1] = f[1] => e = f
  BY <1>1, <1>2 DEF OneEach
<1> HIDE DEF more
<1>6. CASE others # entries \/ Cardinality(entries) < MaxKnown
  <2>1. Cardinality(more) <= MaxKnown
    BY <1>1, <1>4, <1>6 DEF OneEach, AddressAssumption
  <2> QED BY <1>3, <1>4, <1>5, <1>6, <2>1 DEF OneEach
<1>7. CASE ~ (others # entries \/ Cardinality(entries) < MaxKnown)
  BY <1>3, <1>7
<1> QED BY <1>6, <1>7

\* The table of addresses keeps within its room, for any keys and addresses.
LEMMA AddressTypes == AddressSpec => []AddressTypeOK
<1> DEFINE Inv == AddressInv /\ \A n \in Networks : OneEach(index[n])
<1>1. AddressInit => Inv
  <2> SUFFICES ASSUME AddressInit PROVE \A n \in Networks : OneEach(index[n])
    BY AddressAssumption, InitAddressInv
  <2>1. index = [n \in Networks |-> {}] /\ IsFiniteSet({}) /\ Cardinality({}) = 0
    BY FS_EmptySet DEF AddressInit
  <2> QED BY <2>1, AddressAssumption DEF OneEach, AddressAssumption
<1>2. Inv /\ [AddressNext]_addressVars => Inv'
  <2> SUFFICES ASSUME Inv, [AddressNext]_addressVars
               PROVE  \A n \in Networks : OneEach(index'[n])
    BY AddressAssumption, NextAddressInv
  <2> TAKE n \in Networks
  <2>1. ASSUME NEW key \in PublicKeys, Register(key) PROVE OneEach(index'[n])
    BY <2>1, AddressAssumption, InsertedOneEach DEF Register
  <2>2. ASSUME NEW key \in PublicKeys, Unregister(key) PROVE OneEach(index'[n])
    BY <2>2, AddressAssumption, RemovedOneEach DEF Unregister
  <2>3. CASE UNCHANGED addressVars
    BY <2>3 DEF addressVars
  <2> QED BY <2>1, <2>2, <2>3 DEF AddressNext
<1>3. Inv => AddressTypeOK
  <2> SUFFICES ASSUME Inv PROVE AddressTypeOK
    OBVIOUS
  <2>1. ASSUME NEW n \in Networks, NEW e \in index[n] PROVE AddressOf[e[2]][n] = e[1]
    BY <2>1 DEF AddressInv, Entries
  <2> QED BY <2>1 DEF OneEach, AddressInv, AddressTypeOK
<1> QED BY <1>1, <1>2, <1>3, PTL DEF AddressSpec
-----------------------------------------------------------------------------
(***************************************************************************)
(* Flooding.  The entry of a packet that k others have followed into the   *)
(* cache is k places before the last one written, so that a packet with    *)
(* fewer than CacheSize followers is found; and what a node has sent came  *)
(* to it along as many links as hops have been spent.                      *)
(***************************************************************************)
CacheEntry == [id : PacketIds \cup {0}, at : Nat]
PacketCache == [entries : [1 .. CacheSize -> CacheEntry], next : 1 .. CacheSize]
AirPacket == [id : PacketIds, to : Routers \cup {Everyone}, hops : 0 .. HopLimit, by : Routers]

\* Where the k-th entry before the last one written is.
Place(next, k) == IF k < next - 1 THEN next - 1 - k ELSE next - 1 - k + CacheSize

Remembered(n) ==
    \A id \in PacketIds :
        younger[n][id] < CacheSize =>
            cache[n].entries[Place(cache[n].next, younger[n][id])].id = id

RoutingInv ==
    /\ routeClock \in 0 .. MaxRouteClock
    /\ cache \in [Routers -> PacketCache]
    /\ flooded \subseteq AirPacket
    /\ DOMAIN forwarded = Routers
    /\ younger \in [Routers -> [PacketIds -> 0 .. CacheSize]]
    /\ \A n \in Routers : Remembered(n)
    /\ HopsAreSpent

\* The place of an entry, before and after another one is written.
LEMMA Places ==
    ASSUME RoutingAssumption, NEW next \in 1 .. CacheSize
    PROVE  /\ (next % CacheSize) + 1 \in 1 .. CacheSize
           /\ Place((next % CacheSize) + 1, 0) = next
           /\ \A k \in 0 .. CacheSize - 1 : Place(next, k) \in 1 .. CacheSize
           /\ \A k \in 0 .. CacheSize - 2 :
                 /\ Place((next % CacheSize) + 1, k + 1) = Place(next, k)
                 /\ Place(next, k) # next
<1>1. (next % CacheSize) + 1 = IF next = CacheSize THEN 1 ELSE next + 1
  <2>1. CASE next = CacheSize
    BY <2>1 DEF RoutingAssumption
  <2>2. CASE next < CacheSize
    BY <2>2 DEF RoutingAssumption
  <2> QED BY <2>1, <2>2 DEF RoutingAssumption
<1> QED BY <1>1 DEF RoutingAssumption, Place

\* One step further on a walk, from a node that is heard.
LEMMA WalksOn ==
    ASSUME NEW k \in Nat, NEW m \in Reached(k), NEW n \in Routers, <<m, n>> \in Links
    PROVE  n \in Reached(k + 1)
<1>1. PICK w \in Walks(k) : m = w[k]
  BY DEF Reached
<1> DEFINE v == [i \in 0 .. k + 1 |-> IF i = k + 1 THEN n ELSE w[i]]
<1>2. /\ w \in [0 .. k -> Routers] /\ w[0] = Origin
      /\ \A i \in 1 .. k : w[i] = w[i - 1] \/ <<w[i - 1], w[i]>> \in Links
  BY <1>1 DEF Walks
<1>3. v \in [0 .. k + 1 -> Routers] /\ v[0] = Origin /\ v[k + 1] = n
  BY <1>2
<1>4. ASSUME NEW i \in 1 .. k + 1
      PROVE  v[i] = v[i - 1] \/ <<v[i - 1], v[i]>> \in Links
  <2>1. CASE i = k + 1
    BY SMTT(30), <1>1, <2>1
  <2>2. CASE i \in 1 .. k
    <3>1. v[i] = w[i] /\ v[i - 1] = w[i - 1]
      BY <2>2
    <3> QED BY <1>2, <2>2, <3>1
  <2> QED BY <2>1, <2>2
<1> HIDE DEF v
<1>5. v \in Walks(k + 1)
  BY <1>3, <1>4 DEF Walks
<1> QED BY <1>3, <1>5 DEF Reached

LEMMA OriginIsReached == RoutingAssumption => Origin \in Reached(0)
<1> SUFFICES ASSUME RoutingAssumption PROVE Origin \in Reached(0)
  OBVIOUS
<1> DEFINE w == [i \in 0 .. 0 |-> Origin]
<1>1. w \in [0 .. 0 -> Routers] /\ w[0] = Origin /\ 1 .. 0 = {}
  BY DEF RoutingAssumption
<1>2. w \in Walks(0)
  BY <1>1 DEF Walks
<1> QED BY <1>1, <1>2 DEF Reached

LEMMA InitRoutingInv == RoutingAssumption /\ RoutingInit => RoutingInv
<1> SUFFICES ASSUME RoutingAssumption, RoutingInit PROVE RoutingInv
  OBVIOUS
<1>1. [entries |-> [i \in 1 .. CacheSize |-> NoEntry], next |-> 1] \in PacketCache
  BY DEF RoutingAssumption, PacketCache, CacheEntry, NoEntry
<1>2. \A n \in Routers : Remembered(n)
  BY DEF RoutingInit, RoutingAssumption, Remembered
<1> QED BY <1>1, <1>2 DEF RoutingInit, RoutingInv, RoutingAssumption, HopsAreSpent

\* A new packet is where it began, with all its hops.
LEMMA SendFloodKeeps ==
    ASSUME RoutingAssumption, RoutingInv, NEW id \in PacketIds,
           NEW to \in (Routers \ {Origin}) \cup {Everyone}, SendFlood(id, to)
    PROVE  RoutingInv'
<1> DEFINE p == [id |-> id, to |-> to, hops |-> HopLimit, by |-> Origin]
<1>1. p \in AirPacket /\ p.by = Origin /\ p.hops = HopLimit
  BY DEF RoutingAssumption, AirPacket
<1> HIDE DEF p
<1>2. flooded' = flooded \cup {p} /\ UNCHANGED <<routeClock, cache, forwarded, younger>>
  BY DEF SendFlood, p
<1>3. p.by \in Reached(HopLimit - p.hops)
  <2>1. HopLimit - HopLimit = 0
    BY DEF RoutingAssumption
  <2> QED BY <1>1, <2>1, OriginIsReached
<1>4. HopsAreSpent'
  BY <1>2, <1>3 DEF RoutingInv, HopsAreSpent
<1> QED BY <1>1, <1>2, <1>4 DEF RoutingInv, Remembered

\* A node that hears a packet notes it, and what it sends is one link further.
LEMMA ReceiveKeeps ==
    ASSUME RoutingAssumption, RoutingInv, NEW n \in Routers, NEW p \in flooded, Receive(n, p)
    PROVE  RoutingInv'
<1>1. /\ p \in AirPacket /\ p.id \in PacketIds /\ p.by \in Routers
      /\ p.hops \in 0 .. HopLimit /\ HopLimit \in Nat
      /\ cache[n] \in PacketCache /\ cache[n].next \in 1 .. CacheSize
      /\ cache[n].entries \in [1 .. CacheSize -> CacheEntry]
  BY DEF RoutingInv, AirPacket, PacketCache, RoutingAssumption
<1>2. /\ cache' = [cache EXCEPT ![n] = Added(cache[n], p.id)]
      /\ routeClock' = routeClock
      /\ younger' = [younger EXCEPT ![n] = [id \in PacketIds |->
                         IF id = p.id THEN 0
                         ELSE IF younger[n][id] < CacheSize THEN younger[n][id] + 1
                         ELSE CacheSize]]
  BY DEF Receive
<1> DEFINE next == cache[n].next
           entry == [id |-> p.id, at |-> routeClock]
           after == [cache[n].entries EXCEPT ![next] = entry]
           ages == [id \in PacketIds |->
                       IF id = p.id THEN 0
                       ELSE IF younger[n][id] < CacheSize THEN younger[n][id] + 1
                       ELSE CacheSize]
<1>3. entry \in CacheEntry /\ entry.id = p.id
  BY <1>1 DEF CacheEntry, RoutingInv, RoutingAssumption
<1>4. after \in [1 .. CacheSize -> CacheEntry] /\ after[next] = entry
      /\ \A i \in 1 .. CacheSize : i # next => after[i] = cache[n].entries[i]
  BY <1>1, <1>3
<1>5. /\ Added(cache[n], p.id) = [entries |-> after, next |-> (next % CacheSize) + 1]
      /\ cache'[n].entries = after /\ cache'[n].next = (next % CacheSize) + 1
      /\ \A m \in Routers : m # n => cache'[m] = cache[m]
  <2>1. Added(cache[n], p.id) = [entries |-> after, next |-> (next % CacheSize) + 1]
    BY DEF Added
  <2> QED BY <1>2, <2>1 DEF RoutingInv
<1>6. cache' \in [Routers -> PacketCache]
  <2>1. Added(cache[n], p.id) \in PacketCache
    <3> HIDE DEF after, next
    <3>1. (next % CacheSize) + 1 \in 1 .. CacheSize
      BY <1>1, Places DEF next
    <3> QED BY <1>4, <1>5, <3>1 DEF PacketCache
  <2> QED BY <1>2, <2>1 DEF RoutingInv
<1>7. /\ ages \in [PacketIds -> 0 .. CacheSize]
      /\ younger' \in [Routers -> [PacketIds -> 0 .. CacheSize]]
      /\ younger'[n] = ages
      /\ \A m \in Routers : m # n => younger'[m] = younger[m]
  <2>1. ages \in [PacketIds -> 0 .. CacheSize]
    BY DEF RoutingInv, RoutingAssumption
  <2> QED BY <1>2, <2>1 DEF RoutingInv
<1>8. ASSUME NEW m \in Routers PROVE Remembered(m)'
  <2>1. CASE m # n
    BY <1>5, <1>7, <2>1 DEF RoutingInv, Remembered
  <2>2. CASE m = n
    <3> SUFFICES ASSUME NEW id \in PacketIds, ages[id] < CacheSize
                 PROVE  after[Place((next % CacheSize) + 1, ages[id])].id = id
      BY <1>5, <1>7, <2>2 DEF Remembered
    <3>1. CASE id = p.id
      <4>1. ages[id] = 0
        BY <3>1
      <4> QED BY <1>1, <1>3, <1>4, <3>1, <4>1, Places
    <3>2. CASE id # p.id
      <4>1. younger[n][id] \in 0 .. CacheSize
        BY DEF RoutingInv
      <4>2. younger[n][id] \in 0 .. CacheSize - 2 /\ ages[id] = younger[n][id] + 1
        BY <3>2, <4>1 DEF RoutingAssumption
      <4>3. cache[n].entries[Place(next, younger[n][id])].id = id
        BY <4>1, <4>2 DEF RoutingInv, Remembered, RoutingAssumption
      <4> HIDE DEF ages, after, next
      <4>4. /\ Place((next % CacheSize) + 1, younger[n][id] + 1) = Place(next, younger[n][id])
            /\ Place(next, younger[n][id]) # next
            /\ Place(next, younger[n][id]) \in 1 .. CacheSize
        <5>1. next \in 1 .. CacheSize /\ younger[n][id] \in 0 .. CacheSize - 1
          BY <1>1, <4>2 DEF next, RoutingAssumption
        <5> QED BY <4>2, <5>1, Places
      <4> QED BY <1>4, <4>2, <4>3, <4>4
    <3> QED BY <3>1, <3>2
  <2> QED BY <2>1, <2>2
<1>9. flooded' \subseteq AirPacket /\ DOMAIN forwarded' = Routers /\ HopsAreSpent'
  <2>1. CASE Route(n, p) = "Forward"
    <3>1. flooded' = flooded \cup {Forwarded(n, p)}
          /\ forwarded' = [forwarded EXCEPT ![n] = @ \cup {p.id}]
      BY <2>1 DEF Receive
    <3>2. p.hops > 0
      BY <2>1 DEF Route
    <3>3. /\ Forwarded(n, p) \in AirPacket
          /\ Forwarded(n, p).by = n /\ Forwarded(n, p).hops = p.hops - 1
      <4> DEFINE hops == p.hops - 1
      <4>1. Forwarded(n, p) = [p EXCEPT !.by = n, !.hops = hops]
        BY <1>1 DEF Forwarded, AirPacket
      <4>2. hops \in 0 .. HopLimit
        BY <1>1, <3>2
      <4> HIDE DEF hops
      <4>3. Forwarded(n, p) \in AirPacket /\ Forwarded(n, p).by = n
            /\ Forwarded(n, p).hops = hops
        BY <1>1, <4>1, <4>2 DEF AirPacket
      <4> QED BY <4>3 DEF hops
    <3>4. n \in Reached(HopLimit - (p.hops - 1))
      <4>1. p.by \in Reached(HopLimit - p.hops) /\ HopLimit - p.hops \in Nat
            /\ HopLimit - (p.hops - 1) = (HopLimit - p.hops) + 1
        BY <1>1 DEF RoutingInv, HopsAreSpent
      <4>2. <<p.by, n>> \in Links
        BY DEF Receive
      <4> QED BY <4>1, <4>2, WalksOn
    <3> DEFINE again == Forwarded(n, p)
    <3> HIDE DEF again
    <3>5. again \in AirPacket /\ again.by \in Reached(HopLimit - again.hops)
          /\ flooded' = flooded \cup {again}
      BY <3>1, <3>3, <3>4 DEF again
    <3>6. HopsAreSpent'
      BY <3>5 DEF RoutingInv, HopsAreSpent
    <3>7. DOMAIN forwarded' = Routers
      BY <3>1 DEF RoutingInv
    <3> QED BY <3>5, <3>6, <3>7 DEF RoutingInv
  <2>2. CASE Route(n, p) # "Forward"
    BY <2>2 DEF Receive, RoutingInv, HopsAreSpent
  <2> QED BY <2>1, <2>2
<1> QED BY <1>2, <1>6, <1>7, <1>8, <1>9 DEF RoutingInv

\* What clear_old takes is as if the cache had never held it.
LEMMA ClearOldKeeps ==
    ASSUME RoutingAssumption, RoutingInv, NEW n \in Routers, ClearOld(n)
    PROVE  RoutingInv'
<1> DEFINE old == {i \in 1 .. CacheSize : IsOld(cache[n].entries[i])}
           left == [i \in 1 .. CacheSize |-> IF i \in old THEN NoEntry
                                              ELSE cache[n].entries[i]]
           ages == [id \in PacketIds |->
                       IF \E i \in old : cache[n].entries[i].id = id
                       THEN CacheSize ELSE younger[n][id]]
<1>1. /\ cache' = [cache EXCEPT ![n].entries = left]
      /\ younger' = [younger EXCEPT ![n] = ages]
      /\ UNCHANGED <<routeClock, flooded, forwarded>>
  BY DEF ClearOld
<1>2. left \in [1 .. CacheSize -> CacheEntry] /\ ages \in [PacketIds -> 0 .. CacheSize]
      /\ cache[n].next \in 1 .. CacheSize
  BY DEF RoutingInv, PacketCache, CacheEntry, NoEntry, RoutingAssumption
<1>3. /\ cache' \in [Routers -> PacketCache]
      /\ cache'[n].entries = left /\ cache'[n].next = cache[n].next
      /\ \A m \in Routers : m # n => cache'[m] = cache[m]
  <2> HIDE DEF left
  <2> QED BY <1>1, <1>2 DEF RoutingInv, PacketCache
<1>4. /\ younger' \in [Routers -> [PacketIds -> 0 .. CacheSize]] /\ younger'[n] = ages
      /\ \A m \in Routers : m # n => younger'[m] = younger[m]
  <2> HIDE DEF ages
  <2> QED BY <1>1, <1>2 DEF RoutingInv
<1>5. ASSUME NEW m \in Routers PROVE Remembered(m)'
  <2>1. CASE m # n
    BY <1>3, <1>4, <2>1 DEF RoutingInv, Remembered
  <2>2. CASE m = n
    <3> SUFFICES ASSUME NEW id \in PacketIds, ages[id] < CacheSize
                 PROVE  left[Place(cache[n].next, ages[id])].id = id
      BY <1>3, <1>4, <2>2 DEF Remembered
    <3>1. ages[id] = younger[n][id] /\ ~ \E i \in old : cache[n].entries[i].id = id
      BY DEF RoutingAssumption
    <3>2. cache[n].entries[Place(cache[n].next, ages[id])].id = id
      BY <3>1 DEF RoutingInv, Remembered
    <3>3. Place(cache[n].next, ages[id]) \in 1 .. CacheSize
      <4>1. ages[id] \in 0 .. CacheSize - 1
        BY <1>2 DEF RoutingAssumption
      <4> HIDE DEF ages
      <4> QED BY <1>2, <4>1, Places
    <3> HIDE DEF ages
    <3> QED BY <3>1, <3>2, <3>3
  <2> QED BY <2>1, <2>2
<1> QED BY <1>1, <1>3, <1>4, <1>5 DEF RoutingInv, HopsAreSpent

LEMMA NextRoutingInv ==
    RoutingAssumption /\ RoutingInv /\ [RoutingNext]_routingVars => RoutingInv'
<1> SUFFICES ASSUME RoutingAssumption, RoutingInv, [RoutingNext]_routingVars
             PROVE  RoutingInv'
  OBVIOUS
<1>1. CASE \E id \in PacketIds : \E to \in (Routers \ {Origin}) \cup {Everyone} :
              SendFlood(id, to)
  BY <1>1, SendFloodKeeps
<1>2. CASE \E n \in Routers : \E p \in flooded : Receive(n, p)
  BY <1>2, ReceiveKeeps
<1>3. CASE \E n \in Routers : ClearOld(n)
  BY <1>3, ClearOldKeeps
<1>4. CASE RouteTick
  BY <1>4 DEF RouteTick, RoutingInv, Remembered, HopsAreSpent, RoutingAssumption
<1>5. CASE UNCHANGED routingVars
  BY <1>5 DEF routingVars, RoutingInv, Remembered, HopsAreSpent
<1> QED BY <1>1, <1>2, <1>3, <1>4, <1>5 DEF RoutingNext

\* A packet goes no further from its origin than its hop limit, for any network,
\* any limit and any cache (route_packet, create_forward_packet).
THEOREM HopsBoundTheFlood == RoutingSpec => []HopsAreSpent
<1>1. RoutingAssumption
  BY RoutingAssumption
<1>2. RoutingInv => HopsAreSpent
  BY DEF RoutingInv
<1> QED BY <1>1, <1>2, InitRoutingInv, NextRoutingInv, PTL DEF RoutingSpec

\* A node forwards a packet again only when its cache has taken CacheSize others
\* since, or clear_old has dropped it, whatever the size of the cache, the order
\* in which packets come and come back, and the age clear_old is called with.
THEOREM FloodsForwardOnce == RoutingSpec => ForwardedOnce
<1>1. RoutingAssumption
  BY RoutingAssumption
<1>2. RoutingAssumption /\ RoutingInv =>
         [\A n \in Routers, p \in flooded :
             Receive(n, p) /\ Route(n, p) = "Forward" /\ p.id \in forwarded[n]
                 => younger[n][p.id] = CacheSize]_routingVars
  <2> SUFFICES ASSUME RoutingAssumption, RoutingInv,
                      NEW n \in Routers, NEW p \in flooded, Receive(n, p)
               PROVE  younger[n][p.id] = CacheSize
    OBVIOUS
  <2>1. p.id \in PacketIds /\ younger[n][p.id] \in 0 .. CacheSize
        /\ cache[n].next \in 1 .. CacheSize
    BY DEF RoutingInv, AirPacket, PacketCache
  <2>2. SUFFICES ASSUME younger[n][p.id] \in 0 .. CacheSize - 1 PROVE FALSE
    BY <2>1 DEF RoutingAssumption
  <2>3. cache[n].entries[Place(cache[n].next, younger[n][p.id])].id = p.id
    BY <2>1, <2>2 DEF RoutingInv, Remembered, RoutingAssumption
  <2>4. Place(cache[n].next, younger[n][p.id]) \in 1 .. CacheSize
    BY <2>1, <2>2, Places
  <2> QED BY <2>3, <2>4 DEF Receive, IsDuplicate
<1> QED BY <1>1, <1>2, InitRoutingInv, NextRoutingInv, PTL DEF RoutingSpec, ForwardedOnce
-----------------------------------------------------------------------------
(***************************************************************************)
(* Onions.  A packet on a route has the innermost layers of its route left *)
(* and is addressed to the hop of the outermost one; one with a payload of *)
(* more than 10 bytes gets no further than the first hop, or the second of *)
(* the longest route.  A secured message on its way is the last one made,  *)
(* and the peer can open it if and only if it is owed it.                  *)
(***************************************************************************)
Hints   == {HintOf[n] : n \in Nodes} \cup {0}
Layer   == [for : Nodes, index : Nat, next : Hints]
Journey == [at : Hints, layers : Seq(Layer), size : Nat, route : Seq(Nodes),
            end : {"none", "travelling", "arrived", "refused", "cut"}]

RouteLength(j) == Len(j.route)
LayersLeft(j)  == Len(j.layers)

OnItsWay(j) ==
    /\ RouteLength(j) \in MinHops .. MaxHops
    /\ LayersLeft(j) \in 1 .. RouteLength(j)
    /\ \A i \in 1 .. LayersLeft(j) :
          j.layers[i] = Wrap(j.route)[RouteLength(j) - LayersLeft(j) + i]
    /\ j.at = HintOf[j.route[RouteLength(j) - LayersLeft(j) + 1]]
    /\ j.size > 10 =>
          \/ LayersLeft(j) = RouteLength(j)
          \/ RouteLength(j) = LayerCap /\ LayersLeft(j) = LayerCap - 1

TextsInv ==
    /\ DOMAIN texts = {"made", "air", "handed", "owed", "lost"}
    /\ texts.made \in 0 .. MaxTexts
    /\ texts.handed \subseteq 1 .. texts.made
    /\ texts.owed \subseteq 1 .. texts.made
    /\ texts.lost \subseteq 1 .. texts.made
    /\ texts.air # NoText =>
          /\ texts.air.num = texts.made
          /\ texts.made \in 1 .. MaxTexts
          /\ texts.made \notin texts.handed /\ texts.made \notin texts.lost
          /\ ComesWhole(texts.air) <=> texts.made \in texts.owed
    /\ OwedArrivesWhole

JourneyInv ==
    /\ journey \in Journey
    /\ Len(journey.layers) <= MaxHops
    /\ journey.end = "travelling" => OnItsWay(journey)
    /\ OnionInOrder

OnionInv ==
    /\ relays \in Seq(Nodes) /\ Len(relays) <= MaxRelays
    /\ TextsInv
    /\ JourneyInv

\* build_route: as many hops as were asked for.
LEMMA BuiltRoute ==
    ASSUME relays \in Seq(Nodes), NEW dest \in Nodes, NEW hops \in Nat, hops >= 1,
           Len(relays) >= hops - 1
    PROVE  BuildRoute(dest, hops) \in Seq(Nodes) /\ Len(BuildRoute(dest, hops)) = hops
<1>1. /\ SubSeq(relays, 1, hops - 1) \in Seq(Nodes)
      /\ Len(SubSeq(relays, 1, hops - 1)) = hops - 1
  OBVIOUS
<1> QED BY <1>1 DEF BuildRoute

\* wrap: a layer for each hop, the innermost last.
LEMMA Wrapped ==
    ASSUME NEW route \in Seq(Nodes)
    PROVE  /\ Wrap(route) \in Seq(Layer) /\ Len(Wrap(route)) = Len(route)
           /\ \A i \in 1 .. Len(route) :
                 /\ Wrap(route)[i].for = route[i]
                 /\ Wrap(route)[i].index = Len(route) - i
                 /\ Wrap(route)[i].next =
                       IF i = Len(route) THEN 0 ELSE HintOf[route[i + 1]]
<1> DEFINE layer(i) ==
        [for |-> route[i], index |-> Len(route) - i,
         next |-> IF i = Len(route) THEN 0 ELSE HintOf[route[i + 1]]]
<1>1. ASSUME NEW i \in 1 .. Len(route) PROVE layer(i) \in Layer
  <2>1. route[i] \in Nodes /\ Len(route) - i \in Nat
    OBVIOUS
  <2>2. (IF i = Len(route) THEN 0 ELSE HintOf[route[i + 1]]) \in Hints
    <3>1. CASE i = Len(route)
      BY <3>1 DEF Hints
    <3>2. CASE i # Len(route)
      <4>1. route[i + 1] \in Nodes
        BY <3>2
      <4> QED BY <3>2, <4>1 DEF Hints
    <3> QED BY <3>1, <3>2
  <2> QED BY <2>1, <2>2 DEF Layer
<1>2. Wrap(route) = [i \in 1 .. Len(route) |-> layer(i)]
  BY DEF Wrap
<1> HIDE DEF layer
<1>3. Wrap(route) \in [1 .. Len(route) -> Layer]
  BY <1>1, <1>2, Zenon
<1>4. \A i \in 1 .. Len(route) : Wrap(route)[i] = layer(i)
  BY <1>2, Zenon
<1>5. Wrap(route) \in Seq(Layer) /\ Len(Wrap(route)) = Len(route)
  <2>1. Len(route) \in Nat
    OBVIOUS
  <2> QED BY <1>3, <2>1
<1>6. ASSUME NEW i \in 1 .. Len(route)
      PROVE  /\ Wrap(route)[i].for = route[i]
             /\ Wrap(route)[i].index = Len(route) - i
             /\ Wrap(route)[i].next =
                   IF i = Len(route) THEN 0 ELSE HintOf[route[i + 1]]
  <2>1. Wrap(route)[i] =
           [for |-> route[i], index |-> Len(route) - i,
            next |-> IF i = Len(route) THEN 0 ELSE HintOf[route[i + 1]]]
    BY <1>4 DEF layer
  <2> QED BY <2>1
<1> QED BY <1>5, <1>6

LEMMA InitOnionInv == OnionAssumption /\ OnionInit => OnionInv
<1> SUFFICES ASSUME OnionAssumption, OnionInit PROVE OnionInv
  OBVIOUS
<1>1. << >> \in Seq(Nodes) /\ Len(<< >>) = 0 /\ << >> \in Seq(Layer)
  OBVIOUS
<1>2. journey \in Journey /\ journey.end = "none" /\ Len(journey.layers) = 0
  BY <1>1 DEF OnionInit, NoJourney, Journey, Hints
<1>3. JourneyInv
  BY <1>2 DEF JourneyInv, OnionInOrder, OnionAssumption
<1>4. TextsInv
  BY DEF OnionInit, TextsInv, OwedArrivesWhole, OnionAssumption
<1> QED BY <1>1, <1>3, <1>4 DEF OnionInv, OnionInit, OnionAssumption
-----------------------------------------------------------------------------
(***************************************************************************)
(* encrypt_for_tx: the lengths at which a buffer, a payload or a route     *)
(* stops taking a message are those of Owed.                               *)
(***************************************************************************)
LEMMA SecuredComesWhole ==
    ASSUME OnionAssumption, relays \in Seq(Nodes), NEW size \in Nat, NEW onion \in BOOLEAN
    PROVE  /\ Owed(size, onion) => HeaderSize + CiphertextSize(size) <= BufferSize
           /\ HeaderSize + CiphertextSize(size) <= BufferSize =>
                 (ComesWhole(Secured(size, onion)) <=> Owed(size, onion))
           /\ Secured(size, onion).num = texts.made + 1
<1> DEFINE body   == HeaderSize + CiphertextSize(size)
           route  == BuildRoute(Destination, 3)
           routed == onion /\ Len(relays) >= 3 /\ CanWrap(body, route)
           layers == IF routed THEN Wrap(route) ELSE << >>
           bytes  == body + Len(layers) * HopOverhead
           whole  == bytes <= MaxPayload /\ size + TagSize <= BufferSize
<1>1. body = IF size > 256 THEN 64 ELSE IF size > 240 THEN 48 + size ELSE 64 + size
  BY DEF CiphertextSize, BufferSize, TagSize, HeaderSize
<1>2. Secured(size, onion) =
         [layers |-> layers, size |-> IF bytes <= MaxPayload THEN bytes ELSE MaxPayload,
          num |-> texts.made + 1, whole |-> whole]
  BY DEF Secured
<1>3. Owed(size, onion) => body <= BufferSize
  BY <1>1 DEF Owed, BufferSize
<1>4. /\ Secured(size, onion).layers = layers
      /\ Secured(size, onion).whole = whole
      /\ Secured(size, onion).size = IF bytes <= MaxPayload THEN bytes ELSE MaxPayload
      /\ Secured(size, onion).num = texts.made + 1
  <2> HIDE DEF layers, whole, bytes
  <2> QED BY <1>2
<1>7. Len(relays) >= 3 => Len(route) = 3 /\ route \in Seq(Nodes)
  <2>1. Destination \in Nodes /\ 3 \in Nat /\ 3 >= 1
    BY DEF OnionAssumption
  <2>2. Len(relays) >= 3 => Len(relays) >= 3 - 1
    OBVIOUS
  <2> HIDE DEF route
  <2> QED BY <2>1, <2>2, BuiltRoute DEF route
<1>5. CASE routed
  <2>1. Len(route) = 3 /\ route \in Seq(Nodes)
    BY <1>5, <1>7
  <2>2. layers # << >>
    <3>1. Len(Wrap(route)) = 3
      <4> HIDE DEF route
      <4> QED BY <2>1, Wrapped
    <3>2. layers = Wrap(route)
      BY <1>5
    <3> HIDE DEF layers, route
    <3> QED BY <3>1, <3>2
  <2>3. body + 54 <= 256
    <3> HIDE DEF body, route
    <3> QED BY <1>5, <2>1 DEF CanWrap, HopOverhead, BufferSize
  <2>4. body <= BufferSize => ~ Owed(size, onion)
    <3> HIDE DEF route
    <3>1. size <= 138 \/ size > 256
      BY <1>1, <2>3
    <3> QED BY <1>5, <3>1 DEF Owed
  <2> HIDE DEF layers, whole
  <2> QED BY <1>3, <1>4, <2>2, <2>4 DEF ComesWhole
<1>6. CASE ~ routed
  <2>1. layers = << >> /\ bytes = body
    BY <1>1, <1>6 DEF HopOverhead
  <2>2. onion /\ Len(relays) >= 3 => ~ (body + 54 <= 256)
    <3> HIDE DEF body
    <3> SUFFICES ASSUME onion, Len(relays) >= 3, body + 54 <= 256 PROVE FALSE
      OBVIOUS
    <3>1. Len(route) = 3
      BY <1>7
    <3> HIDE DEF route
    <3> QED BY <1>6, <3>1 DEF CanWrap, HopOverhead, BufferSize, OnionAssumption
  <2>3. onion /\ Len(relays) >= 3 => size > 138 /\ size <= 256
    BY <1>1, <2>2
  <2>4. whole <=> size <= 150
    <3> HIDE DEF layers
    <3> QED BY <1>1, <2>1 DEF MaxPayload, TagSize, BufferSize
  <2>5. Owed(size, onion) <=> size <= 150
    BY <2>3 DEF Owed
  <2>6. Secured(size, onion).size >= HeaderSize
    <3>1. body >= 64
      BY <1>1
    <3>2. Secured(size, onion).size = IF body <= 214 THEN body ELSE 214
      BY <1>4, <2>1, Zenon DEF MaxPayload
    <3> HIDE DEF body, layers, bytes
    <3> QED BY <1>1, <3>1, <3>2 DEF HeaderSize
  <2> HIDE DEF layers, whole, bytes, body, routed
  <2> QED BY <1>3, <1>4, <2>1, <2>4, <2>5, <2>6 DEF ComesWhole, body
<1> QED BY <1>5, <1>6

LEMMA SecuredKeeps ==
    ASSUME OnionAssumption, OnionInv, NEW size \in TextSizes, NEW onion \in BOOLEAN,
           EncryptForTx(size, onion)
    PROVE  OnionInv'
<1> DEFINE num == texts.made + 1
           fits == HeaderSize + CiphertextSize(size) <= BufferSize
           onAir == IF fits THEN Secured(size, onion) ELSE NoText
           owed == IF Owed(size, onion) THEN texts.owed \cup {num} ELSE texts.owed
<1>0. size \in Nat /\ CiphertextSize(size) \in Nat /\ HeaderSize = 48
  BY DEF OnionAssumption, CiphertextSize, TagSize, BufferSize, HeaderSize
<1>1. /\ num <= MaxTexts /\ texts.air = NoText
      /\ texts' = [texts EXCEPT !.made = num, !.air = onAir, !.owed = owed]
      /\ UNCHANGED <<relays, journey>>
  <2>1. HeaderSize + CiphertextSize(size) > BufferSize <=> ~ fits
    BY <1>0 DEF BufferSize
  <2> HIDE DEF fits
  <2> QED BY <2>1 DEF EncryptForTx
<1>2. texts.made \in 0 .. MaxTexts /\ num \in 1 .. MaxTexts /\ MaxTexts \in Nat
  BY <1>1 DEF OnionInv, TextsInv, OnionAssumption
<1>3. /\ texts.handed \subseteq 1 .. texts.made /\ texts.owed \subseteq 1 .. texts.made
      /\ texts.lost \subseteq 1 .. texts.made
      /\ texts.handed = texts.owed \ texts.lost
  BY <1>1 DEF OnionInv, TextsInv, OwedArrivesWhole
<1> HIDE DEF onAir, owed
<1>4. /\ DOMAIN texts' = {"made", "air", "handed", "owed", "lost"}
      /\ texts'.made = num /\ texts'.air = onAir /\ texts'.owed = owed
      /\ texts'.handed = texts.handed /\ texts'.lost = texts.lost
  BY <1>1 DEF OnionInv, TextsInv
<1>5. /\ 1 .. texts.made \subseteq 1 .. num /\ num \notin 1 .. texts.made
  BY <1>2
<1>6. /\ Owed(size, onion) => fits
      /\ fits => (ComesWhole(Secured(size, onion)) <=> Owed(size, onion))
      /\ Secured(size, onion).num = num
  BY <1>0, SecuredComesWhole DEF OnionInv
<1>7. /\ onAir = IF fits THEN Secured(size, onion) ELSE NoText
      /\ owed = IF Owed(size, onion) THEN texts.owed \cup {num} ELSE texts.owed
  BY DEF onAir, owed
<1>8. num # 0 /\ NoText.num = 0
  BY <1>2 DEF NoText
<1> HIDE DEF num, fits
<1>9. TextsInv'
  <2>1. OwedArrivesWhole'
    <3>1. CASE fits
      <4>1. onAir # NoText /\ onAir.num = num
        BY <1>6, <1>7, <1>8, <3>1
      <4> QED BY <1>3, <1>4, <1>5, <1>7, <4>1 DEF OwedArrivesWhole
    <3>2. CASE ~ fits
      BY <1>3, <1>4, <1>6, <1>7, <3>2 DEF OwedArrivesWhole
    <3> QED BY <3>1, <3>2
  <2>2. num \in 0 .. MaxTexts
    BY <1>2
  <2>3. owed \subseteq 1 .. num /\ texts.handed \subseteq 1 .. num
        /\ texts.lost \subseteq 1 .. num
    BY <1>2, <1>3, <1>5, <1>7
  <2>4. ASSUME onAir # NoText
        PROVE  /\ onAir.num = num /\ num \notin texts.handed /\ num \notin texts.lost
               /\ ComesWhole(onAir) <=> num \in owed
    <3>1. fits /\ onAir = Secured(size, onion)
      BY <1>7, <2>4
    <3> QED BY <1>3, <1>5, <1>6, <1>7, <3>1
  <2> QED BY <1>2, <1>4, <2>1, <2>2, <2>3, <2>4 DEF TextsInv
<1> QED BY <1>1, <1>9 DEF OnionInv, JourneyInv, OnionInOrder

\* The peer's session is handed what it is owed, or the message is lost.
LEMMA TextEnds ==
    ASSUME OnionInv, PeerReceives \/ LoseText
    PROVE  OnionInv'
<1>1. /\ texts.air # NoText /\ UNCHANGED <<relays, journey>>
      /\ \/ texts' = [texts EXCEPT !.air = NoText, !.handed =
                        IF ComesWhole(texts.air) THEN texts.handed \cup {texts.air.num}
                        ELSE texts.handed]
         \/ texts' = [texts EXCEPT !.air = NoText,
                                   !.lost = texts.lost \cup {texts.air.num}]
  BY DEF PeerReceives, LoseText
<1>2. /\ texts.air.num = texts.made /\ texts.made \in 1 .. MaxTexts
      /\ ComesWhole(texts.air) <=> texts.made \in texts.owed
      /\ texts.made \notin texts.handed /\ texts.made \notin texts.lost
      /\ texts.handed = texts.owed \ (texts.lost \cup {texts.made})
  BY <1>1 DEF OnionInv, TextsInv, OwedArrivesWhole
<1>3. /\ DOMAIN texts' = {"made", "air", "handed", "owed", "lost"}
      /\ texts'.made = texts.made /\ texts'.air = NoText /\ texts'.owed = texts.owed
      /\ \/ /\ texts'.lost = texts.lost
            /\ texts'.handed = IF ComesWhole(texts.air) THEN texts.handed \cup {texts.made}
                               ELSE texts.handed
         \/ /\ texts'.lost = texts.lost \cup {texts.made}
            /\ texts'.handed = texts.handed
  <2>1. DOMAIN texts = {"made", "air", "handed", "owed", "lost"}
    BY DEF OnionInv, TextsInv
  <2> QED BY <1>1, <1>2, <2>1
<1>4. texts'.handed = texts'.owed \ texts'.lost
  BY <1>2, <1>3
<1>5. OwedArrivesWhole'
  BY <1>3, <1>4 DEF OwedArrivesWhole
<1>6. texts.made \in 1 .. texts.made
  BY <1>2
<1>7. TextsInv'
  BY <1>2, <1>3, <1>5, <1>6 DEF OnionInv, TextsInv
<1> QED BY <1>1, <1>7 DEF OnionInv, JourneyInv, OnionInOrder
-----------------------------------------------------------------------------
LEMMA AddRelayKeeps ==
    ASSUME OnionAssumption, OnionInv, NEW n \in Nodes, AddRelay(n)
    PROVE  OnionInv'
<1>1. relays \in Seq(Nodes) /\ MaxRelays \in Nat /\ Len(relays) < MaxRelays
      /\ relays' = Append(relays, n)
  BY DEF AddRelay, OnionInv, OnionAssumption
<1>2. relays' \in Seq(Nodes) /\ Len(relays') = Len(relays) + 1 /\ Len(relays) \in Nat
  BY <1>1
<1>3. Len(relays') <= MaxRelays
  BY <1>1, <1>2
<1>4. TextsInv'
  BY DEF AddRelay, OnionInv, TextsInv, OwedArrivesWhole
<1>5. JourneyInv'
  BY DEF AddRelay, OnionInv, JourneyInv, OnionInOrder
<1> QED BY <1>2, <1>3, <1>4, <1>5 DEF OnionInv

LEMMA SendRoutedKeeps ==
    ASSUME OnionAssumption, OnionInv, NEW size \in PayloadSizes, NEW dest \in Nodes,
           NEW hops \in MinHops .. MaxHops, SendRouted(size, dest, hops)
    PROVE  OnionInv'
<1> DEFINE route == BuildRoute(dest, hops)
           j == [at |-> HintOf[route[1]], layers |-> Wrap(route),
                 size |-> size, route |-> route, end |-> "travelling"]
<1>1. hops \in Nat /\ hops >= 1 /\ Len(relays) >= hops - 1 /\ size \in Nat
  <2>1. hops \in Nat /\ hops >= 1 /\ size \in Nat
    BY DEF OnionAssumption
  <2>2. Len(relays) >= hops - 1
    BY DEF SendRouted
  <2> QED BY <2>1, <2>2
<1>2. route \in Seq(Nodes) /\ Len(route) = hops
  BY <1>1, BuiltRoute DEF OnionInv
<1>3. /\ journey' = j /\ UNCHANGED <<relays, texts>>
  BY DEF SendRouted
<1> HIDE DEF route
<1>4. Wrap(route) \in Seq(Layer) /\ Len(Wrap(route)) = hops
  BY <1>2, Wrapped
<1>5. HintOf[route[1]] \in Hints
  BY <1>1, <1>2 DEF Hints
<1>6. j \in Journey /\ j.layers = Wrap(route) /\ j.route = route
      /\ j.at = HintOf[route[1]] /\ j.end = "travelling"
  BY <1>1, <1>2, <1>4, <1>5 DEF Journey
<1> HIDE DEF j
<1>7. OnItsWay(j)
  <2>1. hops - hops + 1 = 1 /\ \A i \in 1 .. hops : hops - hops + i = i
    BY <1>1
  <2> QED BY <1>1, <1>2, <1>4, <1>6, <2>1 DEF OnItsWay, RouteLength, LayersLeft
<1>8. JourneyInv'
  <2>1. OnionInOrder'
    BY <1>3, <1>6, <1>7 DEF OnionInOrder, OnItsWay, RouteLength, LayersLeft
  <2>2. Len(j.layers) <= MaxHops
    BY <1>4, <1>6
  <2> QED BY <1>3, <1>6, <1>7, <2>1, <2>2 DEF JourneyInv
<1> QED BY <1>3, <1>8 DEF OnionInv, TextsInv, OwedArrivesWhole

(***************************************************************************)
(* decrypt_from_rx counts the layers right if and only if the payload has  *)
(* at most 10 bytes, or there are as many layers as it counts at most.     *)
(***************************************************************************)
LEMMA LayersGuessed ==
    ASSUME NEW m \in Nat, NEW size \in Nat, NEW j, j.size = size, Len(j.layers) = m,
           LayerCap \in Nat, m <= LayerCap
    PROVE  /\ size <= 10 => GuessLayers(j) = m
           /\ size > 10 => (GuessLayers(j) = m <=> m = LayerCap)
<1> DEFINE n == (7 + m * 18 + size) \div 18
<1>1. n \in Nat /\ (size <= 10 => n = m) /\ (size > 10 => n >= m + 1)
  OBVIOUS
<1>2. GuessLayers(j) = IF n < LayerCap THEN n ELSE LayerCap
  BY DEF GuessLayers, WireLength, WireHeader, HopOverhead
<1> HIDE DEF n
<1> QED BY <1>1, <1>2

LEMMA RelayKeeps ==
    ASSUME OnionAssumption, OnionInv, NEW n \in Nodes, RelayRouted(n)
    PROVE  OnionInv'
<1> DEFINE j == journey
           L == RouteLength(j)
           m == LayersLeft(j)
           top == j.layers[1]
<1>1. /\ j.end = "travelling" /\ j \in Journey /\ OnItsWay(j) /\ UNCHANGED <<relays, texts>>
  BY DEF RelayRouted, OnionInv, JourneyInv
<1>2. /\ j.layers \in Seq(Layer) /\ j.route \in Seq(Nodes) /\ j.size \in Nat
      /\ Len(j.layers) = m /\ Len(j.route) = L
  BY <1>1 DEF Journey, RouteLength, LayersLeft
<1>3. /\ L \in MinHops .. MaxHops /\ m \in 1 .. L
      /\ L \in Nat /\ m \in Nat /\ L >= 2 /\ L <= LayerCap /\ LayerCap \in Nat
      /\ MinHops \in Nat /\ MaxHops \in Nat
  BY <1>1, <1>2 DEF OnItsWay, OnionAssumption
<1>4. /\ \A i \in 1 .. m : j.layers[i] = Wrap(j.route)[L - m + i]
      /\ j.size > 10 => m = L \/ (L = LayerCap /\ m = LayerCap - 1)
  BY <1>1 DEF OnItsWay
<1> HIDE DEF L, m
<1>5. /\ top.for = j.route[L - m + 1] /\ top.index = m - 1
      /\ top.next = IF m = 1 THEN 0 ELSE HintOf[j.route[L - m + 2]]
      /\ top.next \in Hints
  <2>1. L - m + 1 \in 1 .. L /\ top = Wrap(j.route)[L - m + 1]
    BY <1>3, <1>4
  <2>2. /\ top.for = j.route[L - m + 1] /\ top.index = L - (L - m + 1)
        /\ top.next = IF L - m + 1 = L THEN 0 ELSE HintOf[j.route[(L - m + 1) + 1]]
    <3> DEFINE p == L - m + 1
    <3>1. p \in 1 .. Len(j.route) /\ j.route \in Seq(Nodes) /\ Len(j.route) = L
          /\ top = Wrap(j.route)[p]
      BY <1>2, <2>1
    <3> HIDE DEF p, j, top
    <3>2. /\ top.for = j.route[p] /\ top.index = L - p
          /\ top.next = IF p = L THEN 0 ELSE HintOf[j.route[p + 1]]
      BY <3>1, Wrapped
    <3> QED BY <3>2 DEF p
  <2>3. top \in Layer
    BY <1>2, <1>3
  <2>4. /\ L - (L - m + 1) = m - 1 /\ (L - m + 1) + 1 = L - m + 2
        /\ L - m + 1 = L <=> m = 1
    BY <1>3
  <2>5. top.next \in Hints
    BY <2>3 DEF Layer
  <2> HIDE DEF top
  <2> QED BY <2>2, <2>4, <2>5
<1>6. Authentic(n, j) <=> top.for = n /\ GuessLayers(j) = m
  <2>1. j.layers # << >>
    BY <1>2, <1>3
  <2>2. GuessLayers(j) \in Nat
    <3>1. (7 + m * 18 + j.size) \div 18 \in Nat
      BY <1>2, <1>3
    <3> QED BY <1>2, <1>3, <3>1 DEF GuessLayers, WireLength, WireHeader, HopOverhead
  <2> HIDE DEF j, top
  <2>3. m - 1 = GuessLayers(j) - 1 <=> GuessLayers(j) = m
    BY <1>3, <2>2
  <2> QED BY <1>5, <2>1, <2>3 DEF Authentic, top
<1>7. /\ j.size <= 10 => GuessLayers(j) = m
      /\ j.size > 10 => (GuessLayers(j) = m <=> m = LayerCap)
  BY <1>2, <1>3, LayersGuessed
<1>8. CASE ~ Authentic(n, j) /\ top.for # n
  <2>1. journey' = [journey EXCEPT !.end = journey.end]
    BY <1>8 DEF RelayRouted
  <2>2. journey' = journey
    BY <1>1, <2>1 DEF Journey
  <2> QED BY <1>1, <2>2 DEF OnionInv, TextsInv, OwedArrivesWhole, JourneyInv, OnionInOrder
<1>9. CASE ~ Authentic(n, j) /\ top.for = n
  <2>1. journey' = [journey EXCEPT !.end = "refused"]
    BY <1>9 DEF RelayRouted
  <2>2. /\ journey' \in Journey /\ journey'.end = "refused"
        /\ journey'.layers = j.layers /\ journey'.route = j.route /\ journey'.size = j.size
    BY <1>1, <2>1 DEF Journey
  <2>3. j.size > 10 /\ m # LayerCap
    BY <1>2, <1>6, <1>7, <1>9
  <2>4. m = IF L = LayerCap THEN L - 1 ELSE L
    BY <1>3, <1>4, <2>3
  <2>5. OnionInOrder'
    BY <1>2, <2>2, <2>3, <2>4 DEF OnionInOrder
  <2> QED BY <1>1, <2>2, <2>5 DEF OnionInv, TextsInv, OwedArrivesWhole, JourneyInv
<1>10. CASE Authentic(n, j) /\ top.next = 0
  <2> DEFINE end == IF Len(j.layers) = 1 THEN "arrived" ELSE "cut"
  <2>1. journey' = [journey EXCEPT !.end = end]
    BY <1>10 DEF RelayRouted
  <2>2. /\ journey' \in Journey /\ journey'.end = end
        /\ journey'.layers = j.layers /\ journey'.route = j.route /\ journey'.size = j.size
    BY <1>1, <2>1 DEF Journey
  <2>3. m = 1 => j.size <= 10
    BY <1>2, <1>3, <1>4, <1>6, <1>7, <1>10
  <2>4. m # 1 => \E i \in 2 .. L : HintOf[j.route[i]] = 0
    <3> SUFFICES ASSUME m # 1 PROVE L - m + 2 \in 2 .. L /\ HintOf[j.route[L - m + 2]] = 0
      OBVIOUS
    <3> HIDE DEF top
    <3> QED BY <1>3, <1>5, <1>10
  <2>5. OnionInOrder'
    BY <1>2, <2>2, <2>3, <2>4 DEF OnionInOrder
  <2> QED BY <1>1, <2>2, <2>5 DEF OnionInv, TextsInv, OwedArrivesWhole, JourneyInv
<1>11. CASE Authentic(n, j) /\ top.next # 0
  <2>1. journey' = [journey EXCEPT !.at = top.next, !.layers = Tail(journey.layers)]
    BY <1>11 DEF RelayRouted
  <2>2. m > 1 /\ top.next = HintOf[j.route[L - m + 2]]
    BY <1>3, <1>5, <1>11
  <2>3. /\ Tail(j.layers) \in Seq(Layer) /\ Len(Tail(j.layers)) = m - 1
        /\ \A i \in 1 .. m - 1 : Tail(j.layers)[i] = j.layers[i + 1]
    <3>1. j.layers # << >>
      BY <1>2, <1>3
    <3> HIDE DEF j
    <3> QED BY <1>2, <1>3, <3>1
  <2> HIDE DEF top
  <2>4. /\ journey' \in Journey /\ journey'.end = "travelling"
        /\ journey'.at = HintOf[j.route[L - m + 2]]
        /\ journey'.layers = Tail(j.layers) /\ journey'.route = j.route
        /\ journey'.size = j.size
    BY <1>1, <1>5, <2>1, <2>2, <2>3 DEF Journey
  <2>5. RouteLength(journey') = L /\ LayersLeft(journey') = m - 1
    BY <1>2, <2>3, <2>4 DEF RouteLength, LayersLeft
  <2>6. /\ m - 1 \in 1 .. L /\ L - (m - 1) + 1 = L - m + 2
        /\ \A i \in 1 .. m - 1 : L - (m - 1) + i = L - m + (i + 1) /\ i + 1 \in 1 .. m
    BY <1>3, <2>2
  <2>7. \A i \in 1 .. m - 1 : journey'.layers[i] = Wrap(j.route)[L - (m - 1) + i]
    BY <1>4, <2>3, <2>4, <2>6
  <2>8. j.size > 10 => L = LayerCap /\ m - 1 = LayerCap - 1
    BY <1>2, <1>3, <1>6, <1>7, <1>11
  <2>9. OnItsWay(journey')
    BY <1>3, <2>4, <2>5, <2>6, <2>7, <2>8 DEF OnItsWay
  <2>10. OnionInOrder'
    BY <2>4, <2>9 DEF OnionInOrder, OnItsWay, RouteLength, LayersLeft
  <2>11. Len(journey'.layers) <= MaxHops
    BY <1>3, <2>3, <2>4
  <2> QED BY <1>1, <2>4, <2>9, <2>10, <2>11 DEF OnionInv, TextsInv, OwedArrivesWhole, JourneyInv
<1> QED BY <1>8, <1>9, <1>10, <1>11

LEMMA NextOnionInv == OnionAssumption /\ OnionInv /\ [OnionNext]_onionVars => OnionInv'
<1> SUFFICES ASSUME OnionAssumption, OnionInv, [OnionNext]_onionVars PROVE OnionInv'
  OBVIOUS
<1>1. CASE \E n \in Nodes : AddRelay(n)
  BY <1>1, AddRelayKeeps
<1>2. CASE \E size \in TextSizes, onion \in BOOLEAN : EncryptForTx(size, onion)
  BY <1>2, SecuredKeeps
<1>3. CASE PeerReceives \/ LoseText
  BY <1>3, TextEnds
<1>4. CASE \E size \in PayloadSizes, n \in Nodes, hops \in MinHops .. MaxHops :
              SendRouted(size, n, hops)
  BY <1>4, SendRoutedKeeps
<1>5. CASE \E n \in Nodes : RelayRouted(n)
  BY <1>5, RelayKeeps
<1>6. CASE UNCHANGED onionVars
  BY <1>6 DEF onionVars, OnionInv, TextsInv, OwedArrivesWhole, JourneyInv, OnionInOrder
<1> QED BY <1>1, <1>2, <1>3, <1>4, <1>5, <1>6 DEF OnionNext

\* Of the messages encrypt_for_tx was given, decrypt_from_rx at the peer hands
\* those of up to 150 bytes that went without a route to Session::decrypt as
\* Session::encrypt made them, and no other, for any lengths and any number of
\* relays and messages, in whatever order relays are added.
THEOREM PeerIsHandedWhatIsOwed == OnionSpec => []OwedArrivesWhole
<1>1. OnionAssumption
  BY OnionAssumption
<1>2. OnionInv => OwedArrivesWhole
  BY DEF OnionInv, TextsInv
<1> QED BY <1>1, <1>2, InitOnionInv, NextOnionInv, PTL DEF OnionSpec

\* A packet on a route is taken apart in the order of its route by wrap, unwrap
\* and decrypt_from_rx, for every route, also one with a hop twice, every length
\* and every choice of hints.
THEOREM OnionsAreUnwrappedInOrder == OnionSpec => []OnionInOrder
<1>1. OnionAssumption
  BY OnionAssumption
<1>2. OnionInv => OnionInOrder
  BY DEF OnionInv, JourneyInv
<1> QED BY <1>1, <1>2, InitOnionInv, NextOnionInv, PTL DEF OnionSpec
-----------------------------------------------------------------------------
\* A behaviour of Mesh is one of each of its parts, in which it may rest.
LEMMA MeshParts ==
    MeshSpec => /\ Spec /\ SessionSpec /\ OnionSpec /\ AddressSpec
                /\ HandlerSpec /\ RoutingSpec
<1>1. MeshInit => /\ Init /\ SessionInit /\ OnionInit /\ AddressInit
                  /\ HandlerInit /\ RoutingInit
  BY DEF MeshInit
<1>2. [MeshNext]_<<part, vars, sessionVars, onionVars, addressVars, handlerVars,
                   routingVars, codecVars>> =>
        /\ [Next]_vars /\ [SessionNext]_sessionVars /\ [OnionNext]_onionVars
        /\ [AddressNext]_addressVars /\ [HandlerNext]_handlerVars
        /\ [RoutingNext]_routingVars
  BY Zenon DEF MeshNext
<1> QED BY <1>1, <1>2, PTL
    DEF MeshSpec, Spec, SessionSpec, OnionSpec, AddressSpec, HandlerSpec, RoutingSpec

\* Whatever passes through a node, its counters and lengths stay within the
\* buffers and indices of the code, for all values of the constants of the parts.
THEOREM MeshKeepsTypes == MeshSpec => []MeshTypes
<1>1. RingInv => TypeOK
  BY DEF RingInv
<1>2. OnionInv => OnionTypeOK
  <2> SUFFICES ASSUME OnionInv PROVE OnionTypeOK
    OBVIOUS
  <2>1. Len(relays) <= MaxRelays /\ ToSet(relays) \subseteq Nodes
    BY DEF OnionInv, ToSet
  <2>2. texts.made \in 0 .. MaxTexts /\ texts.handed \subseteq 1 .. MaxTexts
    BY OnionAssumption DEF OnionInv, TextsInv, OnionAssumption
  <2>3. /\ Len(journey.layers) <= MaxHops
        /\ journey.end \in {"none", "travelling", "arrived", "refused", "cut"}
    BY DEF OnionInv, JourneyInv, Journey
  <2> QED BY <2>1, <2>2, <2>3 DEF OnionTypeOK
<1>3. RoutingInv => RoutingTypeOK
  BY DEF RoutingInv, RoutingTypeOK, PacketCache, AirPacket
<1>4. OnionSpec => []OnionInv
  BY OnionAssumption, InitOnionInv, NextOnionInv, PTL DEF OnionSpec
<1>5. RoutingSpec => []RoutingInv
  BY RoutingAssumption, InitRoutingInv, NextRoutingInv, PTL DEF RoutingSpec
<1>6. (TypeOK /\ SessionTypeOK /\ OnionTypeOK /\ AddressTypeOK
       /\ HandlerTypeOK /\ RoutingTypeOK) => MeshTypes
  BY DEF MeshTypes
<1> QED BY <1>1, <1>2, <1>3, <1>4, <1>5, <1>6, MeshParts, RingInvariant, SessionKeepsTypes,
           AddressTypes, HandlersKeepTypes, PTL
=============================================================================

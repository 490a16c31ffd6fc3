--------------------------- MODULE SpscRing_proofs ---------------------------
(***************************************************************************)
(* For every Capacity >= 2 and every N: the ring buffer is type correct,   *)
(* free of data races on its slots, delivers the items in order, and the   *)
(* consumer leaves with all of them; and it implements BoundedFifo.        *)
(***************************************************************************)
EXTENDS SpscRing, SequenceTheorems, TLAPS

----------------------------------------------------------------------------
(* Arithmetic of indices. *)

(* A remainder is the number itself below the modulus ... *)
LEMMA ModSmall ==
  ASSUME NEW c \in Nat, c >= 1, NEW x \in Nat, x < c
  PROVE  x % c = x
  BY Z3

(* ... and the number less the modulus in the next lap. *)
LEMMA ModWrap ==
  ASSUME NEW c \in Nat, c >= 1, NEW x \in Nat, c <= x, x < 2 * c
  PROVE  x % c = x - c
  BY Z3

(* The next index is the next slot, or slot 0 after the last. *)
LEMMA SuccValue ==
  ASSUME NEW k \in Slots
  PROVE  /\ Succ(k) \in Slots
         /\ Succ(k) = IF k + 1 = Capacity THEN 0 ELSE k + 1
  <1>1. CASE k + 1 = Capacity
    <2>1. (k + 1) % Capacity = k + 1 - Capacity
      BY <1>1, ModWrap, CapacityAssumption DEF Slots
    <2> QED BY <1>1, <2>1, CapacityAssumption DEF Succ, Slots
  <1>2. CASE k + 1 # Capacity
    <2>1. (k + 1) % Capacity = k + 1
      BY <1>2, ModSmall, CapacityAssumption DEF Slots
    <2> QED BY <1>2, <2>1, CapacityAssumption DEF Succ, Slots
  <1> QED BY <1>1, <1>2

(* How Dist moves with either index. *)
LEMMA DistFacts ==
  ASSUME NEW a \in Slots, NEW b \in Slots
  PROVE  /\ Dist(a, b) \in Slots
         /\ Dist(a, b) = 0 <=> a = b
         /\ Dist(a, b) <= Capacity - 2 => Dist(a, Succ(b)) = Dist(a, b) + 1
         /\ Dist(a, b) >= 1 => Dist(Succ(a), b) = Dist(a, b) - 1
  <1>1. Succ(a) = IF a + 1 = Capacity THEN 0 ELSE a + 1
    BY SuccValue
  <1>2. Succ(b) = IF b + 1 = Capacity THEN 0 ELSE b + 1
    BY SuccValue
  <1> QED BY <1>1, <1>2, CapacityAssumption DEF Dist, Slots

(* What an atomic index stores. *)
LEMMA StoreType ==
  ASSUME NEW s \in IndexStores, NEW k \in 1..Len(s)
  PROVE  s[k].val \in Slots /\ s[k].clk \in Nat /\ k \in Nat /\ Len(s) \in Nat
  <1>1. s[k] \in [val : Slots, clk : Nat] /\ Len(s) \in Nat
    BY ElementOfSeq, LenProperties DEF IndexStores
  <1> QED BY <1>1

(* The current indices are slots, and the counters natural numbers. *)
LEMMA IndexType ==
  ASSUME TypeOK
  PROVE  /\ w \in Slots /\ r \in Slots
         /\ P \in Nat /\ C \in Nat /\ P \in 1..P /\ C \in 1..C
  <1>1. write_idx \in IndexStores /\ read_idx \in IndexStores /\ P >= 1 /\ C >= 1
    BY DEF TypeOK, P, C
  <1>2. P \in Nat /\ C \in Nat
    BY <1>1, LenProperties DEF IndexStores, P, C
  <1>3. P \in 1..Len(write_idx) /\ C \in 1..Len(read_idx)
    BY <1>1, <1>2 DEF P, C
  <1>4. write_idx[P].val \in Slots /\ read_idx[C].val \in Slots
    BY <1>1, <1>3, StoreType
  <1> QED BY <1>2, <1>3, <1>4 DEF w, r, P, C

(* A store appends to the modification order. *)
LEMMA AppendStore ==
  ASSUME NEW s \in IndexStores, NEW a \in Slots, NEW c \in Nat
  PROVE  LET t == Append(s, [val |-> a, clk |-> c])
         IN  /\ t \in IndexStores
             /\ Len(t) = Len(s) + 1
             /\ \A k \in 1..Len(s) : t[k] = s[k]
             /\ t[Len(s) + 1].val = a /\ t[Len(s) + 1].clk = c
  <1>1. [val |-> a, clk |-> c] \in [val : Slots, clk : Nat]
    OBVIOUS
  <1> QED BY <1>1, AppendProperties DEF IndexStores

(* The producer is less than one lap ahead of the consumer. *)
LEMMA OneLap ==
  ASSUME IndInv
  PROVE  /\ P \in Nat /\ C \in Nat /\ 1 <= C /\ C <= P /\ P - C <= Capacity - 1
         /\ seenR \in 1..C /\ seenW \in 1..P
         /\ w \in Slots /\ r \in Slots
  <1>1. TypeOK /\ Gap BY DEF IndInv
  <1>2. P \in Nat /\ C \in Nat /\ P \in 1..P /\ C \in 1..C /\ w \in Slots /\ r \in Slots
    BY <1>1, IndexType
  <1>3. seenR \in 1..C /\ seenW \in 1..P
    BY <1>1 DEF TypeOK, P, C
  <1>4. C <= P /\ P - C <= Capacity - 1
    BY <1>1, <1>2, <1>3, CapacityAssumption DEF Gap
  <1> QED BY <1>2, <1>3, <1>4

(* The positions between the two indices hold different slots, the first   *)
(* of them the consumer's.                                                 *)
LEMMA Window ==
  ASSUME IndInv, NEW k \in C..P
  PROVE  /\ write_idx[k].val \in Slots
         /\ Dist(r, write_idx[k].val) = k - C
         /\ write_idx[k].val = r <=> k = C
         /\ k # P => write_idx[k].val # w
  <1>1. /\ TypeOK /\ Laps
        /\ P \in Nat /\ C \in 1..P /\ P - C <= Capacity - 1 /\ P \in C..P
        /\ k \in 1..P /\ w \in Slots /\ r \in Slots
    BY OneLap DEF IndInv
  <1>2. write_idx[k].val \in Slots
    BY <1>1, StoreType DEF TypeOK, P
  <1>3. ASSUME NEW x \in C..P PROVE Dist(r, write_idx[x].val) = x - C
    <2>1. C \in 1..C /\ x \in 1..P /\ C <= x /\ x - C <= Capacity - 1
      BY <1>1, CapacityAssumption
    <2> QED BY <1>1, <2>1 DEF Laps, r, C
  <1>4. Dist(r, w) = P - C
    BY <1>1, <1>3 DEF w, P
  <1> QED BY <1>1, <1>2, <1>3, <1>4, DistFacts

----------------------------------------------------------------------------
LEMMA InitIndInv == Init => IndInv
  <1> SUFFICES ASSUME Init PROVE IndInv
    OBVIOUS
  <1> USE CapacityAssumption, NAssumption DEF Init, P, C
  <1>1. TypeOK BY DEF TypeOK, IndexStores, Slots
  <1>2. Clocks BY DEF Clocks
  <1>3. Laps BY DEF Laps, Dist
  <1>4. Gap BY DEF Gap
  <1>5. Epochs BY DEF Epochs, Slots
  <1>6. Values BY DEF Values, FifoOrder
  <1>7. Exits BY DEF Exits
  <1> QED BY <1>1, <1>2, <1>3, <1>4, <1>5, <1>6, <1>7 DEF IndInv

(* A load of read_idx_ only moves the producer's view forward. *)
LEMMA PCheckStep ==
  ASSUME IndInv, NEW j \in seenR..Len(read_idx), PCheck(j)
  PROVE  IndInv'
  <1> USE CapacityAssumption, NAssumption
      DEF IndInv, PCheck, LoadReadIdx, atomics, consumer, slots, P, C
  <1>a. /\ read_idx[j].val \in Slots /\ read_idx[j].clk \in Nat
        /\ j \in 1..C /\ w \in Slots
    BY StoreType, IndexType DEF TypeOK
  <1>1. TypeOK'
    <2>1. hbR' \in Nat BY <1>a DEF TypeOK, Join
    <2> QED BY <1>a, <2>1 DEF TypeOK
  <1>2. Clocks'
    <2>1. read_idx[j].clk = j - 1 /\ hbR = seenR - 1 BY <1>a DEF Clocks
    <2>2. seenR \in Nat /\ j \in Nat /\ j >= seenR BY <1>a DEF TypeOK
    <2>3. hbR' = seenR' - 1 BY <2>1, <2>2 DEF Join
    <2> QED BY <2>3 DEF Clocks
  <1>3. Laps' BY DEF Laps
  <1>4. Gap'
    <2>1. P - j <= Capacity - 1 /\ C <= P
      BY DEF Gap, TypeOK
    <2>2. ASSUME ~Full(read_idx[j].val) PROVE P - j <= Capacity - 2
      <3>1. SUFFICES ASSUME P - j = Capacity - 1 PROVE FALSE
        BY <2>1, <1>a, IndexType
      <3>2. Dist(read_idx[j].val, w) = Capacity - 1
        BY <1>a, <3>1, IndexType DEF Laps, w
      <3>3. Succ(w) = read_idx[j].val
        BY <1>a, <3>2, SuccValue, SMTT(30) DEF Dist, Slots
      <3> QED BY <2>2, <3>3 DEF Full
    <2> QED BY <2>1, <2>2 DEF Gap, TypeOK
  <1>5. Epochs' BY DEF Epochs
  <1>6. Values' BY DEF Values, FifoOrder
  <1>7. Exits' BY DEF Exits
  <1> QED BY <1>1, <1>2, <1>3, <1>4, <1>5, <1>6, <1>7 DEF IndInv

(* Writing slot w touches no slot that still holds an unread value. *)
LEMMA PWriteStep ==
  ASSUME IndInv, PWrite
  PROVE  IndInv'
  <1> USE CapacityAssumption, NAssumption
      DEF PWrite, atomics, consumer, slots, P, C
  <1>a. TypeOK /\ Clocks /\ Laps /\ Gap /\ Epochs /\ Values /\ Exits
    BY DEF IndInv
  <1>b. pclk = P - 1 /\ pclk' = P /\ i = P - 1 /\ w \in Slots /\ P \in Nat
    BY <1>a, IndexType DEF Clocks, Values
  <1>1. TypeOK' BY <1>a, <1>b DEF TypeOK
  <1>2. Clocks' BY <1>a, <1>b DEF Clocks
  <1>3. Laps' BY <1>a DEF Laps
  <1>4. Gap' BY <1>a DEF Gap
  <1>5. Epochs'
    <2>1. wrAt' = [wrAt EXCEPT ![w] = P] BY <1>b
    <2>2. P \in 1..P BY <1>a, IndexType
    <2>3. ASSUME NEW s \in Slots, wrAt'[s] # 0
          PROVE  wrAt'[s] \in 1..pclk' /\ write_idx'[wrAt'[s]].val = s
      <3>1. CASE s = w
        BY <1>a, <1>b, <2>1, <2>2, <3>1 DEF TypeOK, w
      <3>2. CASE s # w
        <4>1. wrAt'[s] = wrAt[s] BY <1>a, <2>1, <3>2 DEF TypeOK
        <4> QED BY <1>a, <1>b, <2>3, <4>1 DEF Epochs
      <3> QED BY <3>1, <3>2
    <2> QED BY <1>a, <2>3 DEF Epochs
  <1>6. Values'
    <2>1. ASSUME NEW k \in C..P PROVE buffer'[write_idx[k].val] = k - 1
      <3>1. CASE k = P
        BY <1>a, <1>b, <3>1 DEF TypeOK, w
      <3>2. CASE k # P
        <4>1. write_idx[k].val # w /\ write_idx[k].val \in Slots
          BY <3>2, Window
        <4>2. buffer[write_idx[k].val] = k - 1
          BY <1>a, <1>b, <3>2, OneLap, SMTT(30) DEF Values
        <4> QED BY <1>a, <4>1, <4>2 DEF TypeOK
      <3> QED BY <3>1, <3>2
    <2> QED BY <1>a, <1>b, <2>1 DEF Values, FifoOrder
  <1>7. Exits' BY <1>a DEF Exits
  <1> QED BY <1>1, <1>2, <1>3, <1>4, <1>5, <1>6, <1>7 DEF IndInv

(* The new index is one slot further on, which the full test left free. *)
LEMMA PPublishStep ==
  ASSUME IndInv, PPublish
  PROVE  IndInv'
  <1>a. TypeOK /\ Clocks /\ Laps /\ Gap /\ Epochs /\ Values /\ Exits
    BY DEF IndInv
  <1>b. /\ pclk = P /\ i = P - 1 /\ pp = "publish"
        /\ P \in Nat /\ C \in Nat /\ 1 <= C /\ C <= P /\ w \in Slots
        /\ Capacity \in Nat /\ N \in Nat
    BY <1>a, OneLap, CapacityAssumption, NAssumption DEF Clocks, Values, PPublish
  <1>c. /\ write_idx' \in IndexStores /\ P' = P + 1
        /\ \A k \in 1..P : write_idx'[k] = write_idx[k]
        /\ write_idx'[P + 1].val = Succ(w) /\ write_idx'[P + 1].clk = P
    <2>1. /\ write_idx \in IndexStores /\ Succ(w) \in Slots
          /\ write_idx' = Append(write_idx, [val |-> Succ(w), clk |-> P])
      BY <1>a, <1>b, SuccValue DEF TypeOK, PPublish
    <2>2. /\ write_idx' \in IndexStores /\ Len(write_idx') = Len(write_idx) + 1
          /\ \A k \in 1..Len(write_idx) : write_idx'[k] = write_idx[k]
          /\ write_idx'[Len(write_idx) + 1].val = Succ(w)
          /\ write_idx'[Len(write_idx) + 1].clk = P
      BY <1>b, <2>1, AppendStore
    <2> QED BY <2>2 DEF P
  <1>d. /\ i' = i + 1 /\ pp' = "push" /\ C' = C
        /\ UNCHANGED <<read_idx, done, seenR, hbR, pclk, cp, v, seenDone, seenW,
                       hbW, cclk, out, buffer, wrAt, rdAt>>
    BY DEF PPublish, consumer, slots, C
  <1>1. TypeOK'
    <2>1. i' \in 0..N /\ seenW' \in 1..P' /\ P' >= 1
      BY <1>a, <1>b, <1>c, <1>d, OneLap DEF TypeOK, Gap
    <2> QED BY <1>a, <1>c, <1>d, <2>1 DEF TypeOK, P
  <1>2. Clocks'
    <2>1. ASSUME NEW k \in 1..P' PROVE write_idx'[k].clk = k - 1
      <3>1. CASE k = P + 1 BY <1>b, <1>c, <3>1
      <3>2. CASE k # P + 1
        <4>1. k \in 1..P BY <1>b, <1>c, <3>2
        <4> QED BY <1>a, <1>c, <4>1 DEF Clocks
      <3> QED BY <3>1, <3>2
    <2>2. done.widx <= P'
      BY <1>a, <1>b, <1>c DEF Clocks, TypeOK
    <2> QED BY <1>a, <1>b, <1>c, <1>d, <2>1, <2>2 DEF Clocks
  <1>3. Laps'
    <2>1. SUFFICES ASSUME NEW j \in 1..C, NEW k \in 1..P + 1,
                          j <= k, k - j <= Capacity - 1
                   PROVE  Dist(read_idx[j].val, write_idx'[k].val) = k - j
      BY <1>c, <1>d DEF Laps, Dist
    <2>2. CASE k # P + 1
      <3>1. k \in 1..P BY <1>b, <2>2
      <3> QED BY <1>a, <1>c, <2>1, <3>1 DEF Laps
    <2>3. CASE k = P + 1
      <3>1. read_idx[j].val \in Slots
        BY <1>a, StoreType DEF TypeOK, C
      <3>2. P \in 1..P /\ j <= P /\ P - j <= Capacity - 2
        BY <1>b, <2>1, <2>3
      <3>3. Dist(read_idx[j].val, w) = P - j
        BY <1>a, <1>b, <3>2 DEF Laps, w, P
      <3>4. Dist(read_idx[j].val, Succ(w)) = P - j + 1
        BY <1>b, <3>1, <3>2, <3>3, DistFacts
      <3> QED BY <1>b, <1>c, <2>3, <3>4
    <2> QED BY <2>2, <2>3
  <1>4. Gap' BY <1>a, <1>b, <1>c, <1>d DEF Gap, TypeOK
  <1>5. Epochs' BY <1>a, <1>b, <1>c, <1>d DEF Epochs, TypeOK
  <1>6. Values'
    <2>1. C..P \subseteq 1..P BY <1>b
    <2>2. \A k \in C..P : buffer[write_idx'[k].val] = k - 1
      BY <1>a, <1>b, <1>c, <2>1 DEF Values
    <2> QED BY <1>a, <1>b, <1>c, <1>d, <2>2 DEF Values, FifoOrder
  <1>7. Exits' BY <1>a, <1>b, <1>d DEF Exits
  <1> QED BY <1>1, <1>2, <1>3, <1>4, <1>5, <1>6, <1>7 DEF IndInv

(* The flag carries the final index. *)
LEMMA PDoneStep ==
  ASSUME IndInv, PDone
  PROVE  IndInv'
  <1> USE DEF PDone, consumer, slots, P, C
  <1>a. TypeOK /\ Clocks /\ Laps /\ Gap /\ Epochs /\ Values /\ Exits
    BY DEF IndInv
  <1>b. P \in Nat /\ P >= 1 /\ pclk = P - 1 /\ done' = [val |-> TRUE, clk |-> P - 1, widx |-> P]
    BY <1>a, IndexType DEF Clocks
  <1>1. TypeOK' BY <1>a, <1>b DEF TypeOK
  <1>2. Clocks'
    <2>1. done'.clk = done'.widx - 1 /\ done'.widx <= P BY <1>b
    <2> QED BY <1>a, <1>b, <2>1 DEF Clocks
  <1>3. Laps' BY <1>a DEF Laps
  <1>4. Gap' BY <1>a DEF Gap
  <1>5. Epochs' BY <1>a DEF Epochs
  <1>6. Values' BY <1>a DEF Values, FifoOrder
  <1>7. Exits' BY <1>a, <1>b DEF Exits
  <1> QED BY <1>1, <1>2, <1>3, <1>4, <1>5, <1>6, <1>7 DEF IndInv

(* Reading done as false changes nothing but the program counter. *)
LEMMA CNotDoneStep ==
  ASSUME IndInv, CNotDone
  PROVE  IndInv'
  <1> USE DEF CNotDone, atomics, producer, slots, P, C
  <1>a. TypeOK /\ Clocks /\ Laps /\ Gap /\ Epochs /\ Values /\ Exits
    BY DEF IndInv
  <1>1. TypeOK' BY <1>a DEF TypeOK
  <1>2. Clocks' BY <1>a DEF Clocks
  <1>3. Laps' BY <1>a DEF Laps
  <1>4. Gap' BY <1>a DEF Gap
  <1>5. Epochs' BY <1>a DEF Epochs
  <1>6. Values' BY <1>a DEF Values, FifoOrder
  <1>7. Exits' BY <1>a DEF Exits
  <1> QED BY <1>1, <1>2, <1>3, <1>4, <1>5, <1>6, <1>7 DEF IndInv

(* Reading done as true puts the last index in the consumer's view. *)
LEMMA CDoneStep ==
  ASSUME IndInv, CDone
  PROVE  IndInv'
  <1> USE DEF CDone, atomics, producer, slots, C
  <1>a. TypeOK /\ Clocks /\ Laps /\ Gap /\ Epochs /\ Values /\ Exits
    BY DEF IndInv
  <1>b. /\ P \in Nat /\ P >= 1 /\ P' = P /\ C \in Nat /\ C <= P
        /\ seenW \in 1..P
        /\ done.widx = P /\ done.clk = P - 1 /\ hbW = seenW - 1
    BY <1>a, OneLap DEF Exits, Clocks, P
  <1>c. seenW' = P /\ hbW' = P - 1
    BY <1>b DEF Join
  <1>1. TypeOK' BY <1>a, <1>b, <1>c DEF TypeOK, P
  <1>2. Clocks' BY <1>a, <1>b, <1>c DEF Clocks
  <1>3. Laps' BY <1>a, <1>b DEF Laps
  <1>4. Gap' BY <1>a, <1>b, <1>c DEF Gap
  <1>5. Epochs' BY <1>a DEF Epochs
  <1>6. Values' BY <1>a, <1>b DEF Values, FifoOrder
  <1>7. Exits' BY <1>a, <1>b, <1>c DEF Exits
  <1> QED BY <1>1, <1>2, <1>3, <1>4, <1>5, <1>6, <1>7 DEF IndInv

(* The two loads of write_idx_ move the consumer's view forward; finding   *)
(* the indices equal means that the loaded position is the consumer's.     *)
LEMMA LoadWriteIdxStep ==
  ASSUME IndInv, NEW j \in seenW..Len(write_idx), CEmpty(j) \/ CCheck(j)
  PROVE  IndInv'
  <1> USE DEF atomics, producer, slots, LoadWriteIdx
  <1>a. TypeOK /\ Clocks /\ Laps /\ Gap /\ Epochs /\ Values /\ Exits
    BY DEF IndInv
  <1>b. /\ P \in Nat /\ C \in Nat /\ C <= P /\ seenW \in 1..P
        /\ j \in 1..P /\ seenW <= j /\ C <= j /\ j \in C..P
    BY <1>a, OneLap DEF Gap, P
  <1>c. UNCHANGED <<write_idx, read_idx, done, pp, i, seenR, hbR, pclk, v, seenDone,
                    cclk, out, buffer, wrAt, rdAt>> /\ P' = P /\ C' = C
    BY DEF CEmpty, CCheck, P, C
  <1>d. seenW' = j /\ hbW' = j - 1
    <2>1. write_idx[j].clk = j - 1 /\ hbW = seenW - 1 BY <1>a, <1>b DEF Clocks
    <2> QED BY <1>b, <2>1 DEF CEmpty, CCheck, Join
  <1>e. write_idx[j].val = r <=> j = C
    BY <1>b, Window
  <1>f. \/ cp = "empty" /\ cp' = IF j = C THEN "exit" ELSE "pop"
        \/ cp = "pop" /\ cp' = IF j = C THEN "loop" ELSE "read"
    BY <1>e DEF CEmpty, CCheck
  <1>1. TypeOK' BY <1>a, <1>b, <1>c, <1>d, <1>f DEF TypeOK, P
  <1>2. Clocks' BY <1>a, <1>c, <1>d, <1>f DEF Clocks
  <1>3. Laps' BY <1>a, <1>c DEF Laps, Dist
  <1>4. Gap' BY <1>a, <1>b, <1>c, <1>d, <1>f DEF Gap
  <1>5. Epochs' BY <1>a, <1>c DEF Epochs
  <1>6. Values' BY <1>a, <1>c, <1>f DEF Values, FifoOrder
  <1>7. Exits' BY <1>a, <1>b, <1>c, <1>d, <1>f DEF Exits
  <1> QED BY <1>1, <1>2, <1>3, <1>4, <1>5, <1>6, <1>7 DEF IndInv

(* Slot r holds the value with the consumer's position. *)
LEMMA CReadStep ==
  ASSUME IndInv, CRead
  PROVE  IndInv'
  <1> USE DEF CRead, atomics, producer
  <1>a. TypeOK /\ Clocks /\ Laps /\ Gap /\ Epochs /\ Values /\ Exits
    BY DEF IndInv
  <1>b. /\ P \in Nat /\ C \in Nat /\ 1 <= C /\ C < seenW /\ seenW \in 1..P
        /\ cclk = C - 1 /\ r \in Slots /\ P' = P /\ C' = C
        /\ pclk \in Nat /\ pclk >= P - 1
    BY <1>a, OneLap DEF Gap, Clocks, TypeOK, P, C
  <1>c. v' = C - 1
    <2>1. C \in C..P /\ C \in C..pclk BY <1>b
    <2>2. write_idx[C].val = r BY <2>1, Window
    <2>3. buffer[write_idx[C].val] = C - 1 BY <1>a, <2>1 DEF Values
    <2> QED BY <2>2, <2>3
  <1>d. cclk' = C /\ rdAt' = [rdAt EXCEPT ![r] = C]
    BY <1>b
  <1>1. TypeOK' BY <1>a, <1>b, <1>c, <1>d DEF TypeOK
  <1>2. Clocks' BY <1>a, <1>b, <1>d DEF Clocks
  <1>3. Laps' BY <1>a, <1>b DEF Laps
  <1>4. Gap' BY <1>a, <1>b DEF Gap
  <1>5. Epochs'
    <2>1. ASSUME NEW s \in Slots, rdAt'[s] # 0
          PROVE  rdAt'[s] \in 1..cclk' /\ read_idx'[rdAt'[s]].val = s
      <3>1. CASE s = r
        <4>1. rdAt'[s] = C /\ C \in 1..C BY <1>a, <1>b, <1>d, <3>1 DEF TypeOK
        <4> QED BY <1>d, <3>1, <4>1 DEF r, C
      <3>2. CASE s # r
        <4>1. rdAt'[s] = rdAt[s] BY <1>a, <1>d, <3>2 DEF TypeOK
        <4>2. rdAt[s] \in 1..cclk /\ read_idx[rdAt[s]].val = s
          BY <1>a, <2>1, <4>1 DEF Epochs
        <4> QED BY <1>b, <1>d, <4>1, <4>2
      <3> QED BY <3>1, <3>2
    <2> QED BY <1>a, <2>1 DEF Epochs
  <1>6. Values' BY <1>a, <1>b, <1>c DEF Values, FifoOrder
  <1>7. Exits' BY <1>a, <1>b DEF Exits
  <1> QED BY <1>1, <1>2, <1>3, <1>4, <1>5, <1>6, <1>7 DEF IndInv

(* The slot that is given back is no longer one of the unread ones. *)
LEMMA CReleaseStep ==
  ASSUME IndInv, CRelease
  PROVE  IndInv'
  <1>a. TypeOK /\ Clocks /\ Laps /\ Gap /\ Epochs /\ Values /\ Exits
    BY DEF IndInv
  <1>b. /\ cclk = C /\ v = C - 1 /\ cp = "release"
        /\ P \in Nat /\ C \in Nat /\ 1 <= C /\ C < seenW /\ seenW \in 1..P
        /\ P - C <= Capacity - 1 /\ seenR \in 1..C
        /\ r \in Slots /\ Capacity \in Nat /\ Len(out) = C - 1
    BY <1>a, OneLap, CapacityAssumption DEF Clocks, Values, Gap, CRelease
  <1>c. /\ read_idx' \in IndexStores /\ C' = C + 1
        /\ \A k \in 1..C : read_idx'[k] = read_idx[k]
        /\ read_idx'[C + 1].val = Succ(r) /\ read_idx'[C + 1].clk = C
    <2>1. /\ read_idx \in IndexStores /\ Succ(r) \in Slots
          /\ read_idx' = Append(read_idx, [val |-> Succ(r), clk |-> C])
      BY <1>a, <1>b, SuccValue DEF TypeOK, CRelease
    <2>2. /\ read_idx' \in IndexStores /\ Len(read_idx') = Len(read_idx) + 1
          /\ \A k \in 1..Len(read_idx) : read_idx'[k] = read_idx[k]
          /\ read_idx'[Len(read_idx) + 1].val = Succ(r)
          /\ read_idx'[Len(read_idx) + 1].clk = C
      BY <1>b, <2>1, AppendStore
    <2> QED BY <2>2 DEF C
  <1>d. /\ cp' = "loop" /\ P' = P
        /\ UNCHANGED <<write_idx, done, pp, i, seenR, hbR, pclk, v, seenDone, seenW,
                       hbW, cclk, buffer, wrAt, rdAt>>
    BY DEF CRelease, producer, slots, P
  <1>e. /\ out' \in Seq(Nat) /\ Len(out') = C
        /\ \A k \in 1..C : out'[k] = k - 1
    <2>1. out \in Seq(Nat) /\ v \in Nat /\ out' = Append(out, v)
      BY <1>a DEF TypeOK, CRelease
    <2>2. /\ out' \in Seq(Nat) /\ Len(out') = Len(out) + 1
          /\ \A k \in 1..Len(out) : out'[k] = out[k]
          /\ out'[Len(out) + 1] = v
      BY <2>1, AppendProperties
    <2>3. ASSUME NEW k \in 1..C PROVE out'[k] = k - 1
      <3>1. CASE k = C BY <1>b, <2>2, <3>1
      <3>2. CASE k # C
        <4>1. k \in 1..Len(out) BY <1>b, <3>2
        <4> QED BY <1>a, <2>2, <4>1 DEF Values, FifoOrder
      <3> QED BY <3>1, <3>2
    <2> QED BY <1>b, <2>2, <2>3
  <1>1. TypeOK'
    <2>1. seenR' \in 1..C' /\ C' >= 1 BY <1>b, <1>c, <1>d
    <2> QED BY <1>a, <1>c, <1>d, <1>e, <2>1 DEF TypeOK, C
  <1>2. Clocks'
    <2>1. ASSUME NEW k \in 1..C' PROVE read_idx'[k].clk = k - 1
      <3>1. CASE k = C + 1 BY <1>b, <1>c, <3>1
      <3>2. CASE k # C + 1
        <4>1. k \in 1..C BY <1>b, <1>c, <3>2
        <4> QED BY <1>a, <1>c, <4>1 DEF Clocks
      <3> QED BY <3>1, <3>2
    <2> QED BY <1>a, <1>b, <1>c, <1>d, <2>1 DEF Clocks
  <1>3. Laps'
    <2>1. SUFFICES ASSUME NEW j \in 1..C + 1, NEW k \in 1..P,
                          j <= k, k - j <= Capacity - 1
                   PROVE  Dist(read_idx'[j].val, write_idx[k].val) = k - j
      BY <1>c, <1>d DEF Laps, Dist
    <2>2. CASE j # C + 1
      <3>1. j \in 1..C BY <1>b, <2>2
      <3> QED BY <1>a, <1>c, <2>1, <3>1 DEF Laps
    <2>3. CASE j = C + 1
      <3>1. k \in C..P /\ k - C >= 1
        BY <1>b, <2>1, <2>3
      <3>2. Dist(r, write_idx[k].val) = k - C /\ write_idx[k].val \in Slots
        BY <3>1, Window
      <3>3. Dist(Succ(r), write_idx[k].val) = k - C - 1
        BY <1>b, <3>1, <3>2, DistFacts
      <3> QED BY <1>b, <1>c, <2>3, <3>3
    <2> QED BY <2>2, <2>3
  <1>4. Gap' BY <1>a, <1>b, <1>c, <1>d DEF Gap, TypeOK
  <1>5. Epochs' BY <1>a, <1>b, <1>c, <1>d DEF Epochs, TypeOK
  <1>6. Values'
    <2>1. C'..pclk' \subseteq C..pclk
      BY <1>a, <1>b, <1>c, <1>d DEF TypeOK
    <2>2. \A k \in C'..pclk' : buffer'[write_idx'[k].val] = k - 1
      BY <1>a, <1>d, <2>1 DEF Values
    <2>3. FifoOrder' BY <1>e DEF FifoOrder
    <2> QED BY <1>a, <1>b, <1>c, <1>d, <1>e, <2>2, <2>3 DEF Values
  <1>7. Exits' BY <1>a, <1>b, <1>d DEF Exits
  <1> QED BY <1>1, <1>2, <1>3, <1>4, <1>5, <1>6, <1>7 DEF IndInv

----------------------------------------------------------------------------
(* Every step of either thread keeps the invariant. *)
LEMMA NextIndInv == IndInv /\ [Next]_vars => IndInv'
  <1> SUFFICES ASSUME IndInv, [Next]_vars PROVE IndInv'
    OBVIOUS
  <1>1. ASSUME NEW j \in seenR..Len(read_idx), PCheck(j) PROVE IndInv'
    BY <1>1, PCheckStep
  <1>2. CASE PWrite BY <1>2, PWriteStep
  <1>3. CASE PPublish BY <1>3, PPublishStep
  <1>4. CASE PDone BY <1>4, PDoneStep
  <1>5. CASE CNotDone BY <1>5, CNotDoneStep
  <1>6. CASE CDone BY <1>6, CDoneStep
  <1>7. ASSUME NEW j \in seenW..Len(write_idx), CEmpty(j) \/ CCheck(j) PROVE IndInv'
    BY <1>7, LoadWriteIdxStep
  <1>8. CASE CRead BY <1>8, CReadStep
  <1>9. CASE CRelease BY <1>9, CReleaseStep
  <1>10. CASE UNCHANGED vars
    BY <1>10 DEF vars, atomics, producer, consumer, slots, IndInv, TypeOK, Clocks,
                Laps, Gap, Epochs, Values, FifoOrder, Exits, P, C
  <1> QED
    BY <1>1, <1>2, <1>3, <1>4, <1>5, <1>6, <1>7, <1>8, <1>9, <1>10 DEF Next, Joined

(* The invariant implies that the slot a thread is about to touch was      *)
(* given up by the other one in a step it has in view.                     *)
LEMMA NoRace == IndInv => DataRaceFree
  <1> SUFFICES ASSUME IndInv PROVE DataRaceFree
    OBVIOUS
  <1>a. TypeOK /\ Clocks /\ Laps /\ Gap /\ Epochs
    BY DEF IndInv
  <1>b. /\ P \in Nat /\ C \in Nat /\ 1 <= C /\ C <= P /\ P - C <= Capacity - 1
        /\ seenR \in 1..C /\ seenW \in 1..P /\ w \in Slots /\ r \in Slots
        /\ hbR = seenR - 1 /\ hbW = seenW - 1 /\ Capacity \in Nat
    BY <1>a, OneLap, CapacityAssumption DEF Clocks
  <1>1. ASSUME pp = "write" PROVE rdAt[w] <= hbR
    <2> DEFINE e == rdAt[w]
    <2>1. SUFFICES ASSUME e > hbR PROVE FALSE
      BY <1>a, <1>b, SMTT(30) DEF TypeOK
    <2>2. e \in 1..cclk /\ read_idx[e].val = w /\ e \in Nat /\ e >= seenR
      BY <1>a, <1>b, <2>1, SMTT(30) DEF Epochs, TypeOK
    <2>3. e \in 1..C /\ e <= P - 1 /\ P \in 1..P
      BY <1>a, <1>b, <2>2 DEF Clocks, Gap
    <2>4. P - e <= Capacity - 1
      BY <1>a, <1>b, <2>2, <2>3 DEF Gap
    <2>5. Dist(read_idx[e].val, w) = P - e
      BY <1>a, <1>b, <2>3, <2>4, SMTT(30) DEF Laps, w, P
    <2> QED BY <1>b, <2>2, <2>3, <2>5, DistFacts
  <1>2. ASSUME cp = "read" PROVE wrAt[r] <= hbW
    <2> DEFINE e == wrAt[r]
    <2>1. SUFFICES ASSUME e > hbW PROVE FALSE
      BY <1>a, <1>b, SMTT(30) DEF TypeOK
    <2>2. e \in 1..pclk /\ write_idx[e].val = r /\ e \in Nat /\ e >= seenW
      BY <1>a, <1>b, <2>1, SMTT(30) DEF Epochs, TypeOK
    <2>3. e \in C..P /\ e # C
      BY <1>a, <1>b, <1>2, <2>2 DEF Clocks, Gap
    <2> QED BY <2>2, <2>3, Window
  <1> QED BY <1>1, <1>2 DEF DataRaceFree

(* The consumer leaves with its index at the last position. *)
LEMMA NoLoss == IndInv => NoLossAtExit
  <1> SUFFICES ASSUME IndInv, cp = "exit" PROVE Len(out) = N
    BY DEF NoLossAtExit, count
  <1>1. C = P /\ i = N /\ i = P - 1 /\ Len(out) = C - 1
    BY DEF IndInv, Exits, Values
  <1> QED BY <1>1, OneLap, NAssumption

(* Every reachable state satisfies the inductive invariant. *)
THEOREM Invariance == Spec => []IndInv
  BY InitIndInv, NextIndInv, PTL DEF Spec

(* The indices stay inside buffer_ and every variable keeps its type, for  *)
(* every capacity and every number of items.                               *)
THEOREM TypeCorrect == Spec => []TypeOK
  <1>1. IndInv => TypeOK BY DEF IndInv
  <1> QED BY Invariance, <1>1, PTL

(* push and pop never race on a slot of buffer_, whatever stale indices    *)
(* the two threads load.                                                   *)
THEOREM RaceFreedom == Spec => []DataRaceFree
  BY Invariance, NoRace, PTL

(* pop returns the pushed values in the order they were pushed. *)
THEOREM InOrder == Spec => []FifoOrder
  <1>1. IndInv => FifoOrder BY DEF IndInv, Values
  <1> QED BY Invariance, <1>1, PTL

(* The consumer's loop ends only with all N items counted. *)
THEOREM NothingLost == Spec => []NoLossAtExit
  BY Invariance, NoLoss, PTL

----------------------------------------------------------------------------
(* The ring implements the abstract queue. *)

(* What lies between the indices, by position instead of by slot. *)
Pending == [k \in 1..P - C |-> C + k - 2]

LEMMA PendingSeq ==
  ASSUME P \in Nat, C \in Nat, 1 <= C, C <= P
  PROVE  Pending \in Seq(Nat) /\ Len(Pending) = P - C
  <1>1. Pending \in [1..P - C -> Nat] /\ P - C \in Nat
    BY DEF Pending
  <1> QED BY <1>1, SeqDef, LenProperties

(* The values between the indices are consecutive, from the consumer's on. *)
LEMMA ContentIsPending == IndInv => Content = Pending
  <1> SUFFICES ASSUME IndInv PROVE Content = Pending
    OBVIOUS
  <1>b. /\ P \in Nat /\ C \in Nat /\ 1 <= C /\ C <= P /\ P - C <= Capacity - 1
        /\ r \in Slots /\ Capacity \in Nat /\ Capacity >= 2 /\ Values
        /\ pclk \in Nat /\ pclk >= P - 1
    BY OneLap, CapacityAssumption DEF IndInv, Clocks
  <1>1. ASSUME NEW k \in 1..P - C
        PROVE  buffer[(r + k - 1) % Capacity] = C + k - 2
    <2> DEFINE j == C + k - 1
               b == write_idx[j].val
    <2>1. j \in C..P /\ j \in C..pclk /\ j - C = k - 1 /\ k \in Nat
      BY <1>b
    <2>2. b \in Slots /\ Dist(r, b) = k - 1
      BY <2>1, Window
    <2>3. buffer[b] = C + k - 2
      BY <1>b, <2>1, SMTT(30) DEF Values
    <2>4. (r + k - 1) % Capacity = b
      <3> HIDE DEF b
      <3>1. r \in Nat /\ r < Capacity /\ b \in Nat /\ b < Capacity
        BY <1>b, <2>2 DEF Slots
      <3>2. CASE b >= r
        <4>1. r + k - 1 = b BY <2>1, <2>2, <3>1, <3>2 DEF Dist
        <4> QED BY <1>b, <3>1, <4>1, ModSmall
      <3>3. CASE b < r
        <4>1. r + k - 1 = b + Capacity BY <1>b, <2>1, <2>2, <3>1, <3>3 DEF Dist
        <4>2. (b + Capacity) % Capacity = b
          BY <1>b, <3>1, ModWrap
        <4> QED BY <4>1, <4>2
      <3> QED BY <3>1, <3>2, <3>3
    <2> QED BY <2>3, <2>4
  <1> QED BY <1>1 DEF Content, Pending, P, C

(* The same of the next state. *)
LEMMA ContentIsPendingNext == IndInv' => Content' = Pending'
  <1>1. IndInv' => (Content = Pending)'
    BY ContentIsPending, PTL
  <1> QED BY <1>1

(* A step that moves neither index is invisible to the abstract queue. *)
LEMMA Invisible ==
  ASSUME IndInv, IndInv', UNCHANGED <<write_idx, read_idx, i, out>>
  PROVE  UNCHANGED Fifo!vars
  <1>1. Pending' = Pending
    BY DEF Pending, P, C
  <1>2. Content' = Content
    BY <1>1, ContentIsPending, ContentIsPendingNext
  <1> QED BY <1>2 DEF Fifo!vars

(* The store of write_idx_ is the abstract push. *)
LEMMA PublishIsPush ==
  ASSUME IndInv, IndInv', PPublish
  PROVE  Fifo!Push
  <1>1. /\ P \in Nat /\ C \in Nat /\ 1 <= C /\ C <= P /\ C' = C /\ P' = P + 1
        /\ P - C <= Capacity - 2 /\ i = P - 1 /\ i < N
    <2>1. /\ write_idx \in IndexStores
          /\ pp = "publish" /\ Gap /\ Values /\ seenR \in 1..C
      BY OneLap DEF IndInv, PPublish, TypeOK
    <2>2. P' = P + 1 /\ C' = C
      <3>1. \A s, e : s \in IndexStores /\ e \in Nat /\ Succ(w) \in Slots
                      => Len(Append(s, [val |-> Succ(w), clk |-> e])) = Len(s) + 1
        BY AppendStore
      <3>2. pclk \in Nat /\ Succ(w) \in Slots
        BY OneLap, SuccValue DEF IndInv, TypeOK
      <3> QED BY <2>1, <3>1, <3>2 DEF PPublish, P, C
    <2> QED BY <2>1, <2>2, OneLap, CapacityAssumption, SMTT(30) DEF Gap, Values
  <1>2. Content = Pending /\ Content' = Pending'
    BY ContentIsPending, ContentIsPendingNext
  <1>3. Len(Pending) = P - C /\ Pending \in Seq(Nat)
    BY <1>1, PendingSeq
  <1>4. Pending' = Append(Pending, i)
    BY <1>1, <1>3 DEF Pending
  <1>5. i' = i + 1 /\ out' = out
    BY DEF PPublish, consumer
  <1> QED BY <1>1, <1>2, <1>3, <1>4, <1>5, CapacityAssumption DEF Fifo!Push

(* The store of read_idx_ is the abstract pop. *)
LEMMA ReleaseIsPop ==
  ASSUME IndInv, IndInv', CRelease
  PROVE  Fifo!Pop
  <1>1. /\ P \in Nat /\ C \in Nat /\ 1 <= C /\ C < P /\ C' = C + 1 /\ P' = P
        /\ v = C - 1
    <2>1. read_idx \in IndexStores /\ cp = "release" /\ Gap /\ Values
      BY DEF IndInv, CRelease, TypeOK
    <2>2. P' = P /\ C' = C + 1
      <3>1. \A s, e : s \in IndexStores /\ e \in Nat /\ Succ(r) \in Slots
                      => Len(Append(s, [val |-> Succ(r), clk |-> e])) = Len(s) + 1
        BY AppendStore
      <3>2. cclk \in Nat /\ Succ(r) \in Slots
        BY OneLap, SuccValue DEF IndInv, TypeOK
      <3> QED BY <2>1, <3>1, <3>2 DEF CRelease, P, C
    <2> QED BY <2>1, <2>2, OneLap DEF Gap, Values
  <1>2. Content = Pending /\ Content' = Pending'
    BY ContentIsPending, ContentIsPendingNext
  <1>3. Len(Pending) = P - C /\ Pending \in Seq(Nat)
    BY <1>1, PendingSeq
  <1>4. Pending # <<>> /\ Head(Pending) = v
    BY <1>1, <1>3 DEF Pending
  <1>5. Pending' = Tail(Pending)
    <2> DEFINE t == Tail(Pending)
               n == P - C - 1
    <2>1. /\ t \in Seq(Nat) /\ Len(t) = n
          /\ \A k \in 1..n : t[k] = Pending[k + 1]
      BY <1>1, <1>3, <1>4, HeadTailProperties
    <2>2. \A k \in 1..n : Pending[k + 1] = C + k - 1
      BY <1>1 DEF Pending
    <2>3. Pending' = [k \in 1..n |-> C + k - 1]
      BY <1>1 DEF Pending
    <2>4. t = [k \in 1..n |-> t[k]]
      BY <2>1, LenProperties
    <2> HIDE DEF t, n
    <2> QED BY <2>1, <2>2, <2>3, <2>4 DEF t
  <1>6. i' = i /\ out' = Append(out, v)
    BY DEF CRelease, producer
  <1> QED BY <1>2, <1>4, <1>5, <1>6 DEF Fifo!Pop

(* Both queues start empty. *)
LEMMA InitFifo == Init => Fifo!Init
  <1> SUFFICES ASSUME Init PROVE Fifo!Init
    OBVIOUS
  <1>1. Content = <<>> BY DEF Init, Content
  <1> QED BY <1>1 DEF Init, Fifo!Init

(* Every step of the two threads is a push, a pop or invisible. *)
LEMMA NextFifo == IndInv /\ IndInv' /\ [Next]_vars => [Fifo!Next]_(Fifo!vars)
  <1> SUFFICES ASSUME IndInv, IndInv', [Next]_vars PROVE [Fifo!Next]_(Fifo!vars)
    OBVIOUS
  <1>1. CASE PPublish BY <1>1, PublishIsPush DEF Fifo!Next
  <1>2. CASE CRelease BY <1>2, ReleaseIsPop DEF Fifo!Next
  <1>3. CASE UNCHANGED <<write_idx, read_idx, i, out>> BY <1>3, Invisible
  <1> QED
    BY <1>1, <1>2, <1>3
    DEF Next, PCheck, PWrite, PDone, CNotDone, CDone, CEmpty, CCheck, CRead, Joined,
        vars, atomics, producer, consumer, slots

(* The safety part of ImplementsFifo: the lock-free ring is a FIFO of      *)
(* Capacity - 1 items, atomic at the two release stores.                   *)
THEOREM Refinement == Spec => Fifo!Init /\ [][Fifo!Next]_(Fifo!vars)
  BY Invariance, InitFifo, NextFifo, PTL DEF Spec
=============================================================================

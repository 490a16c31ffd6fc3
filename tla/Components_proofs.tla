------------------------- MODULE Components_proofs --------------------------
(***************************************************************************)
(* Results about the components of Components, for every value of their    *)
(* parameters.  A component has an inductive invariant of its own, about   *)
(* its own variables only: a step of another one leaves them as they are.  *)
(***************************************************************************)
EXTENDS Components, FiniteSetTheorems, SequenceTheorems, WellFoundedInduction, TLAPS

----------------------------------------------------------------------------
(* Numbers.                                                                *)

(* The division that Longest is made with. *)
LEMMA Quotient ==
  ASSUME NEW c \in Nat, c >= 1, NEW x \in Nat
  PROVE  x \div c \in Nat /\ (x \div c + 1) * c > x
  <1> DEFINE a == x \div c
             b == x % c
  <1>1. a \in Nat /\ b \in 0..c - 1
    BY Z3
  <1>2. x = c * a + b
    <2>1. a \in Int /\ b \in Int /\ a = x \div c /\ b = x % c
      BY <1>1
    <2> HIDE DEF a, b
    <2> QED BY <2>1, Z3
  <1> HIDE DEF a, b
  <1>3. (a + 1) * c > x
    BY <1>1, <1>2, Z3
  <1> QED BY <1>1, <1>3 DEF a

----------------------------------------------------------------------------
(* TokenBucket.                                                            *)

LEMMA BucketMin ==
  ASSUME NEW a \in Int, NEW b \in Int
  PROVE  /\ Bucket!Min({a, b}) = IF a <= b THEN a ELSE b
         /\ Bucket!Max({a, b}) = IF a >= b THEN a ELSE b
  BY DEF Bucket!Min, Bucket!Max

(* What an elapsed time brings. *)
LEMMA Brought ==
  ASSUME NEW x \in Int
  PROVE  /\ Rate \in Nat /\ Rate >= 1 /\ x * Rate \in Int
         /\ (x + 1) * Rate = x * Rate + Rate
         /\ x >= Bucket!Longest => x * Rate >= capacity_
         /\ \A y \in Int : y * Rate \in Int /\ (x - y) * Rate + y * Rate = x * Rate
         /\ x \in Nat => x * Rate >= 0
  <1>1. Rate \in Nat /\ Rate >= 1 /\ capacity_ \in Nat
    BY SizesAssumption, BucketAssumption
  <1>2. x * Rate \in Int /\ (x + 1) * Rate = x * Rate + Rate
    BY <1>1, Z3
  <1>3. ASSUME NEW y \in Int
        PROVE  y * Rate \in Int /\ (x - y) * Rate + y * Rate = x * Rate
    BY <1>1, Z3
  <1>4. ASSUME x >= Bucket!Longest
        PROVE  x * Rate >= capacity_
    <2>1. PICK q : q = capacity_ \div Rate
      OBVIOUS
    <2>2. q \in Nat /\ (q + 1) * Rate > capacity_
      BY <1>1, <2>1, Quotient
    <2>3. x >= q + 1
      BY <1>4, <2>1 DEF Bucket!Longest
    <2>4. x * Rate >= (q + 1) * Rate
      BY <1>1, <2>2, <2>3, Z3
    <2>5. (q + 1) * Rate \in Int
      BY <1>1, <2>2, Z3
    <2> QED BY <1>1, <1>2, <2>2, <2>4, <2>5
  <1>5. x \in Nat => x * Rate >= 0
    BY <1>1, Z3
  <1> QED BY <1>1, <1>2, <1>3, <1>4, <1>5

(* The refill of a bucket that holds t. *)
Level(t, x) == IF t + x * Rate >= capacity_ THEN capacity_ ELSE t + x * Rate

LEMMA RefillLevel ==
  ASSUME NEW x \in Int, tokens_ \in Int
  PROVE  Bucket!Refilled(x) = Level(tokens_, x)
  <1>1. x * Rate \in Int /\ capacity_ \in Int
    BY Brought, BucketAssumption
  <1>2. PICK y : y = tokens_ + x * Rate
    OBVIOUS
  <1>3. y \in Int
    BY <1>1, <1>2
  <1>4. Bucket!Min({capacity_, y}) = IF capacity_ <= y THEN capacity_ ELSE y
    BY <1>1, <1>3, BucketMin
  <1> QED BY <1>1, <1>2, <1>3, <1>4 DEF Bucket!Refilled, Level

(* One tick more: what the meter leaks is what comes in. *)
LEMMA LevelTick ==
  ASSUME NEW t \in Int, NEW x \in Int, NEW m \in 0..capacity_, Level(t, x) = capacity_ - m
  PROVE  Level(t, x + 1) = capacity_ - (IF m - Rate >= 0 THEN m - Rate ELSE 0)
  <1>1. capacity_ \in Nat /\ Rate \in Nat /\ Rate >= 1
    BY Brought, BucketAssumption
  <1>2. PICK y : y = x * Rate
    OBVIOUS
  <1>3. y \in Int /\ (x + 1) * Rate = y + Rate
    BY <1>2, Brought
  <1> QED BY <1>1, <1>2, <1>3 DEF Level

(* A refill in two parts. *)
LEMMA LevelTwice ==
  ASSUME NEW t \in Int, NEW x \in Int, NEW y \in 0..MaxAge
  PROVE  Level(Level(t, x - y), y) = Level(t, x)
  <1>1. capacity_ \in Nat /\ y \in Nat /\ x - y \in Int
    BY BucketAssumption, SizesAssumption
  <1>2. PICK a, b, c : a = (x - y) * Rate /\ b = y * Rate /\ c = x * Rate
    OBVIOUS
  <1>3. a \in Int /\ b \in Int /\ c \in Int /\ a + b = c /\ b >= 0
    BY <1>1, <1>2, Brought
  <1> QED BY <1>1, <1>2, <1>3 DEF Level

LEMMA LevelFull ==
  ASSUME NEW t \in 0..capacity_, NEW x \in Int, x >= Bucket!Longest
  PROVE  Level(t, x) = capacity_
  <1>1. PICK y : y = x * Rate
    OBVIOUS
  <1>2. y \in Int /\ y >= capacity_
    BY <1>1, Brought
  <1> QED BY <1>1, <1>2, BucketAssumption DEF Level

LEMMA LongestNat == Bucket!Longest \in Nat /\ MaxAge \in Nat /\ capacity_ \in Nat
  <1>1. PICK q : q = capacity_ \div Rate
    OBVIOUS
  <1>2. q \in Nat
    BY <1>1, Quotient, SizesAssumption, BucketAssumption
  <1> QED BY <1>1, <1>2, SizesAssumption, BucketAssumption DEF Bucket!Longest
BucketTypes ==
  /\ tokens_ \in Int /\ since \in 0..Bucket!Longest + MaxAge /\ sum \in Int /\ raced \in BOOLEAN
  /\ rp \in {"idle", "read", "write", "stamp"} /\ age \in 0..MaxAge
  /\ rp = "idle" => age = 0
(* As long as nothing has raced: the meter says what there is at any time, *)
(* counted from last_refill_, or from the clock that a refill has read     *)
(* once it has written the tokens.                                         *)
BucketLevel ==
  /\ tokens_ \in 0..capacity_ /\ meter \in 0..capacity_
  /\ rp # "stamp" => /\ age <= since
                     /\ Level(tokens_, since) = capacity_ - meter
  /\ rp = "write" => sum = Level(tokens_, since - age)
  /\ rp = "stamp" => Level(tokens_, age) = capacity_ - meter
BucketInv == BucketTypes /\ (~raced => BucketLevel)

LEMMA BucketInit == Init => BucketInv
  <1> SUFFICES ASSUME Init PROVE BucketInv
    OBVIOUS
  <1>1. /\ tokens_ = capacity_ /\ since = 0 /\ rp = "idle" /\ age = 0 /\ sum = 0
        /\ meter = 0 /\ raced = FALSE
    BY DEF Init, Bucket!Init
  <1>2. 0 * Rate = 0 /\ capacity_ \in Nat /\ Bucket!Longest \in Nat /\ MaxAge \in Nat
    BY SizesAssumption, LongestNat
  <1>3. Level(capacity_, 0) = capacity_
    BY <1>2 DEF Level
  <1>4. BucketTypes
    <2>1. PICK L : L = Bucket!Longest + MaxAge
      OBVIOUS
    <2>2. L \in Nat /\ since \in 0..L
      BY <1>1, <1>2, <2>1
    <2>3. raced \in BOOLEAN
      BY <1>1, Zenon
    <2>4. age \in 0..MaxAge /\ tokens_ \in Int /\ sum \in Int
      BY <1>1, <1>2
    <2> QED BY <1>1, <2>1, <2>2, <2>3, <2>4, Zenon DEF BucketTypes
  <1>5. BucketLevel
    BY <1>1, <1>2, <1>3 DEF BucketLevel
  <1> QED BY <1>4, <1>5 DEF BucketInv

LEMMA BucketTick ==
  ASSUME BucketInv, Bucket!Tick
  PROVE  BucketInv'
  <1>1. PICK L : L = Bucket!Longest + MaxAge
    OBVIOUS
  <1>2. L \in Nat /\ L >= MaxAge /\ MaxAge \in Nat /\ capacity_ \in Nat /\ Rate \in Nat
    BY <1>1, LongestNat, SizesAssumption
  <1>3. /\ since \in 0..L /\ age \in 0..MaxAge /\ rp \in {"idle", "read", "write", "stamp"}
        /\ rp = "idle" => age = 0
    BY <1>1 DEF BucketInv, BucketTypes
  <1>4. /\ rp # "idle" => age < MaxAge
        /\ age' = IF rp = "idle" THEN 0 ELSE age + 1
        /\ tokens_' = tokens_ /\ rp' = rp /\ sum' = sum /\ raced' = raced
    BY DEF Bucket!Tick
  <1>5. since' = IF since + 1 <= L THEN since + 1 ELSE L
    BY <1>1, <1>2, <1>3, BucketMin DEF Bucket!Tick
  <1>6. BucketTypes'
    BY <1>1, <1>2, <1>3, <1>4, <1>5 DEF BucketInv, BucketTypes
  <1>7. ASSUME ~raced
        PROVE  BucketLevel'
    <2>1. BucketLevel /\ tokens_ \in 0..capacity_ /\ meter \in 0..capacity_
      BY <1>4, <1>7 DEF BucketInv, BucketLevel
    <2>2. meter' = IF meter - Rate >= 0 THEN meter - Rate ELSE 0
      <3>1. PICK y : y = meter - Rate
        OBVIOUS
      <3>2. y \in Int /\ 0 \in Int
        BY <1>2, <2>1, <3>1
      <3>3. meter' = Bucket!Max({y, 0})
        BY <3>1 DEF Bucket!Tick
      <3>4. Bucket!Max({y, 0}) = IF y >= 0 THEN y ELSE 0
        BY <3>2, BucketMin
      <3> QED BY <3>1, <3>3, <3>4
    <2>3. meter' \in 0..capacity_
      BY <1>2, <2>1, <2>2
    <2>4. ASSUME rp # "stamp"
          PROVE  age' <= since' /\ Level(tokens_, since') = capacity_ - meter'
      <3>1. age <= since /\ Level(tokens_, since) = capacity_ - meter
        BY <2>1, <2>4 DEF BucketLevel
      <3>2. CASE since + 1 <= L
        <4>1. Level(tokens_, since + 1) = capacity_ - meter'
          BY <1>3, <2>1, <2>2, <3>1, LevelTick
        <4> QED BY <1>2, <1>3, <1>4, <1>5, <3>1, <3>2, <4>1
      <3>3. CASE ~(since + 1 <= L)
        <4>1. since = L /\ since' = L /\ since \in Int /\ since >= Bucket!Longest
          BY <1>1, <1>2, <1>3, <1>5, <3>3, LongestNat
        <4>2. Level(tokens_, since) = capacity_
          BY <2>1, <4>1, LevelFull
        <4> QED BY <1>2, <1>3, <1>4, <2>1, <2>2, <3>1, <4>1, <4>2
      <3> QED BY <3>2, <3>3
    <2>5. ASSUME rp = "write"
          PROVE  sum = Level(tokens_, since' - age')
      <3>1. sum = Level(tokens_, since - age) /\ age' = age + 1 /\ age' <= MaxAge
        BY <1>2, <1>3, <1>4, <2>1, <2>5 DEF BucketLevel
      <3>2. CASE since + 1 <= L
        BY <1>2, <1>3, <1>5, <3>1, <3>2
      <3>3. CASE ~(since + 1 <= L)
        <4>1. /\ since - age \in Int /\ since - age >= Bucket!Longest
              /\ since' - age' \in Int /\ since' - age' >= Bucket!Longest
          BY <1>1, <1>2, <1>3, <1>5, <3>1, <3>3, LongestNat
        <4> QED BY <2>1, <3>1, <4>1, LevelFull
      <3> QED BY <3>2, <3>3
    <2>6. ASSUME rp = "stamp"
          PROVE  Level(tokens_, age') = capacity_ - meter'
      <3>1. Level(tokens_, age) = capacity_ - meter /\ age' = age + 1
        BY <1>4, <2>1, <2>6 DEF BucketLevel
      <3> QED BY <1>3, <2>1, <2>2, <3>1, LevelTick
    <2> QED BY <1>4, <2>1, <2>3, <2>4, <2>5, <2>6 DEF BucketLevel
  <1> QED BY <1>4, <1>6, <1>7 DEF BucketInv

LEMMA BucketConsume ==
  ASSUME BucketInv, Bucket!try_consume
  PROVE  BucketInv'
  <1>1. /\ raced' = (raced \/ rp # "idle") /\ since' = 0
        /\ rp' = rp /\ age' = age /\ sum' = sum
    BY DEF Bucket!try_consume
  <1>2. PICK t : t = Bucket!Refilled(since)
    OBVIOUS
  <1>3. /\ tokens_' = IF t >= Token THEN t - Token ELSE t
        /\ meter' = IF raced' THEN 0 ELSE IF t >= Token THEN meter + Token ELSE meter
    BY <1>2 DEF Bucket!try_consume
  <1>4. since \in Int /\ tokens_ \in Int /\ capacity_ \in Nat /\ Token \in Nat
    BY SizesAssumption, BucketAssumption, LongestNat DEF BucketInv, BucketTypes
  <1>5. t = Level(tokens_, since) /\ t \in Int
    <2>1. PICK y : y = since * Rate
      OBVIOUS
    <2>2. y \in Int
      BY <1>4, <2>1, Brought
    <2> QED BY <1>2, <1>4, <2>1, <2>2, RefillLevel DEF Level
  <1>6. BucketTypes'
    BY <1>1, <1>3, <1>4, <1>5, LongestNat DEF BucketInv, BucketTypes
  <1>7. ASSUME ~raced'
        PROVE  BucketLevel'
    <2>1. ~raced /\ rp = "idle" /\ age = 0
      BY <1>1, <1>7 DEF BucketInv, BucketTypes
    <2>2. t = capacity_ - meter /\ meter \in 0..capacity_
      BY <1>5, <2>1 DEF BucketInv, BucketLevel
    <2>3. tokens_' \in 0..capacity_ /\ meter' \in 0..capacity_ /\ tokens_' = capacity_ - meter'
      BY <1>3, <1>4, <1>7, <2>2
    <2>4. 0 * Rate = 0
      BY SizesAssumption
    <2>5. Level(tokens_', 0) = tokens_'
      BY <1>4, <2>3, <2>4 DEF Level
    <2> QED BY <1>1, <2>1, <2>3, <2>5 DEF BucketLevel
  <1> QED BY <1>6, <1>7 DEF BucketInv

LEMMA BucketRefill ==
  ASSUME BucketInv, Bucket!refill
  PROVE  BucketInv'
  <1>1. /\ since \in Int /\ age \in Int /\ tokens_ \in Int /\ capacity_ \in Nat
        /\ age \in 0..MaxAge /\ MaxAge \in Nat /\ Bucket!Longest \in Nat
    BY SizesAssumption, LongestNat DEF BucketInv, BucketTypes
  <1>2. CASE Bucket!RefillNow
    BY <1>2 DEF Bucket!RefillNow, BucketInv, BucketTypes, BucketLevel
  <1>3. CASE Bucket!RefillRead
    <2>1. since - age \in Int
      BY <1>1
    <2>2. sum' = Level(tokens_, since - age) /\ sum' \in Int
      <3>1. sum' = Level(tokens_, since - age)
        BY <1>1, <1>3, <2>1, RefillLevel DEF Bucket!RefillRead
      <3>2. PICK y : y = (since - age) * Rate
        OBVIOUS
      <3>3. y \in Int
        BY <2>1, <3>2, Brought
      <3> QED BY <1>1, <3>1, <3>2, <3>3 DEF Level
    <2> QED BY <1>3, <2>2 DEF Bucket!RefillRead, BucketInv, BucketTypes, BucketLevel
  <1>4. CASE Bucket!RefillTokens
    <2>1. /\ rp = "write" /\ rp' = "stamp" /\ tokens_' = sum /\ sum' = 0
          /\ since' = since /\ age' = age /\ meter' = meter /\ raced' = raced
      BY <1>4 DEF Bucket!RefillTokens
    <2>2. BucketTypes'
      BY <2>1 DEF BucketInv, BucketTypes
    <2>3. ASSUME ~raced
          PROVE  BucketLevel'
      <3>1. /\ age <= since /\ Level(tokens_, since) = capacity_ - meter
            /\ sum = Level(tokens_, since - age)
            /\ tokens_ \in 0..capacity_ /\ meter \in 0..capacity_
        BY <2>1, <2>3 DEF BucketInv, BucketLevel
      <3>2. Level(sum, age) = capacity_ - meter
        BY <1>1, <3>1, LevelTwice
      <3>3. sum \in 0..capacity_
        <4>1. PICK y : y = (since - age) * Rate
          OBVIOUS
        <4>2. y \in Int /\ y >= 0
          <5>1. since - age \in Int /\ since - age \in Nat
            BY <1>1, <3>1
          <5> QED BY <4>1, <5>1, Brought
        <4> QED BY <1>1, <3>1, <4>1, <4>2 DEF Level
      <3> QED BY <2>1, <3>1, <3>2, <3>3 DEF BucketLevel
    <2> QED BY <2>1, <2>2, <2>3 DEF BucketInv
  <1>5. CASE Bucket!RefillStamp
    <2>1. /\ rp = "stamp" /\ rp' = "idle" /\ since' = age /\ age' = 0
          /\ tokens_' = tokens_ /\ sum' = sum /\ meter' = meter /\ raced' = raced
      BY <1>5 DEF Bucket!RefillStamp
    <2> QED BY <1>1, <2>1 DEF BucketInv, BucketTypes, BucketLevel
  <1> QED BY <1>2, <1>3, <1>4, <1>5 DEF Bucket!refill

LEMMA BucketStep ==
  ASSUME BucketInv, [Next]_vars
  PROVE  BucketInv'
  <1>1. CASE UseBucket
    BY <1>1, BucketTick, BucketConsume, BucketRefill DEF UseBucket, Bucket!Next
  <1>2. CASE UNCHANGED bucketVars
    BY <1>2 DEF bucketVars, BucketInv, BucketTypes, BucketLevel
  <1>3. UseBucket \/ UNCHANGED bucketVars
    BY DEF Next, vars, services, UseContainer, UseCache, UsePool, UseTable, UseBook, UseWheel,
           RunAlgorithm, RunSearch, RunServer
  <1> QED BY <1>1, <1>2, <1>3

(* RateIsExact: what the bucket holds is what the requests of any stretch  *)
(* of time have left of the burst and the rate; a refill that no           *)
(* try_consume overlaps, however long it takes, changes nothing.           *)
THEOREM GrantsTheRate == Spec => []RateIsExact
  <1>1. ASSUME BucketInv
        PROVE  RateIsExact
    <2>1. since \in Int /\ tokens_ \in Int
      BY <1>1, LongestNat DEF BucketInv, BucketTypes
    <2>2. Bucket!Refilled(since) = Level(tokens_, since)
      BY <2>1, RefillLevel
    <2> QED BY <1>1, <2>2, LongestNat DEF BucketInv, BucketLevel, RateIsExact, Bucket!RateIsExact
  <1>2. BucketInv /\ [Next]_vars => BucketInv'
    BY BucketStep
  <1>3. BucketInv => RateIsExact
    BY <1>1
  <1> QED BY <1>2, <1>3, BucketInit, PTL DEF Spec

----------------------------------------------------------------------------
(* Sequences, and the least of some numbers.                               *)

LEMMA SequenceOf ==
  ASSUME NEW S, NEW n \in Nat, NEW f \in [1..n -> S]
  PROVE  f \in Seq(S) /\ Len(f) = n
  <1>1. f \in Seq(S)
    BY SeqDef, Zenon
  <1>2. Len(f) \in Nat /\ 1..Len(f) = 1..n
    BY <1>1, LenProperties
  <1>3. ASSUME NEW a \in Nat, NEW b \in Nat, 1..a = 1..b
        PROVE  a <= b
    <2>1. CASE a = 0
      BY <2>1
    <2>2. CASE a # 0
      <3>1. a \in 1..a
        BY <2>2
      <3>2. a \in 1..b
        BY <1>3, <3>1, Zenon
      <3> QED BY <3>2
    <2> QED BY <2>1, <2>2
  <1>4. Len(f) <= n /\ n <= Len(f)
    BY <1>2, <1>3
  <1> QED BY <1>1, <1>2, <1>4

(* A set of numbers has a least one: the finite parts T \cap 0..n of the   *)
(* set are well-founded under inclusion.                                   *)
LEMMA LeastNumber ==
  ASSUME NEW T, T \subseteq Nat, T # {}
  PROVE  \E n \in T : \A m \in T : n <= m
  <1> DEFINE F == {T \cap (0..n) : n \in T}
  <1>1. \A n \in T : IsFiniteSet(T \cap (0..n))
    <2> SUFFICES ASSUME NEW n \in T PROVE IsFiniteSet(T \cap (0..n))
      OBVIOUS
    <2>1. IsFiniteSet(0..n)
      BY FS_Interval
    <2> QED BY <2>1, FS_Intersection
  <1>2. F \subseteq FiniteSubsetsOf(Nat) /\ F # {}
    BY <1>1 DEF FiniteSubsetsOf
  <1>3. IsWellFoundedOn(StrictSubsetOrdering(Nat), FiniteSubsetsOf(Nat))
    BY FS_StrictSubsetOrderingWellFounded
  <1>4. \E x \in F : \A y \in F : ~(<<y, x>> \in StrictSubsetOrdering(Nat))
    <2> HIDE DEF F
    <2> QED BY <1>2, <1>3, WFMin
  <1>5. PICK n \in T : \A y \in F : ~(<<y, T \cap (0..n)>> \in StrictSubsetOrdering(Nat))
    BY <1>4
  <1>6. ASSUME NEW m \in T, m < n
        PROVE  FALSE
    <2>1. /\ T \cap (0..m) \in F /\ T \cap (0..m) \subseteq T \cap (0..n)
          /\ n \in T \cap (0..n) /\ n \notin T \cap (0..m)
      BY <1>6
    <2> QED BY <1>5, <2>1 DEF StrictSubsetOrdering
  <1> QED BY <1>6

----------------------------------------------------------------------------
(* Sequences of entries with a descriptor.                                 *)
Entries == [fd : Nat, revents : BOOLEAN]
Fds(s) == {s[x].fd : x \in 1..Len(s)}
OnceEach(s) == \A x, y \in 1..Len(s) : s[x].fd = s[y].fd => x = y
(* The descriptors from place p on, and those of them with revents.        *)
Later(s, p) == {s[x].fd : x \in p..Len(s)}
Marked(s, p) == {s[x].fd : x \in {y \in p..Len(s) : s[y].revents}}

LEMMA EntriesCount ==
  ASSUME NEW s \in Seq(Entries), OnceEach(s)
  PROVE  /\ Len(s) \in Nat /\ DOMAIN s = 1..Len(s) /\ \A x \in 1..Len(s) : s[x] \in Entries
         /\ IsFiniteSet(Fds(s)) /\ Cardinality(Fds(s)) = Len(s) /\ Fds(s) \subseteq Nat
  <1>1. Len(s) \in Nat /\ DOMAIN s = 1..Len(s) /\ \A x \in 1..Len(s) : s[x] \in Entries
    BY LenProperties, ElementOfSeq
  <1>2. PICK f : f = [x \in 1..Len(s) |-> s[x].fd]
    OBVIOUS
  <1>3. f \in Bijection(1..Len(s), Fds(s))
    BY <1>2 DEF OnceEach, Fds, Bijection, Injection, Surjection, IsInjective
  <1>4. ExistsBijection(1..Len(s), Fds(s))
    BY <1>3 DEF ExistsBijection
  <1>5. IsFiniteSet(Fds(s)) /\ Cardinality(Fds(s)) = Len(s)
    BY <1>1, <1>4, FS_CountingElements, FS_Interval, FS_Bijection
  <1> QED BY <1>1, <1>5 DEF Fds, Entries

(* table[i] = table.back(); table.pop_back() takes one entry out, and the  *)
(* entries from there on are the others.                                   *)
LEMMA SwapRemove ==
  ASSUME NEW s \in Seq(Entries), OnceEach(s), NEW p \in 1..Len(s), NEW t,
         t = SubSeq([s EXCEPT ![p] = s[Len(s)]], 1, Len(s) - 1)
  PROVE  /\ t \in Seq(Entries) /\ OnceEach(t) /\ Fds(t) = Fds(s) \ {s[p].fd}
         /\ Later(t, p) = Later(s, p) \ {s[p].fd} /\ Marked(t, p) = Marked(s, p) \ {s[p].fd}
  <1>1. Len(s) \in Nat /\ Len(s) >= 1 /\ \A x \in 1..Len(s) : s[x] \in Entries
    BY EntriesCount
  <1>2. PICK n : n = Len(s)
    OBVIOUS
  <1>3. PICK u : u = [s EXCEPT ![p] = s[n]]
    OBVIOUS
  <1>4. u \in Seq(Entries) /\ Len(u) = n /\ \A x \in 1..n : u[x] = IF x = p THEN s[n] ELSE s[x]
    <2>1. s[n] \in Entries
      BY <1>1, <1>2
    <2> QED BY <1>2, <1>3, <2>1, ExceptSeq
  <1>5. /\ t \in Seq(Entries) /\ Len(t) = n - 1
        /\ \A x \in 1..n - 1 : t[x] = u[x]
    <2>1. \A x \in 1..n - 1 : u[x] \in Entries
      BY <1>1, <1>2, <1>4
    <2>2. 1 \in Int /\ n - 1 \in Int /\ n - 1 - 1 + 1 = n - 1
      BY <1>1, <1>2
    <2>3. t = SubSeq(u, 1, n - 1)
      BY <1>2, <1>3
    <2>4. /\ t \in Seq(Entries) /\ Len(t) = IF 1 <= n - 1 THEN n - 1 - 1 + 1 ELSE 0
          /\ \A x \in 1..n - 1 - 1 + 1 : t[x] = u[1 + x - 1]
      BY <2>1, <2>2, <2>3, SubSeqProperties
    <2> QED BY <1>1, <1>2, <2>2, <2>4
  <1>6. \A x \in 1..n - 1 : t[x] = IF x = p THEN s[n] ELSE s[x]
    BY <1>1, <1>2, <1>4, <1>5
  <1>7. n \in Nat /\ n >= 1 /\ p \in 1..n /\ \A x, y \in 1..n : s[x].fd = s[y].fd => x = y
    BY <1>1, <1>2 DEF OnceEach
  <1>8. OnceEach(t)
    BY <1>5, <1>6, <1>7 DEF OnceEach
  <1>9. ASSUME NEW q \in 1..n, q <= p
        PROVE  /\ \A x \in q..n - 1 : \E y \in q..n : y # p /\ t[x] = s[y]
               /\ \A y \in q..n : y # p => \E x \in q..n - 1 : t[x] = s[y]
               /\ p \in q..n /\ \A y \in q..n : y # p => s[y].fd # s[p].fd
    <2>1. ASSUME NEW x \in q..n - 1
          PROVE  \E y \in q..n : y # p /\ t[x] = s[y]
      <3>1. CASE x = p
        <4>1. n \in q..n /\ n # p
          BY <1>7, <1>9, <2>1, <3>1
        <4>2. p \in 1..n - 1
          BY <1>7, <2>1, <3>1
        <4>3. t[x] = s[n]
          BY <1>6, <3>1, <4>2
        <4> QED BY <4>1, <4>3
      <3>2. CASE x # p
        <4>1. x \in q..n /\ x \in 1..n - 1
          BY <1>7, <1>9, <2>1
        <4>2. t[x] = s[x]
          BY <1>6, <3>2, <4>1
        <4> QED BY <3>2, <4>1, <4>2
      <3> QED BY <3>1, <3>2
    <2>2. ASSUME NEW y \in q..n, y # p
          PROVE  \E x \in q..n - 1 : t[x] = s[y]
      <3>1. CASE y = n
        <4>1. p \in q..n - 1 /\ p \in 1..n - 1
          BY <1>7, <1>9, <2>2, <3>1
        <4>2. t[p] = s[n]
          BY <1>6, <4>1
        <4> QED BY <3>1, <4>1, <4>2
      <3>2. CASE y # n
        <4>1. y \in q..n - 1 /\ y \in 1..n - 1
          BY <1>7, <1>9, <2>2, <3>2
        <4>2. t[y] = s[y]
          BY <1>6, <2>2, <4>1
        <4> QED BY <4>1, <4>2
      <3> QED BY <3>1, <3>2
    <2>3. p \in q..n /\ q..n \subseteq 1..n
      BY <1>7, <1>9
    <2> QED BY <1>7, <2>1, <2>2, <2>3
  <1>10. ASSUME NEW q \in 1..n, q <= p
         PROVE  Later(t, q) = Later(s, q) \ {s[p].fd}
    <2>1. /\ \A x \in q..n - 1 : \E y \in q..n : y # p /\ t[x] = s[y]
          /\ \A y \in q..n : y # p => \E x \in q..n - 1 : t[x] = s[y]
          /\ p \in q..n /\ \A y \in q..n : y # p => s[y].fd # s[p].fd
      BY <1>9, <1>10
    <2>2. Later(t, q) = {t[x].fd : x \in q..n - 1} /\ Later(s, q) = {s[x].fd : x \in q..n}
      BY <1>2, <1>5 DEF Later
    <2>3. Later(t, q) \subseteq Later(s, q) \ {s[p].fd}
      <3> SUFFICES ASSUME NEW x \in q..n - 1 PROVE t[x].fd \in Later(s, q) /\ t[x].fd # s[p].fd
        BY <2>2
      <3>1. PICK y \in q..n : y # p /\ t[x] = s[y]
        BY <2>1
      <3> QED BY <2>1, <2>2, <3>1
    <2>4. Later(s, q) \ {s[p].fd} \subseteq Later(t, q)
      <3> SUFFICES ASSUME NEW y \in q..n, y # p PROVE s[y].fd \in Later(t, q)
        BY <2>2
      <3>1. PICK x \in q..n - 1 : t[x] = s[y]
        BY <2>1
      <3> QED BY <2>2, <3>1
    <2> QED BY <2>3, <2>4
  <1>p. p \in 1..n /\ p <= p
    BY <1>7
  <1>11. Marked(t, p) = Marked(s, p) \ {s[p].fd}
    <2>1. /\ \A x \in p..n - 1 : \E y \in p..n : y # p /\ t[x] = s[y]
          /\ \A y \in p..n : y # p => \E x \in p..n - 1 : t[x] = s[y]
          /\ p \in p..n /\ \A y \in p..n : y # p => s[y].fd # s[p].fd
      BY <1>9, <1>p
    <2>2. /\ Marked(t, p) = {t[x].fd : x \in {y \in p..n - 1 : t[y].revents}}
          /\ Marked(s, p) = {s[x].fd : x \in {y \in p..n : s[y].revents}}
      BY <1>2, <1>5 DEF Marked
    <2>3. Marked(t, p) \subseteq Marked(s, p) \ {s[p].fd}
      <3> SUFFICES ASSUME NEW x \in p..n - 1, t[x].revents
                   PROVE  t[x].fd \in Marked(s, p) /\ t[x].fd # s[p].fd
        BY <2>2
      <3>1. PICK y \in p..n : y # p /\ t[x] = s[y]
        BY <2>1
      <3> QED BY <2>1, <2>2, <3>1
    <2>4. Marked(s, p) \ {s[p].fd} \subseteq Marked(t, p)
      <3> SUFFICES ASSUME NEW y \in p..n, s[y].revents, y # p PROVE s[y].fd \in Marked(t, p)
        BY <2>2
      <3>1. PICK x \in p..n - 1 : t[x] = s[y]
        BY <2>1
      <3> QED BY <2>2, <3>1
    <2> QED BY <2>3, <2>4
  <1>12. Fds(t) = Later(t, 1) /\ Fds(s) = Later(s, 1) /\ 1 \in 1..n /\ 1 <= p
    BY <1>7 DEF Fds, Later
  <1>13. Fds(t) = Fds(s) \ {s[p].fd}
    BY <1>10, <1>12
  <1>14. Later(t, p) = Later(s, p) \ {s[p].fd}
    BY <1>10, <1>p
  <1> QED BY <1>5, <1>8, <1>11, <1>13, <1>14

(* One more entry, of a new descriptor.                                    *)
LEMMA OneMore ==
  ASSUME NEW s \in Seq(Entries), OnceEach(s), NEW e \in Entries, e.fd \notin Fds(s)
  PROVE  /\ Append(s, e) \in Seq(Entries) /\ OnceEach(Append(s, e))
         /\ Fds(Append(s, e)) = Fds(s) \cup {e.fd}
         /\ Marked(Append(s, e), 1) = Marked(s, 1) \cup (IF e.revents THEN {e.fd} ELSE {})
  <1>1. Len(s) \in Nat
    BY EntriesCount
  <1>2. PICK n, t : n = Len(s) /\ t = Append(s, e)
    OBVIOUS
  <1>3. /\ t \in Seq(Entries) /\ Len(t) = n + 1 /\ t[n + 1] = e /\ \A x \in 1..n : t[x] = s[x]
    BY <1>2, AppendProperties
  <1>4. /\ n \in Nat /\ \A x, y \in 1..n : s[x].fd = s[y].fd => x = y
        /\ \A x \in 1..n : s[x].fd # e.fd
    BY <1>1, <1>2 DEF OnceEach, Fds
  <1>5. \A x \in 1..n + 1 : x = n + 1 \/ x \in 1..n
    BY <1>4
  <1>6. 1..n \subseteq 1..n + 1 /\ n + 1 \in 1..n + 1 /\ n + 1 \notin 1..n
    BY <1>4
  <1>7. OnceEach(t)
    BY <1>3, <1>4, <1>5 DEF OnceEach
  <1>8. Fds(t) = Fds(s) \cup {e.fd}
    BY <1>2, <1>3, <1>5, <1>6 DEF Fds
  <1>9. Marked(t, 1) = Marked(s, 1) \cup (IF e.revents THEN {e.fd} ELSE {})
    BY <1>2, <1>3, <1>5, <1>6 DEF Marked
  <1> QED BY <1>2, <1>3, <1>7, <1>8, <1>9

(* Passing one place by.                                                   *)
LEMMA OnePassed ==
  ASSUME NEW s \in Seq(Entries), OnceEach(s), NEW p \in 1..Len(s)
  PROVE  /\ Later(s, p + 1) = Later(s, p) \ {s[p].fd}
         /\ Marked(s, p + 1) = Marked(s, p) \ {s[p].fd}
         /\ s[p].fd \in Marked(s, p) <=> s[p].revents
  <1>1. PICK n : n = Len(s)
    OBVIOUS
  <1>2. n \in Nat /\ p \in 1..n /\ \A x, y \in 1..n : s[x].fd = s[y].fd => x = y
    BY <1>1, EntriesCount DEF OnceEach
  <1>3. \A x : x \in p..n <=> x = p \/ x \in p + 1..n
    BY <1>2
  <1>4. \A x \in p + 1..n : s[x].fd # s[p].fd /\ x \in 1..n
    BY <1>2
  <1>5. p \in p..n /\ \A x \in p..n : s[x].fd = s[p].fd => x = p
    BY <1>2, <1>3, <1>4
  <1> QED BY <1>1, <1>3, <1>4, <1>5 DEF Later, Marked

LEMMA ServerCardinality == \A S : Server!Cardinality(S) = Cardinality(S)
  BY DEF Server!Cardinality, Cardinality, IsFiniteSet, Server!IsFiniteSet

----------------------------------------------------------------------------
(* DescriptorTable: the entries from pos on hold everyone of told who has  *)
(* not been looked at yet; for poll they are the ones with revents, and    *)
(* ret counts them.                                                        *)
States == {"nothing", "data", "eof", "error"}
ServerTypes ==
  /\ server \in {"echo", "poll"} /\ pc \in {"round", "accept", "scan", "ended"}
  /\ table \in Seq(Entries) /\ pos \in Nat \ {0} /\ ret \in Nat
  /\ \A fd \in DOMAIN conn : conn[fd] \in States
TableExact ==
  /\ OnceEach(table) /\ Fds(table) = DOMAIN conn
  /\ pc = "ended" => DOMAIN conn = {}
EchoRest ==
  server = "echo" /\ pc = "scan" => told \ seen \subseteq Later(table, pos)
PollRest ==
  server = "poll" =>
    /\ pc = "accept" => ~junk /\ pos = 1 /\ ret > 0
    /\ pc \in {"accept", "scan"} /\ ~junk =>
         /\ Marked(table, pos) = told \ seen
         /\ ret = Cardinality(told \ seen) + (IF pc = "accept" THEN 1 ELSE 0)
ServerInv == ServerTypes /\ TableExact /\ EchoRest /\ PollRest

LEMMA ServerInit == Init => ServerInv
  <1> SUFFICES ASSUME Init PROVE ServerInv
    OBVIOUS
  <1>1. /\ server \in {"echo", "poll"} /\ conn = [fd \in {} |-> "nothing"] /\ table = <<>>
        /\ pc = "round" /\ pos = 1 /\ ret = 0
    BY DEF Init, Server!Init
  <1>2. table \in Seq(Entries) /\ Len(table) = 0
    BY <1>1
  <1>3. OnceEach(table) /\ Fds(table) = {}
    BY <1>2 DEF OnceEach, Fds
  <1> QED BY <1>1, <1>2, <1>3 DEF ServerInv, ServerTypes, TableExact, EchoRest, PollRest

(* The places of the table, as the properties speak of them.               *)
LEMMA ServerPlaces ==
  ASSUME ServerInv
  PROVE  /\ Server!InTable = Fds(table) /\ Len(table) \in Nat /\ DOMAIN table = 1..Len(table)
         /\ \A x \in 1..Len(table) : table[x] \in Entries /\ table[x].fd \in DOMAIN conn
         /\ IsFiniteSet(DOMAIN conn) /\ Cardinality(DOMAIN conn) = Len(table)
         /\ DOMAIN conn \subseteq Nat
  BY EntriesCount DEF ServerInv, ServerTypes, TableExact, Server!InTable, Fds

(* The kernel gives out a descriptor that is not open.                     *)
LEMMA NewFdIsNew ==
  ASSUME ServerInv, Len(table) < MaxFds
  PROVE  Server!NewFd \in Nat /\ Server!NewFd \notin DOMAIN conn
  <1> DEFINE Unused == {fd \in 1..MaxFds + 1 : fd \notin DOMAIN conn}
  <1>1. MaxFds \in Nat
    BY SizesAssumption
  <1>2. Unused # {}
    <2>1. SUFFICES ASSUME 1..MaxFds + 1 \subseteq DOMAIN conn PROVE FALSE
      OBVIOUS
    <2>2. Cardinality(1..MaxFds + 1) <= Cardinality(DOMAIN conn)
      BY <2>1, ServerPlaces, FS_Subset
    <2>3. Cardinality(1..MaxFds + 1) = MaxFds + 1
      <3>1. 1 \in Int /\ MaxFds + 1 \in Int /\ MaxFds + 1 - 1 + 1 = MaxFds + 1 /\ ~(1 > MaxFds + 1)
        BY <1>1
      <3> QED BY <3>1, FS_Interval
    <2> QED BY <1>1, <2>2, <2>3, ServerPlaces
  <1>3. PICK fd \in Unused : \A m \in Unused : fd <= m
    <2>1. Unused \subseteq Nat
      BY <1>1
    <2> HIDE DEF Unused
    <2> QED BY <1>2, <2>1, LeastNumber
  <1>4. fd \in 1..MaxFds + 1 /\ fd \notin DOMAIN conn /\ \A g \in 1..fd - 1 : g \in DOMAIN conn
    BY <1>1, <1>3
  <1>5. /\ Server!NewFd \in 1..MaxFds + 1 /\ Server!NewFd \notin DOMAIN conn
    BY <1>4 DEF Server!NewFd
  <1> QED BY <1>1, <1>5

(* Everything but pos, the table and the descriptors looked at stays.      *)
LEMMA ServerClient ==
  ASSUME ServerInv, Server!Client
  PROVE  ServerInv'
  <1>1. /\ DOMAIN conn' = DOMAIN conn /\ \A fd \in DOMAIN conn : conn'[fd] \in States
    <2>1. PICK fd \in DOMAIN conn, x \in {"data", "eof", "error"} : conn' = [conn EXCEPT ![fd] = x]
      BY DEF Server!Client
    <2> QED BY <2>1 DEF ServerInv, ServerTypes, States
  <1>2. /\ server' = server /\ table' = table /\ pc' = pc /\ pos' = pos /\ ret' = ret
        /\ told' = told /\ seen' = seen /\ junk' = junk
    BY DEF Server!Client
  <1> QED BY <1>1, <1>2 DEF ServerInv, ServerTypes, TableExact, EchoRest, PollRest

(* A descriptor is opened and gets an entry, or closed and loses it.       *)
LEMMA ServerOpens ==
  ASSUME ServerInv, Len(table) < MaxFds, NEW r \in BOOLEAN,
         table' = Append(table, [fd |-> Server!NewFd, revents |-> r]),
         conn' = Server!Opened(Server!NewFd)
  PROVE  /\ table' \in Seq(Entries) /\ OnceEach(table') /\ Fds(table') = DOMAIN conn'
         /\ \A fd \in DOMAIN conn' : conn'[fd] \in States
         /\ ~r => Marked(table', 1) = Marked(table, 1)
  <1>1. PICK e, n : n = Server!NewFd /\ e = [fd |-> n, revents |-> r]
    OBVIOUS
  <1>2. e \in Entries /\ e.fd = n /\ e.revents = r /\ n \notin Fds(table)
    BY <1>1, NewFdIsNew DEF Entries, ServerInv, TableExact
  <1>3. table \in Seq(Entries) /\ OnceEach(table)
    BY DEF ServerInv, ServerTypes, TableExact
  <1>4. table' = Append(table, e)
    BY <1>1
  <1>5. /\ Append(table, e) \in Seq(Entries) /\ OnceEach(Append(table, e))
        /\ Fds(Append(table, e)) = Fds(table) \cup {e.fd}
        /\ Marked(Append(table, e), 1) = Marked(table, 1) \cup (IF e.revents THEN {e.fd} ELSE {})
    BY <1>2, <1>3, OneMore
  <1>6. DOMAIN conn' = DOMAIN conn \cup {n} /\ \A fd \in DOMAIN conn' : conn'[fd] \in States
    BY <1>1 DEF Server!Opened, ServerInv, ServerTypes, States
  <1> QED BY <1>2, <1>4, <1>5, <1>6 DEF ServerInv, TableExact

LEMMA ServerCloses ==
  ASSUME ServerInv, pos \in 1..Len(table),
         conn' = Server!Closed(table[pos].fd), table' = Server!SwapRemoved
  PROVE  /\ table' \in Seq(Entries) /\ OnceEach(table') /\ Fds(table') = DOMAIN conn'
         /\ \A fd \in DOMAIN conn' : conn'[fd] \in States
         /\ Later(table', pos) = Later(table, pos) \ {table[pos].fd}
         /\ Marked(table', pos) = Marked(table, pos) \ {table[pos].fd}
  <1>1. table \in Seq(Entries) /\ OnceEach(table)
    BY DEF ServerInv, ServerTypes, TableExact
  <1>2. table' = SubSeq([table EXCEPT ![pos] = table[Len(table)]], 1, Len(table) - 1)
    BY DEF Server!SwapRemoved
  <1>3. /\ table' \in Seq(Entries) /\ OnceEach(table') /\ Fds(table') = Fds(table) \ {table[pos].fd}
        /\ Later(table', pos) = Later(table, pos) \ {table[pos].fd}
        /\ Marked(table', pos) = Marked(table, pos) \ {table[pos].fd}
    BY <1>1, <1>2, SwapRemove
  <1>4. DOMAIN conn' = DOMAIN conn \ {table[pos].fd} /\ \A fd \in DOMAIN conn' : conn'[fd] \in States
    BY DEF Server!Closed, ServerInv, ServerTypes
  <1> QED BY <1>3, <1>4 DEF ServerInv, TableExact

(* An entry is read and passed by.                                         *)
LEMMA ServerReads ==
  ASSUME ServerInv, pos \in 1..Len(table), conn' = Server!Drained(table[pos].fd)
  PROVE  DOMAIN conn' = DOMAIN conn /\ \A fd \in DOMAIN conn' : conn'[fd] \in States
  BY DEF Server!Drained, ServerInv, ServerTypes, States

LEMMA ServerPasses ==
  ASSUME ServerInv, pos \in 1..Len(table)
  PROVE  /\ Later(table, pos + 1) = Later(table, pos) \ {table[pos].fd}
         /\ Marked(table, pos + 1) = Marked(table, pos) \ {table[pos].fd}
         /\ table[pos].fd \in Marked(table, pos) <=> table[pos].revents
         /\ pos + 1 \in Nat \ {0}
  BY OnePassed DEF ServerInv, ServerTypes, TableExact

LEMMA EchoAccepts ==
  ASSUME ServerInv, Server!EchoAccept
  PROVE  ServerInv'
  <1>1. /\ server = "echo" /\ server' = "echo" /\ pc = "round" /\ pc' = "scan"
        /\ pos' = 1 /\ seen' = {} /\ ret' = ret
        /\ told' = {table'[x].fd : x \in DOMAIN table'}
    BY DEF Server!EchoAccept
  <1>2. /\ table' \in Seq(Entries) /\ OnceEach(table') /\ Fds(table') = DOMAIN conn'
        /\ \A fd \in DOMAIN conn' : conn'[fd] \in States
    <2>1. CASE UNCHANGED <<waiting, table, conn>>
      BY <2>1 DEF ServerInv, ServerTypes, TableExact
    <2>2. CASE /\ Server!Cardinality(DOMAIN conn) < MaxFds
               /\ table' = Append(table, [fd |-> Server!NewFd, revents |-> FALSE])
               /\ conn' = Server!Opened(Server!NewFd)
      <3>1. Len(table) < MaxFds
        BY <2>2, ServerPlaces, ServerCardinality
      <3> QED BY <2>2, <3>1, ServerOpens
    <2> QED BY <2>1, <2>2 DEF Server!EchoAccept
  <1>3. told' = Later(table', 1)
    <2>1. DOMAIN table' = 1..Len(table')
      BY <1>2, EntriesCount
    <2> QED BY <1>1, <2>1 DEF Later
  <1> QED BY <1>1, <1>2, <1>3 DEF ServerInv, ServerTypes, TableExact, EchoRest, PollRest

(* Leaving the loop: everything in the table is closed.                    *)
LEMMA ServerLeaves ==
  ASSUME ServerInv, Server!EchoFail \/ Server!PollStop
  PROVE  ServerInv'
  <1>1. /\ pc' = "ended" /\ conn' = [fd \in DOMAIN conn \ Fds(table) |-> conn[fd]] /\ table' = <<>>
        /\ server' = server /\ pos' = pos /\ ret' = ret
    BY ServerPlaces DEF Server!EchoFail, Server!PollStop, Server!Loop
  <1>2. DOMAIN conn' = {}
    BY <1>1 DEF ServerInv, TableExact
  <1>3. table' \in Seq(Entries) /\ Len(table') = 0
    BY <1>1
  <1>4. OnceEach(table') /\ Fds(table') = {}
    BY <1>3 DEF OnceEach, Fds
  <1> QED BY <1>1, <1>2, <1>3, <1>4 DEF ServerInv, ServerTypes, TableExact, EchoRest, PollRest

LEMMA EchoScans ==
  ASSUME ServerInv, Server!EchoScan
  PROVE  ServerInv'
  <1>1. /\ server = "echo" /\ server' = "echo" /\ pc = "scan" /\ pc' = "scan"
        /\ pos \in 1..Len(table) /\ ret' = ret /\ told' = told
        /\ seen' = seen \cup {table[pos].fd}
    BY ServerPlaces DEF Server!EchoScan, Server!Loop, ServerInv, ServerTypes
  <1>2. told \ seen \subseteq Later(table, pos)
    BY <1>1 DEF ServerInv, EchoRest
  <1>3. CASE conn' = Server!Closed(table[pos].fd) /\ table' = Server!SwapRemoved /\ pos' = pos
    <2>1. /\ table' \in Seq(Entries) /\ OnceEach(table') /\ Fds(table') = DOMAIN conn'
          /\ \A fd \in DOMAIN conn' : conn'[fd] \in States
          /\ Later(table', pos) = Later(table, pos) \ {table[pos].fd}
      BY <1>1, <1>3, ServerCloses
    <2> QED BY <1>1, <1>2, <1>3, <2>1 DEF ServerInv, ServerTypes, TableExact, EchoRest, PollRest
  <1>4. CASE conn' = Server!Drained(table[pos].fd) /\ pos' = pos + 1 /\ table' = table
    <2>1. DOMAIN conn' = DOMAIN conn /\ \A fd \in DOMAIN conn' : conn'[fd] \in States
      BY <1>1, <1>4, ServerReads
    <2>2. Later(table', pos') = Later(table, pos) \ {table[pos].fd} /\ pos' \in Nat \ {0}
      BY <1>1, <1>4, ServerPasses
    <2> QED BY <1>1, <1>2, <1>4, <2>1, <2>2
            DEF ServerInv, ServerTypes, TableExact, EchoRest, PollRest
  <1> QED BY <1>3, <1>4 DEF Server!EchoScan

LEMMA RoundsEnd ==
  ASSUME ServerInv, Server!EchoRound \/ Server!PollRound
  PROVE  ServerInv'
  <1>1. /\ server' = server /\ conn' = conn /\ table' = table /\ pos' = pos /\ ret' = ret
        /\ pc' \in {"round", "ended"}
        /\ pc' = "ended" => table = <<>>
    BY DEF Server!EchoRound, Server!PollRound, Server!Loop
  <1>2. table = <<>> => DOMAIN conn = {}
    BY DEF ServerInv, TableExact, Fds
  <1> QED BY <1>1, <1>2 DEF ServerInv, ServerTypes, TableExact, EchoRest, PollRest

(* poll's answer: it marks exactly the entries it counts.                  *)
LEMMA PollAnswers ==
  ASSUME ServerInv, Server!Poll
  PROVE  ServerInv'
  <1>1. /\ server = "poll" /\ server' = "poll" /\ pc' \in {"round", "accept", "scan"}
        /\ told' = {fd \in Fds(table) : Server!Ready(fd)} /\ seen' = {} /\ junk' = FALSE
        /\ ret' = Cardinality(told') + (IF waiting > 0 THEN 1 ELSE 0)
        /\ pc' = "accept" => waiting > 0
        /\ pc' = "scan" => ~(waiting > 0)
        /\ table' = [x \in 1..Len(table) |-> [table[x] EXCEPT !.revents = table[x].fd \in told']]
        /\ pos' = 1 /\ conn' = conn
    BY ServerPlaces, ServerCardinality DEF Server!Poll, Server!Loop
  <1>2. PICK n, T : n = Len(table) /\ T = told'
    OBVIOUS
  <1>3. n \in Nat /\ \A x \in 1..n : table[x] \in Entries
    BY <1>2, ServerPlaces
  <1>4. \A x \in 1..n : /\ table'[x] \in Entries /\ table'[x].fd = table[x].fd
                        /\ table'[x].revents <=> table[x].fd \in T
    <2>1. SUFFICES ASSUME NEW x \in 1..n
                   PROVE  /\ table'[x] \in Entries /\ table'[x].fd = table[x].fd
                          /\ table'[x].revents <=> table[x].fd \in T
      OBVIOUS
    <2>2. PICK f, b : f = table[x].fd /\ b = (table[x].fd \in T)
      OBVIOUS
    <2>3. f \in Nat /\ b \in BOOLEAN
      BY <1>3, <2>1, <2>2 DEF Entries
    <2>4. table'[x] = [fd |-> f, revents |-> b]
      BY <1>1, <1>2, <1>3, <2>1, <2>2 DEF Entries
    <2>5. [fd |-> f, revents |-> b] \in Entries
      BY <2>3 DEF Entries
    <2>6. table'[x].fd = f /\ table'[x].revents = b
      <3>1. [fd |-> f, revents |-> b].fd = f /\ [fd |-> f, revents |-> b].revents = b
        OBVIOUS
      <3> QED BY <2>4, <3>1
    <2>7. table'[x].revents <=> table[x].fd \in T
      BY <2>2, <2>6, Zenon
    <2> QED BY <2>2, <2>4, <2>5, <2>6, <2>7, Zenon
  <1>5. table' \in Seq(Entries) /\ Len(table') = n
    <2>1. table' = [x \in 1..n |-> table'[x]]
      BY <1>1, <1>2
    <2>2. table' \in [1..n -> Entries]
      BY <1>4, <2>1
    <2> QED BY <1>3, <2>2, SequenceOf
  <1>6. OnceEach(table') /\ Fds(table') = Fds(table)
    BY <1>2, <1>4, <1>5 DEF OnceEach, Fds, ServerInv, TableExact
  <1>7. Marked(table', 1) = T
    <2>1. T \subseteq Fds(table)
      BY <1>1, <1>2
    <2> QED BY <1>2, <1>4, <1>5, <2>1 DEF Marked, Fds
  <1>8. IsFiniteSet(T) /\ Cardinality(T) \in Nat /\ T = told' \ seen'
    <2>1. IsFiniteSet(Fds(table)) /\ T \subseteq Fds(table)
      BY <1>1, <1>2, ServerPlaces DEF ServerInv, TableExact
    <2> QED BY <1>1, <1>2, <2>1, FS_Subset, FS_CardinalityType
  <1>9. ret' \in Nat /\ (pc' = "accept" => ret' > 0)
    BY <1>1, <1>2, <1>8
  <1> QED BY <1>1, <1>2, <1>5, <1>6, <1>7, <1>8, <1>9
          DEF ServerInv, ServerTypes, TableExact, EchoRest, PollRest

(* The entries with revents that are left are finitely many.               *)
LEMMA MarkedFinite ==
  ASSUME ServerInv
  PROVE  IsFiniteSet(Marked(table, pos)) /\ Cardinality(Marked(table, pos)) \in Nat
  <1>1. \A x \in 1..Len(table) : table[x].fd \in DOMAIN conn
    BY ServerPlaces
  <1>2. Len(table) \in Nat /\ pos..Len(table) \subseteq 1..Len(table)
    BY ServerPlaces DEF ServerInv, ServerTypes
  <1>3. Marked(table, pos) \subseteq DOMAIN conn
    BY <1>1, <1>2 DEF Marked
  <1> QED BY <1>3, ServerPlaces, FS_Subset, FS_CardinalityType

LEMMA PollAccepts ==
  ASSUME ServerInv, Server!PollAccept
  PROVE  ServerInv'
  <1>1. /\ server = "poll" /\ server' = "poll" /\ pc = "accept" /\ pc' = "scan"
        /\ ret' = ret - 1 /\ pos' = pos /\ told' = told /\ seen' = seen
    BY DEF Server!PollAccept
  <1>2. /\ ~junk /\ pos = 1 /\ ret > 0 /\ ret \in Nat
        /\ Marked(table, 1) = told \ seen /\ ret = Cardinality(told \ seen) + 1
    BY <1>1 DEF ServerInv, ServerTypes, PollRest
  <1>3. /\ table' \in Seq(Entries) /\ OnceEach(table') /\ Fds(table') = DOMAIN conn'
        /\ \A fd \in DOMAIN conn' : conn'[fd] \in States
        /\ ~junk' => Marked(table', 1) = Marked(table, 1)
    <2>1. CASE UNCHANGED <<conn, table, junk>>
      BY <2>1 DEF ServerInv, ServerTypes, TableExact
    <2>2. CASE /\ Len(table) < MaxFds /\ conn' = Server!Opened(Server!NewFd)
               /\ \E r \in BOOLEAN : /\ table' = Append(table, [fd |-> Server!NewFd, revents |-> r])
                                     /\ junk' = r
      <3>1. PICK r \in BOOLEAN : /\ table' = Append(table, [fd |-> Server!NewFd, revents |-> r])
                                 /\ junk' = r
        BY <2>2
      <3> QED BY <2>2, <3>1, ServerOpens
    <2> QED BY <2>1, <2>2 DEF Server!PollAccept
  <1>4. IsFiniteSet(told \ seen) /\ Cardinality(told \ seen) \in Nat
    BY <1>2, MarkedFinite
  <1> QED BY <1>1, <1>2, <1>3, <1>4 DEF ServerInv, ServerTypes, TableExact, EchoRest, PollRest

LEMMA PollScans ==
  ASSUME ServerInv, Server!PollScan
  PROVE  ServerInv'
  <1>1. /\ server = "poll" /\ server' = "poll" /\ pc = "scan" /\ pc' = "scan"
        /\ pos \in 1..Len(table) /\ ret > 0 /\ told' = told /\ junk' = junk
    BY ServerPlaces DEF Server!PollScan, Server!Loop, ServerInv, ServerTypes
  <1>2. ~junk => Marked(table, pos) = told \ seen /\ ret = Cardinality(told \ seen)
    <2>1. ~junk => ret = Cardinality(told \ seen) + 0 /\ Marked(table, pos) = told \ seen
      BY <1>1 DEF ServerInv, PollRest
    <2> QED BY <2>1, MarkedFinite
  <1>3. /\ Marked(table, pos + 1) = Marked(table, pos) \ {table[pos].fd} /\ pos + 1 \in Nat \ {0}
        /\ table[pos].fd \in Marked(table, pos) <=> table[pos].revents
    BY <1>1, ServerPasses
  <1>4. CASE ~table[pos].revents /\ pos' = pos + 1 /\ UNCHANGED <<conn, table, ret, seen>>
    BY <1>1, <1>2, <1>3, <1>4 DEF ServerInv, ServerTypes, TableExact, EchoRest, PollRest
  <1>5. CASE /\ table[pos].revents /\ ret' = ret - 1 /\ seen' = seen \cup {table[pos].fd}
             /\ \/ conn' = Server!Closed(table[pos].fd) /\ table' = Server!SwapRemoved /\ pos' = pos
                \/ conn' = Server!Drained(table[pos].fd) /\ pos' = pos + 1 /\ table' = table
    <2>1. /\ table' \in Seq(Entries) /\ OnceEach(table') /\ Fds(table') = DOMAIN conn'
          /\ \A fd \in DOMAIN conn' : conn'[fd] \in States
          /\ Marked(table', pos') = Marked(table, pos) \ {table[pos].fd} /\ pos' \in Nat \ {0}
      <3>1. CASE conn' = Server!Closed(table[pos].fd) /\ table' = Server!SwapRemoved /\ pos' = pos
        BY <1>1, <3>1, ServerCloses DEF ServerInv, ServerTypes
      <3>2. CASE conn' = Server!Drained(table[pos].fd) /\ pos' = pos + 1 /\ table' = table
        BY <1>1, <1>3, <3>2, ServerReads DEF ServerInv, ServerTypes, TableExact
      <3> QED BY <1>5, <3>1, <3>2
    <2>2. ASSUME ~junk
          PROVE  Marked(table', pos') = told \ seen' /\ ret' = Cardinality(told \ seen')
      <3>1. PICK U : U = told \ seen
        OBVIOUS
      <3>2. U = Marked(table, pos) /\ table[pos].fd \in U /\ told \ seen' = U \ {table[pos].fd}
        BY <1>2, <1>3, <1>5, <2>2, <3>1
      <3>3. IsFiniteSet(U)
        BY <3>2, MarkedFinite
      <3>4. Cardinality(U \ {table[pos].fd}) = Cardinality(U) - 1
        BY <3>2, <3>3, FS_RemoveElement
      <3> QED BY <1>2, <1>5, <2>1, <2>2, <3>1, <3>2, <3>4
    <2>3. ret' \in Nat
      BY <1>1, <1>5 DEF ServerInv, ServerTypes
    <2> QED BY <1>1, <1>5, <2>1, <2>2, <2>3
            DEF ServerInv, ServerTypes, TableExact, EchoRest, PollRest
  <1> QED BY <1>4, <1>5 DEF Server!PollScan

LEMMA ServerStep ==
  ASSUME ServerInv, [Next]_vars
  PROVE  ServerInv'
  <1>1. CASE RunServer
    BY <1>1, ServerClient, EchoAccepts, ServerLeaves, EchoScans, RoundsEnd, PollAnswers,
       PollAccepts, PollScans DEF RunServer, Server!Next
  <1>2. CASE UNCHANGED serverVars
    BY <1>2 DEF serverVars, ServerInv, ServerTypes, TableExact, EchoRest, PollRest
  <1>3. RunServer \/ UNCHANGED serverVars
    BY DEF Next, vars, programs, UseContainer, UseCache, UsePool, UseTable, UseBook, UseBucket,
           UseWheel, RunAlgorithm, RunSearch
  <1> QED BY <1>1, <1>2, <1>3

(* ConnectionsExact: the table and the open descriptors are the same at    *)
(* every moment, and moving the last entry into a gap hides nobody from    *)
(* the round it happens in.                                                *)
THEOREM TheTableIsExact == Spec => []ConnectionsExact
  <1>1. ASSUME ServerInv
        PROVE  ConnectionsExact
    <2>1. /\ Server!InTable = DOMAIN conn /\ Len(table) = Server!Cardinality(Server!InTable)
      BY <1>1, ServerPlaces, ServerCardinality DEF ServerInv, TableExact
    <2>2. pc = "ended" => DOMAIN conn = {}
      BY <1>1 DEF ServerInv, TableExact
    <2>3. ASSUME pc = "scan", pos > Len(table) \/ (server = "poll" /\ ret = 0), ~junk
          PROVE  told \ seen = {}
      <3>1. Len(table) \in Nat /\ pos \in Nat /\ server \in {"echo", "poll"}
        BY <1>1, ServerPlaces DEF ServerInv, ServerTypes
      <3>2. CASE pos > Len(table)
        <4>1. pos..Len(table) = {}
          BY <3>1, <3>2
        <4>2. Later(table, pos) = {} /\ Marked(table, pos) = {}
          BY <4>1 DEF Later, Marked
        <4> QED BY <1>1, <2>3, <3>1, <4>2 DEF ServerInv, EchoRest, PollRest
      <3>3. CASE server = "poll" /\ ret = 0
        <4>1. Marked(table, pos) = told \ seen /\ 0 = Cardinality(told \ seen) + 0
          BY <1>1, <2>3, <3>3 DEF ServerInv, PollRest
        <4>2. IsFiniteSet(told \ seen) /\ Cardinality(told \ seen) \in Nat
          BY <1>1, <4>1, MarkedFinite
        <4> QED BY <4>1, <4>2, FS_EmptySet
      <3> QED BY <2>3, <3>2, <3>3
    <2> QED BY <2>1, <2>2, <2>3 DEF ConnectionsExact, Server!ConnectionsExact
  <1>2. ServerInv /\ [Next]_vars => ServerInv'
    BY ServerStep
  <1>3. ServerInv => ConnectionsExact
    BY <1>1
  <1> QED BY <1>2, <1>3, ServerInit, PTL DEF Spec

----------------------------------------------------------------------------
(* OrderBook: a level is not empty and in order of arrival, its orders     *)
(* have its price and side, and they are the ones sent under their ids.    *)
(* Only the order being added is not in a level yet.                       *)
Orders == [id : Nat, side : {"Buy", "Sell"}, price : Int, qty : Int]
LevelOf(l, s, p, n, orders) ==
  /\ l \in Seq(Orders) /\ l # <<>>
  /\ \A x \in 1..Len(l) : /\ l[x].side = s /\ l[x].price = p /\ l[x].id \in 1..n
                          /\ orders[l[x].id].side = s /\ orders[l[x].id].price = p
  /\ \A x, y \in 1..Len(l) : x < y => l[x].id < l[y].id
SideOf(b, s, n, orders) ==
  /\ IsFiniteSet(DOMAIN b) /\ DOMAIN b \subseteq Int
  /\ \A p \in DOMAIN b : LevelOf(b[p], s, p, n, orders)
Added == IF order = Book!NoOrder THEN Len(sent) ELSE Len(sent) - 1

BookTypes ==
  /\ sent \in Seq(Orders) /\ \A x \in 1..Len(sent) : sent[x].id = x
  /\ order # Book!NoOrder => /\ order \in Orders /\ order.id = Len(sent) /\ Len(sent) > 0
                             /\ sent[order.id].side = order.side
                             /\ sent[order.id].price = order.price
  /\ order = Book!NoOrder => fill = Book!NoFill
BookInv ==
  /\ BookTypes /\ SideOf(bids_, "Buy", Added, sent) /\ SideOf(asks_, "Sell", Added, sent)
  /\ PriceTimePriority

LEMMA BookInit == Init => BookInv
  <1> SUFFICES ASSUME Init PROVE BookInv
    OBVIOUS
  <1>1. /\ bids_ = [p \in {} |-> <<>>] /\ asks_ = [p \in {} |-> <<>>]
        /\ order = Book!NoOrder /\ fill = Book!NoFill /\ sent = <<>>
    BY DEF Init, Book!Init
  <1>2. sent \in Seq(Orders) /\ DOMAIN bids_ = {} /\ DOMAIN asks_ = {}
    BY <1>1
  <1>3. SideOf(bids_, "Buy", Added, sent) /\ SideOf(asks_, "Sell", Added, sent)
    BY <1>2, FS_EmptySet DEF SideOf
  <1> QED BY <1>1, <1>2, <1>3 DEF BookInv, BookTypes, PriceTimePriority, Book!PriceTimePriority

(* More orders have been sent.                                             *)
LEMMA LevelStays ==
  ASSUME NEW l, NEW s, NEW p, NEW m \in Nat, NEW n \in Nat, m <= n, NEW S, NEW T,
         \A x \in 1..m : T[x] = S[x], LevelOf(l, s, p, m, S)
  PROVE  LevelOf(l, s, p, n, T)
  BY DEF LevelOf

LEMMA SideStays ==
  ASSUME NEW b, NEW s, NEW m \in Nat, NEW n \in Nat, m <= n, NEW S, NEW T,
         \A x \in 1..m : T[x] = S[x], SideOf(b, s, m, S)
  PROVE  SideOf(b, s, n, T)
  BY LevelStays DEF SideOf

(* A level is replaced, or erased when it is empty.                        *)
LEMMA LevelReplaced ==
  ASSUME NEW b, NEW s, NEW n, NEW S, SideOf(b, s, n, S), NEW p \in Int, NEW l,
         l = <<>> \/ LevelOf(l, s, p, n, S)
  PROVE  /\ SideOf(Book!WithLevel(b, p, l), s, n, S)
         /\ \A q \in DOMAIN Book!WithLevel(b, p, l) :
              Book!WithLevel(b, p, l)[q] = (IF q = p THEN l ELSE b[q]) /\ (q # p => q \in DOMAIN b)
  <1>1. PICK E : E = IF l = <<>> THEN {} ELSE {p}
    OBVIOUS
  <1>2. IsFiniteSet((DOMAIN b \ {p}) \cup E)
    <2>1. IsFiniteSet(E)
      BY <1>1, FS_EmptySet, FS_Singleton
    <2>2. IsFiniteSet(DOMAIN b \ {p})
      BY FS_Subset DEF SideOf
    <2> QED BY <2>1, <2>2, FS_Union
  <1>3. PICK d : d = Book!WithLevel(b, p, l)
    OBVIOUS
  <1>4. /\ DOMAIN d = (DOMAIN b \ {p}) \cup E
        /\ \A q \in DOMAIN d : d[q] = IF q = p THEN l ELSE b[q]
    BY <1>1, <1>3 DEF Book!WithLevel
  <1>5. \A q \in DOMAIN d : LevelOf(d[q], s, q, n, S)
    <2>1. SUFFICES ASSUME NEW q \in DOMAIN d PROVE LevelOf(d[q], s, q, n, S)
      OBVIOUS
    <2>2. CASE q = p
      BY <1>1, <1>4, <2>1, <2>2
    <2>3. CASE q # p
      BY <1>1, <1>4, <2>1, <2>3 DEF SideOf
    <2> QED BY <2>2, <2>3
  <1> QED BY <1>1, <1>2, <1>3, <1>4, <1>5 DEF SideOf

(* A finite set of numbers has a least and a greatest one.                 *)
LEMMA LeastOfFinite ==
  ASSUME NEW T, T \subseteq Int, T # {}, IsFiniteSet(T)
  PROVE  \E n \in T : \A m \in T : n <= m
  <1> DEFINE F == {{m \in T : m <= n} : n \in T}
  <1>1. F \subseteq FiniteSubsetsOf(T) /\ F # {}
    <2>1. SUFFICES ASSUME NEW n \in T PROVE IsFiniteSet({m \in T : m <= n})
      BY DEF FiniteSubsetsOf
    <2> QED BY FS_Subset
  <1>2. IsWellFoundedOn(StrictSubsetOrdering(T), FiniteSubsetsOf(T))
    BY FS_StrictSubsetOrderingWellFounded
  <1>3. \E x \in F : \A y \in F : ~(<<y, x>> \in StrictSubsetOrdering(T))
    <2> HIDE DEF F
    <2> QED BY <1>1, <1>2, WFMin
  <1>4. PICK n \in T : \A y \in F : ~(<<y, {m \in T : m <= n}>> \in StrictSubsetOrdering(T))
    BY <1>3
  <1>5. ASSUME NEW z \in T, z < n
        PROVE  FALSE
    <2>1. {m \in T : m <= z} \in F
      OBVIOUS
    <2>2. {m \in T : m <= z} \subseteq {m \in T : m <= n}
      <3>1. SUFFICES ASSUME NEW m \in T, m <= z PROVE m <= n
        OBVIOUS
      <3>2. m \in Int /\ n \in Int /\ z \in Int
        OBVIOUS
      <3> QED BY <1>5, <3>1, <3>2
    <2>3. n \in {m \in T : m <= n} /\ n \notin {m \in T : m <= z}
      <3>1. n \in Int /\ z \in Int
        OBVIOUS
      <3> QED BY <1>5, <3>1
    <2> HIDE DEF F
    <2> QED BY <1>4, <2>1, <2>2, <2>3 DEF StrictSubsetOrdering
  <1> QED BY <1>5

LEMMA GreatestOfFinite ==
  ASSUME NEW T, T \subseteq Int, T # {}, IsFiniteSet(T)
  PROVE  \E n \in T : \A m \in T : n >= m
  <1> DEFINE U == {0 - m : m \in T}
  <1>1. IsFiniteSet(U) /\ U \subseteq Int /\ U # {}
    <2>1. PICK f : f = [m \in T |-> 0 - m]
      OBVIOUS
    <2>2. f \in Surjection(T, U)
      BY <2>1 DEF Surjection
    <2>3. IsFiniteSet(U)
      <3> HIDE DEF U
      <3> QED BY <2>2, FS_Surjection
    <2>4. U \subseteq Int
      <3>1. SUFFICES ASSUME NEW m \in T PROVE 0 - m \in Int
        OBVIOUS
      <3>2. m \in Int
        OBVIOUS
      <3> QED BY <3>2
    <2> QED BY <2>3, <2>4
  <1>2. PICK u \in U : \A m \in U : u <= m
    <2> HIDE DEF U
    <2> QED BY <1>1, LeastOfFinite
  <1>3. PICK n \in T : u = 0 - n
    OBVIOUS
  <1>4. \A m \in T : u <= 0 - m
    BY <1>2
  <1>5. \A m \in T : n >= m
    BY <1>3, <1>4
  <1> QED BY <1>5

LEMMA LeastOfTwo ==
  ASSUME NEW a \in Int, NEW b \in Int
  PROVE  Book!Min({a, b}) \in Int /\ Book!Min({a, b}) <= a /\ Book!Min({a, b}) <= b
  <1>1. \E x \in {a, b} : \A y \in {a, b} : x <= y
    OBVIOUS
  <1> QED BY <1>1 DEF Book!Min

(* The best price of the other side, as the matching loops test it.        *)
Sign(s) == IF s = "Sell" THEN 1 ELSE -1
LEMMA BestIsBest ==
  ASSUME BookInv, order # Book!NoOrder, Book!Crosses(order), NEW b, b = Book!Opposite(order),
         NEW m, m = Book!Best(order), NEW s, s = IF order.side = "Buy" THEN "Sell" ELSE "Buy"
  PROVE  /\ SideOf(b, s, Added, sent) /\ m \in DOMAIN b
         /\ \A p \in DOMAIN b : Sign(s) * m <= Sign(s) * p
         /\ Sign(s) * m <= Sign(s) * order.price
  <1>1. order.side \in {"Buy", "Sell"} /\ order.price \in Int
    BY DEF BookInv, BookTypes, Orders
  <1>2. SideOf(b, s, Added, sent) /\ DOMAIN b # {}
    BY <1>1 DEF Book!Opposite, Book!Crosses, BookInv
  <1>3. IsFiniteSet(DOMAIN b) /\ DOMAIN b \subseteq Int
    BY <1>2 DEF SideOf
  <1>4. CASE order.side = "Buy"
    <2>1. s = "Sell" /\ b = asks_ /\ m = Book!Min(DOMAIN b) /\ m <= order.price
      BY <1>4 DEF Book!Opposite, Book!Best, Book!Crosses
    <2>2. m \in DOMAIN b /\ \A p \in DOMAIN b : m <= p
      BY <1>2, <1>3, <2>1, LeastOfFinite DEF Book!Min
    <2> QED BY <1>1, <1>2, <1>3, <2>1, <2>2 DEF Sign
  <1>5. CASE order.side = "Sell"
    <2>1. s = "Buy" /\ b = bids_ /\ m = Book!Max(DOMAIN b) /\ m >= order.price
      BY <1>5 DEF Book!Opposite, Book!Best, Book!Crosses
    <2>2. m \in DOMAIN b /\ \A p \in DOMAIN b : m >= p
      BY <1>2, <1>3, <2>1, GreatestOfFinite DEF Book!Max
    <2> QED BY <1>1, <1>2, <1>3, <2>1, <2>2 DEF Sign
  <1> QED BY <1>1, <1>4, <1>5

(* What a fill leaves of the best level: the orders behind the first, or   *)
(* all of them with the first one smaller.                                 *)
LEMMA LevelLeft ==
  ASSUME NEW l, NEW s, NEW p, NEW n, NEW S, LevelOf(l, s, p, n, S), NEW q \in Int, NEW t,
         t = Tail(l) \/ t = [l EXCEPT ![1].qty = @ - q]
  PROVE  /\ t = <<>> \/ LevelOf(t, s, p, n, S)
         /\ t \in Seq(Orders) /\ \A x \in 1..Len(t) : t[x].id >= l[1].id
  <1>1. /\ l \in Seq(Orders) /\ l # <<>> /\ Len(l) \in Nat /\ Len(l) > 0
        /\ \A x \in 1..Len(l) : l[x] \in Orders
    BY EmptySeq, LenProperties, ElementOfSeq DEF LevelOf
  <1>2. PICK c : c = Len(l)
    OBVIOUS
  <1>3. /\ \A x \in 1..c : /\ l[x].side = s /\ l[x].price = p /\ l[x].id \in 1..n
                           /\ S[l[x].id].side = s /\ S[l[x].id].price = p
        /\ \A x, y \in 1..c : x < y => l[x].id < l[y].id
        /\ \A x \in 1..c : l[x].id \in Nat
    BY <1>1, <1>2 DEF LevelOf, Orders
  <1>4. CASE t = Tail(l)
    <2>1. t \in Seq(Orders) /\ Len(t) = c - 1 /\ \A x \in 1..c - 1 : t[x] = l[x + 1]
      BY <1>1, <1>2, <1>4, HeadTailProperties
    <2>2. \A x \in 1..c - 1 : x + 1 \in 1..c /\ 1 \in 1..c /\ 1 < x + 1
      BY <1>1, <1>2
    <2>3. \A x \in 1..c - 1 : t[x].id >= l[1].id
      <3>1. SUFFICES ASSUME NEW x \in 1..c - 1 PROVE t[x].id >= l[1].id
        OBVIOUS
      <3>2. l[1].id < l[x + 1].id /\ l[1].id \in Nat /\ l[x + 1].id \in Nat
        BY <1>3, <2>2, <3>1
      <3> QED BY <2>1, <3>1, <3>2
    <2>4. \A x, y \in 1..c - 1 : x < y => t[x].id < t[y].id
      <3>1. SUFFICES ASSUME NEW x \in 1..c - 1, NEW y \in 1..c - 1, x < y PROVE t[x].id < t[y].id
        OBVIOUS
      <3>2. x + 1 < y + 1
        BY <3>1
      <3> QED BY <1>3, <2>1, <2>2, <3>2
    <2> QED BY <1>3, <2>1, <2>2, <2>3, <2>4 DEF LevelOf
  <1>5. CASE t = [l EXCEPT ![1].qty = @ - q]
    <2>1. PICK e, f : e = l[1] /\ f = [e EXCEPT !.qty = e.qty - q]
      OBVIOUS
    <2>2. e \in Orders /\ 1 \in 1..c
      BY <1>1, <1>2, <2>1
    <2>3. f \in Orders /\ f.id = e.id /\ f.side = e.side /\ f.price = e.price
      BY <2>1, <2>2 DEF Orders
    <2>4. t = [l EXCEPT ![1] = f]
      BY <1>1, <1>5, <2>1
    <2>5. t \in Seq(Orders) /\ Len(t) = c /\ \A x \in 1..c : t[x] = IF x = 1 THEN f ELSE l[x]
      BY <1>1, <1>2, <2>2, <2>3, <2>4, ExceptSeq
    <2>6. t # <<>>
      BY <1>1, <1>2, <2>5, EmptySeq
    <2>7. \A x \in 1..c : t[x].id = l[x].id /\ t[x].side = l[x].side /\ t[x].price = l[x].price
      BY <2>1, <2>3, <2>5
    <2>8. \A x \in 1..c : l[x].id >= l[1].id
      <3>1. SUFFICES ASSUME NEW x \in 1..c PROVE l[x].id >= l[1].id
        OBVIOUS
      <3>2. x = 1 \/ 1 < x
        BY <1>1, <1>2
      <3> QED BY <1>3, <2>2, <3>2
    <2>9. \A x, y \in 1..c : x < y => t[x].id < t[y].id
      BY <1>3, <2>7
    <2>10. \A x \in 1..c : /\ t[x].side = s /\ t[x].price = p /\ t[x].id \in 1..n
                           /\ S[t[x].id].side = s /\ S[t[x].id].price = p
      BY <1>3, <2>7
    <2>11. LevelOf(t, s, p, n, S)
      BY <2>5, <2>6, <2>9, <2>10 DEF LevelOf
    <2> QED BY <2>5, <2>7, <2>8, <2>11
  <1> QED BY <1>4, <1>5

(* A fill is made with the first order r of the best level l, which then   *)
(* is t, and leaves the other side as d.                                   *)
FillWith(b, m, s, l, r, q, t, d) ==
  /\ s = (IF order.side = "Buy" THEN "Sell" ELSE "Buy") /\ b = Book!Opposite(order)
  /\ SideOf(b, s, Added, sent) /\ m \in DOMAIN b /\ m \in Int
  /\ \A p \in DOMAIN b : Sign(s) * m <= Sign(s) * p
  /\ Sign(s) * m <= Sign(s) * order.price
  /\ l = b[m] /\ r = l[1] /\ r \in Orders /\ r.id \in 1..Added
  /\ r.side = s /\ r.price = m /\ sent[r.id].side = s /\ sent[r.id].price = m
  /\ order \in Orders /\ q \in Int /\ q <= order.qty
  /\ t = (IF r.qty = q THEN Tail(l) ELSE [l EXCEPT ![1].qty = @ - q]) /\ t \in Seq(Orders)
  /\ \A x \in 1..Len(t) : t[x].id >= r.id
  /\ d = Book!WithLevel(b, m, t) /\ SideOf(d, s, Added, sent)
  /\ \A p \in DOMAIN d : d[p] = (IF p = m THEN t ELSE b[p]) /\ (p # m => p \in DOMAIN b)
FilledWith(s, r, q, d) ==
  /\ sent' = sent /\ fill' = [match_id |-> r.id, price |-> r.price, qty |-> q]
  /\ order' \in Orders /\ order'.id = order.id /\ order'.side = order.side
  /\ order'.price = order.price /\ order'.qty = order.qty - q
  /\ order' # Book!NoOrder /\ Added' = Added /\ Book!SetBook(s, d)
LEMMA FillParts ==
  ASSUME BookInv, Book!Match
  PROVE  \E b, m, s, l, r, q, t, d : FillWith(b, m, s, l, r, q, t, d) /\ FilledWith(s, r, q, d)
  <1>1. PICK b, m, s : /\ b = Book!Opposite(order) /\ m = Book!Best(order)
                       /\ s = IF order.side = "Buy" THEN "Sell" ELSE "Buy"
    OBVIOUS
  <1>2. order # Book!NoOrder /\ Book!Crosses(order) /\ sent' = sent
    BY DEF Book!Match
  <1>3. /\ SideOf(b, s, Added, sent) /\ m \in DOMAIN b
        /\ \A p \in DOMAIN b : Sign(s) * m <= Sign(s) * p
        /\ Sign(s) * m <= Sign(s) * order.price
    BY <1>1, <1>2, BestIsBest
  <1>4. LevelOf(b[m], s, m, Added, sent) /\ m \in Int /\ DOMAIN b \subseteq Int
    BY <1>3 DEF SideOf
  <1>5. PICK l, r : l = b[m] /\ r = l[1]
    OBVIOUS
  <1>6. /\ r \in Orders /\ r.side = s /\ r.price = m /\ r.id \in 1..Added
        /\ sent[r.id].side = s /\ sent[r.id].price = m /\ Head(l) = r
    <2>1. l \in Seq(Orders) /\ Len(l) \in Nat \ {0}
      BY <1>4, <1>5, EmptySeq DEF LevelOf
    <2> QED BY <1>4, <1>5, <2>1, ElementOfSeq DEF LevelOf
  <1>7. PICK q : q = Book!Min({order.qty, r.qty})
    OBVIOUS
  <1>8. order \in Orders /\ q \in Int /\ order.qty \in Int /\ q <= order.qty
    BY <1>2, <1>6, <1>7, LeastOfTwo DEF BookInv, BookTypes, Orders
  <1>9. PICK t : t = IF r.qty = q THEN Tail(l) ELSE [l EXCEPT ![1].qty = @ - q]
    OBVIOUS
  <1>10. PICK d : d = Book!WithLevel(b, m, t)
    OBVIOUS
  <1>11. /\ fill' = [match_id |-> r.id, price |-> r.price, qty |-> q]
         /\ order' = [order EXCEPT !.qty = order.qty - q]
         /\ Book!SetBook(s, d)
    BY <1>1, <1>5, <1>6, <1>7, <1>9, <1>10 DEF Book!Match
  <1>12. /\ t = <<>> \/ LevelOf(t, s, m, Added, sent)
         /\ t \in Seq(Orders) /\ \A x \in 1..Len(t) : t[x].id >= r.id
    <2>1. LevelOf(l, s, m, Added, sent) /\ r = l[1]
      BY <1>4, <1>5
    <2>2. t = Tail(l) \/ t = [l EXCEPT ![1].qty = @ - q]
      BY <1>9
    <2> HIDE <1>5
    <2> QED BY <1>8, <2>1, <2>2, LevelLeft
  <1>13. /\ SideOf(d, s, Added, sent)
         /\ \A p \in DOMAIN d : d[p] = (IF p = m THEN t ELSE b[p]) /\ (p # m => p \in DOMAIN b)
    BY <1>3, <1>4, <1>10, <1>12, LevelReplaced
  <1>14. /\ order' \in Orders /\ order'.id = order.id /\ order'.side = order.side
         /\ order'.price = order.price /\ order'.qty = order.qty - q /\ order' # Book!NoOrder
    <2>1. order' \in Orders /\ order'.id = order.id /\ order'.side = order.side
          /\ order'.price = order.price /\ order'.qty = order.qty - q
      BY <1>8, <1>11 DEF Orders
    <2>2. order'.id # 0
      BY <1>2, <2>1 DEF BookInv, BookTypes
    <2>3. Book!NoOrder.id = 0
      BY DEF Book!NoOrder
    <2> QED BY <2>1, <2>2, <2>3
  <1>15. Added' = Added
    BY <1>2, <1>14 DEF Added, Book!NoOrder
  <1>16. FillWith(b, m, s, l, r, q, t, d)
    BY <1>1, <1>3, <1>4, <1>5, <1>6, <1>8, <1>9, <1>10, <1>12, <1>13 DEF FillWith
  <1>17. FilledWith(s, r, q, d)
    BY <1>2, <1>11, <1>14, <1>15 DEF FilledWith
  <1> QED BY <1>16, <1>17

LEMMA FillIsRight ==
  ASSUME BookInv, Book!Match
  PROVE  BookInv'
  <1>0. PICK b, m, s, l, r, q, t, d : FillWith(b, m, s, l, r, q, t, d) /\ FilledWith(s, r, q, d)
    BY FillParts
  <1>1. /\ b = Book!Opposite(order) /\ s = IF order.side = "Buy" THEN "Sell" ELSE "Buy"
        /\ order \in Orders
    BY <1>0 DEF FillWith
  <1>2. sent' = sent /\ order # Book!NoOrder
    BY <1>0 DEF FilledWith, Book!Match
  <1>3. /\ SideOf(b, s, Added, sent) /\ m \in DOMAIN b
        /\ \A p \in DOMAIN b : Sign(s) * m <= Sign(s) * p
        /\ Sign(s) * m <= Sign(s) * order.price
    BY <1>0 DEF FillWith
  <1>4. m \in Int /\ DOMAIN b \subseteq Int
    BY <1>0, <1>3 DEF FillWith, SideOf
  <1>6. r.price = m /\ r.id \in 1..Added /\ sent[r.id].side = s /\ sent[r.id].price = m
    BY <1>0 DEF FillWith
  <1>11. /\ fill' = [match_id |-> r.id, price |-> r.price, qty |-> q]
         /\ Book!SetBook(s, d)
    BY <1>0 DEF FilledWith
  <1>12. \A x \in 1..Len(t) : t[x].id >= r.id
    BY <1>0 DEF FillWith
  <1>13. /\ SideOf(d, s, Added, sent)
         /\ \A p \in DOMAIN d : d[p] = (IF p = m THEN t ELSE b[p]) /\ (p # m => p \in DOMAIN b)
    BY <1>0 DEF FillWith
  <1>14. /\ order' \in Orders /\ order'.id = order.id /\ order'.side = order.side
         /\ order'.price = order.price /\ order' # Book!NoOrder
    BY <1>0 DEF FilledWith
  <1>15. Added' = Added
    BY <1>0 DEF FilledWith
  <1>16. BookTypes'
    BY <1>2, <1>14 DEF BookTypes, BookInv
  <1>17. SideOf(bids_', "Buy", Added, sent) /\ SideOf(asks_', "Sell", Added, sent)
    BY <1>1, <1>11, <1>13 DEF BookInv, Book!SetBook
  <1>18. s \in {"Buy", "Sell"} /\ s # order.side /\ Book!Book(s)' = d
    BY <1>1, <1>11 DEF Book!Book, Book!SetBook, Orders
  <1>19. ASSUME NEW o \in Book!Resting(s)'
         PROVE  Sign(s) * o.price > Sign(s) * m \/ (o.price = m /\ o.id >= r.id)
    <2>1. PICK p \in DOMAIN d : o \in Book!ToSet(d[p])
      BY <1>18, <1>19 DEF Book!Resting
    <2>2. PICK x \in 1..Len(d[p]) : o = d[p][x]
      <3>1. DOMAIN d[p] = 1..Len(d[p])
        BY <1>13, <2>1, LenProperties DEF SideOf, LevelOf
      <3> QED BY <2>1, <3>1 DEF Book!ToSet
    <2>3. o.price = p /\ p \in Int
      BY <1>13, <2>1, <2>2 DEF SideOf, LevelOf
    <2>4. CASE p = m
      BY <1>12, <1>13, <2>1, <2>2, <2>3, <2>4
    <2>5. CASE p # m
      <3>1. Sign(s) * m <= Sign(s) * p
        BY <1>3, <1>13, <2>1, <2>5
      <3>2. Sign(s) = 1 \/ Sign(s) = -1
        BY DEF Sign
      <3> QED BY <1>4, <2>3, <2>5, <3>1, <3>2
    <2> QED BY <2>4, <2>5
  <1>20. PriceTimePriority'
    <2>1. fill'.match_id = r.id /\ fill'.price = m
      BY <1>6, <1>11
    <2>2. sent'[fill'.match_id].side = s /\ sent'[fill'.match_id].price = m
      BY <1>2, <1>6, <2>1
    <2>3. Sign(s) * m <= Sign(s) * order'.price
      BY <1>3, <1>14
    <2>4. PICK R, g : R = sent'[fill'.match_id] /\ g = IF R.side = "Sell" THEN 1 ELSE -1
      OBVIOUS
    <2>5. R.side = s /\ R.price = m /\ g = Sign(s)
      BY <2>2, <2>4 DEF Sign
    <2>6. fill'.price = R.price /\ R.side # order'.side /\ g * fill'.price <= g * order'.price
      BY <1>14, <1>18, <2>1, <2>3, <2>5
    <2>7. \A o \in Book!Resting(R.side)' : g * o.price > g * R.price \/ (o.price = R.price /\ o.id >= r.id)
      BY <1>19, <2>5
    <2>8. \A o \in Book!Resting(R.side)' :
            g * o.price > g * R.price \/ (o.price = R.price /\ o.id >= R.id)
      <3>1. R = sent[r.id] /\ Len(sent) \in Nat
        BY <1>2, <2>1, <2>4, LenProperties DEF BookInv, BookTypes
      <3>2. r.id \in 1..Len(sent)
        BY <1>6, <3>1 DEF Added
      <3>3. R.id = r.id
        BY <3>1, <3>2 DEF BookInv, BookTypes
      <3> QED BY <2>7, <3>3
    <2> QED BY <2>4, <2>6, <2>8, Zenon DEF PriceTimePriority, Book!PriceTimePriority
  <1> QED BY <1>2, <1>15, <1>16, <1>17, <1>20 DEF BookInv

LEMMA OrderRests ==
  ASSUME BookInv, Book!Rest
  PROVE  BookInv'
  <1>1. /\ order # Book!NoOrder /\ order' = Book!NoOrder /\ fill' = Book!NoFill /\ sent' = sent
        /\ order \in Orders /\ order.id = Len(sent) /\ Len(sent) > 0
        /\ sent[order.id].side = order.side /\ sent[order.id].price = order.price
    BY DEF Book!Rest, BookInv, BookTypes
  <1>2. /\ Len(sent) \in Nat /\ Added = Len(sent) - 1 /\ Added' = Len(sent)
        /\ Added \in Nat /\ Added' \in Nat /\ Added <= Added'
    BY <1>1, LenProperties DEF Added, BookInv, BookTypes
  <1>3. SideOf(bids_, "Buy", Added', sent) /\ SideOf(asks_, "Sell", Added', sent)
    BY <1>2, SideStays DEF BookInv
  <1>4. CASE UNCHANGED <<bids_, asks_>>
    BY <1>1, <1>3, <1>4 DEF BookInv, BookTypes, PriceTimePriority, Book!PriceTimePriority
  <1>5. CASE order.qty > 0
    <2>1. PICK b, s, p : b = Book!Book(order.side) /\ s = order.side /\ p = order.price
      OBVIOUS
    <2>2. s \in {"Buy", "Sell"} /\ p \in Int /\ SideOf(b, s, Added, sent)
      BY <1>1, <2>1 DEF Orders, Book!Book, BookInv
    <2>3. PICK l : l = IF p \in DOMAIN b THEN b[p] ELSE <<>>
      OBVIOUS
    <2>4. PICK t : t = Append(l, order)
      OBVIOUS
    <2>5. Book!SetBook(s, Book!WithLevel(b, p, t))
      BY <1>5, <2>1, <2>3, <2>4 DEF Book!Rest
    <2>6. l \in Seq(Orders) /\ (l = <<>> \/ LevelOf(l, s, p, Added, sent))
      BY <2>2, <2>3, EmptySeq DEF SideOf, LevelOf
    <2>7. LevelOf(t, s, p, Added', sent)
      <3>1. PICK n : n = Len(l)
        OBVIOUS
      <3>2. /\ t \in Seq(Orders) /\ t # <<>> /\ Len(t) = n + 1 /\ n \in Nat
            /\ \A x \in 1..n : t[x] = l[x]
            /\ t[n + 1] = order
        BY <1>1, <2>4, <2>6, <3>1, AppendProperties, LenProperties
      <3>3. /\ \A x \in 1..n : /\ l[x].side = s /\ l[x].price = p /\ l[x].id \in 1..Added
                               /\ sent[l[x].id].side = s /\ sent[l[x].id].price = p
            /\ \A x, y \in 1..n : x < y => l[x].id < l[y].id
        BY <2>6, <3>1, EmptySeq DEF LevelOf
      <3>4. \A x \in 1..n + 1 : x \in 1..n \/ x = n + 1
        BY <3>2
      <3>5. order.id \in 1..Added' /\ \A x \in 1..n : l[x].id \in 1..Added' /\ l[x].id < order.id
        BY <1>1, <1>2, <3>3
      <3>6. \A x \in 1..n + 1 : /\ t[x].side = s /\ t[x].price = p /\ t[x].id \in 1..Added'
                                /\ sent[t[x].id].side = s /\ sent[t[x].id].price = p
        BY <1>1, <2>1, <3>2, <3>3, <3>4, <3>5
      <3>7. \A x, y \in 1..n + 1 : x < y => t[x].id < t[y].id
        <4>1. SUFFICES ASSUME NEW x \in 1..n + 1, NEW y \in 1..n + 1, x < y PROVE t[x].id < t[y].id
          OBVIOUS
        <4>2. x \in 1..n
          BY <3>2, <4>1
        <4> QED BY <3>2, <3>3, <3>4, <3>5, <4>1, <4>2
      <3> QED BY <3>2, <3>6, <3>7 DEF LevelOf
    <2>8. SideOf(b, s, Added', sent)
      BY <1>2, <2>2, SideStays
    <2>9. SideOf(Book!WithLevel(b, p, t), s, Added', sent)
      BY <2>2, <2>7, <2>8, LevelReplaced
    <2>10. SideOf(bids_', "Buy", Added', sent) /\ SideOf(asks_', "Sell", Added', sent)
      BY <1>3, <2>2, <2>5, <2>9 DEF Book!SetBook
    <2> QED BY <1>1, <2>10 DEF BookInv, BookTypes, PriceTimePriority, Book!PriceTimePriority
  <1> QED BY <1>4, <1>5 DEF Book!Rest

LEMMA OrderArrives ==
  ASSUME BookInv, Book!add_order
  PROVE  BookInv'
  <1>1. PICK s \in {"Buy", "Sell"}, p \in Prices, q \in Quantities :
          order' = [id |-> Len(sent) + 1, side |-> s, price |-> p, qty |-> q]
    BY DEF Book!add_order
  <1>2. /\ order = Book!NoOrder /\ fill' = fill /\ fill = Book!NoFill /\ sent' = Append(sent, order')
        /\ bids_' = bids_ /\ asks_' = asks_ /\ sent \in Seq(Orders)
    BY DEF Book!add_order, BookInv, BookTypes
  <1>3. PICK n : n = Len(sent)
    OBVIOUS
  <1>4. n \in Nat /\ order' \in Orders /\ order'.id = n + 1
    BY <1>1, <1>2, <1>3, LenProperties, BookAssumption DEF Orders
  <1>5. /\ sent' \in Seq(Orders) /\ Len(sent') = n + 1 /\ sent'[n + 1] = order'
        /\ \A x \in 1..n : sent'[x] = sent[x]
    BY <1>2, <1>3, <1>4, AppendProperties
  <1>6. order' # Book!NoOrder
    <2>1. Book!NoOrder.id = 0
      BY DEF Book!NoOrder
    <2> QED BY <1>4, <2>1
  <1>7. Added = n /\ Added' = n
    BY <1>2, <1>3, <1>4, <1>5, <1>6 DEF Added, Book!NoOrder
  <1>8. SideOf(bids_', "Buy", Added', sent') /\ SideOf(asks_', "Sell", Added', sent')
    <2>1. SideOf(bids_, "Buy", n, sent) /\ SideOf(asks_, "Sell", n, sent) /\ n <= n
      BY <1>4, <1>7 DEF BookInv
    <2>2. SideOf(bids_, "Buy", n, sent') /\ SideOf(asks_, "Sell", n, sent')
      BY <1>4, <1>5, <2>1, SideStays
    <2> QED BY <1>2, <1>7, <2>2
  <1> QED BY <1>2, <1>4, <1>5, <1>6, <1>8
          DEF BookInv, BookTypes, PriceTimePriority, Book!PriceTimePriority, Book!NoOrder, Book!NoFill

LEMMA BookStep ==
  ASSUME BookInv, [Next]_vars
  PROVE  BookInv'
  <1>1. CASE UseBook
    BY <1>1, OrderArrives, FillIsRight, OrderRests DEF UseBook, Book!Next
  <1>2. CASE UNCHANGED bookVars
    BY <1>2 DEF bookVars, BookInv, BookTypes, Added, PriceTimePriority, Book!PriceTimePriority,
                Book!Resting, Book!Book, Book!NoOrder, Book!NoFill
  <1>3. UseBook \/ UNCHANGED bookVars
    BY DEF Next, vars, services, UseContainer, UseCache, UsePool, UseTable, UseBucket, UseWheel,
           RunAlgorithm, RunSearch, RunServer
  <1> QED BY <1>1, <1>2, <1>3

(* PriceTimePriority: however orders have been filled in part and levels   *)
(* emptied before, every fill is made with the order whose turn it is.     *)
THEOREM NobodyIsOvertaken == Spec => []PriceTimePriority
  <1>1. BookInv /\ [Next]_vars => BookInv'
    BY BookStep
  <1>2. BookInv => PriceTimePriority
    BY DEF BookInv
  <1> QED BY <1>1, <1>2, BookInit, PTL DEF Spec

----------------------------------------------------------------------------
(* Remainders.                                                             *)

LEMMA Division ==
  ASSUME NEW c \in Nat, c >= 1, NEW x \in Nat
  PROVE  \E a \in Nat, b \in 0..c - 1 : x = c * a + b /\ x % c = b
  <1> DEFINE a == x \div c
             b == x % c
  <1>1. a \in Nat /\ b \in 0..c - 1
    BY Z3
  <1>2. x = c * a + b
    <2>1. a \in Int /\ b \in Int /\ a = x \div c /\ b = x % c
      BY <1>1
    <2> HIDE DEF a, b
    <2> QED BY <2>1, Z3
  <1> QED BY <1>1, <1>2

LEMMA Remainder ==
  ASSUME NEW c \in Nat, c >= 1, NEW a \in Nat, NEW b \in 0..c - 1
  PROVE  (c * a + b) % c = b
  BY Z3T(60)

LEMMA RemainderOfSum ==
  ASSUME NEW c \in Nat, c >= 1, NEW x \in Nat, NEW y \in Nat
  PROVE  ((x % c) + y) % c = (x + y) % c
  <1>1. PICK a \in Nat, b \in 0..c - 1 : x = c * a + b /\ x % c = b
    BY Division
  <1>2. PICK d \in Nat, f \in 0..c - 1 : b + y = c * d + f /\ (b + y) % c = f
    <2>1. b + y \in Nat
      BY <1>1
    <2> QED BY <2>1, Division
  <1>3. PICK ca, cd, cs : ca = c * a /\ cd = c * d /\ cs = c * (a + d)
    OBVIOUS
  <1>4. ca \in Nat /\ cd \in Nat /\ cs = ca + cd /\ a + d \in Nat
    BY <1>3, Z3
  <1>5. x + y = cs + f
    BY <1>1, <1>2, <1>3, <1>4
  <1>6. (c * (a + d) + f) % c = f
    BY <1>4, Remainder
  <1> QED BY <1>1, <1>2, <1>3, <1>5, <1>6

(* Among as many numbers in a row every remainder comes up once.           *)
LEMMA OncePerRound ==
  ASSUME NEW c \in Nat, c >= 1, NEW n \in Nat, NEW r \in 0..c - 1
  PROVE  \E t \in n..n + c - 1 : t % c = r
  <1>1. PICK a \in Nat, b \in 0..c - 1 : n = c * a + b /\ n % c = b
    BY Division
  <1>2. PICK ca, cs : ca = c * a /\ cs = c * (a + 1)
    OBVIOUS
  <1>3. ca \in Nat /\ cs = ca + c /\ a + 1 \in Nat
    BY <1>2, Z3
  <1>4. (ca + r) % c = r /\ (cs + r) % c = r
    BY <1>2, <1>3, Remainder
  <1>5. CASE r >= b
    <2>1. ca + r \in n..n + c - 1
      BY <1>1, <1>2, <1>3, <1>5
    <2> QED BY <1>4, <2>1
  <1>6. CASE r < b
    <2>1. cs + r \in n..n + c - 1
      BY <1>1, <1>2, <1>3, <1>6
    <2> QED BY <1>4, <2>1
  <1> QED BY <1>5, <1>6

LEMMA OnlyOncePerRound ==
  ASSUME NEW c \in Nat, c >= 1, NEW n \in Nat, NEW x \in n..n + c - 1, NEW y \in n..n + c - 1,
         x % c = y % c
  PROVE  x = y
  <1>n. x \in Nat /\ y \in Nat /\ x < y + c /\ y < x + c
    OBVIOUS
  <1>1. PICK a \in Nat, b \in 0..c - 1 : x = c * a + b /\ x % c = b
    BY <1>n, Division
  <1>2. PICK d \in Nat, f \in 0..c - 1 : y = c * d + f /\ y % c = f
    BY <1>n, Division
  <1>3. f = b /\ x \in Nat /\ y \in Nat /\ x < y + c /\ y < x + c
    BY <1>n, <1>1, <1>2
  <1>4. CASE d >= a + 1
    <2>1. c * d >= c * (a + 1) /\ c * (a + 1) = c * a + c
      BY <1>4, Z3
    <2> QED BY <1>1, <1>2, <1>3, <2>1, Z3
  <1>5. CASE a >= d + 1
    <2>1. c * a >= c * (d + 1) /\ c * (d + 1) = c * d + c
      BY <1>5, Z3
    <2> QED BY <1>1, <1>2, <1>3, <2>1, Z3
  <1>6. CASE a = d
    BY <1>1, <1>2, <1>3, <1>6
  <1> QED BY <1>4, <1>5, <1>6

----------------------------------------------------------------------------
(* TimerWheel: sl holds the numbers of the waiting callbacks by slot, run  *)
(* those a tick has taken, c the callbacks.  Each waits in one place, and  *)
(* the next tick that takes its slot, b or one of those that follow, is a  *)
(* tick it may run at; so is n for those in run.                           *)
Callbacks == [ticks : Nat \ {0}, read : Nat, calm : BOOLEAN, pushed : Nat \cup {-1}, ran : SUBSET Nat]
Due(e) == e.read + e.ticks
OnTime(e, t) ==
  /\ t % Slots = Due(e) % Slots
  /\ e.pushed <= t /\ t <= e.pushed + Slots
  /\ e.calm /\ e.pushed = e.read => t > e.read /\ (e.ticks <= Slots => t = Due(e))
Waits(c, z) == z \in 1..Len(c) /\ c[z].ran = {} /\ c[z].pushed # -1
WaitsIn(sl, run, z) ==
  \/ \E s \in 0..Slots - 1 : \E x \in 1..Len(sl[s]) : sl[s][x] = z
  \/ \E x \in 1..Len(run) : run[x] = z

InSlots(sl, c, b) ==
  \A s \in 0..Slots - 1 : \A x \in 1..Len(sl[s]) :
    Waits(c, sl[s][x]) /\ \E t \in b..b + Slots - 1 : t % Slots = s /\ OnTime(c[sl[s][x]], t)
InRun(run, c, n) == \A x \in 1..Len(run) : Waits(c, run[x]) /\ OnTime(c[run[x]], n)
OnePlace(sl, run) ==
  /\ \A s, u \in 0..Slots - 1 : \A x \in 1..Len(sl[s]), y \in 1..Len(sl[u]) :
       sl[s][x] = sl[u][y] => s = u /\ x = y
  /\ \A x, y \in 1..Len(run) : run[x] = run[y] => x = y
  /\ \A s \in 0..Slots - 1 : \A x \in 1..Len(sl[s]), y \in 1..Len(run) : sl[s][x] # run[y]
RanOnTime(c) == \A z \in 1..Len(c) : c[z].ran = {} \/ \E t \in Nat : c[z].ran = {t} /\ OnTime(c[z], t)
Waiting(sl, run, c, n, b) ==
  /\ InSlots(sl, c, b) /\ InRun(run, c, n) /\ OnePlace(sl, run)
  /\ \A z \in 1..Len(c) : Waits(c, z) => WaitsIn(sl, run, z)
  /\ RanOnTime(c)
Wheels == [0..Slots - 1 -> Seq(Nat)]

(* Of the callbacks c only m has changed, or it is new.                    *)
OnlyChanged(c, d, m) ==
  /\ 1..Len(c) \subseteq 1..Len(d)
  /\ \A z \in 1..Len(d) : z # m => z \in 1..Len(c) /\ d[z] = c[z]

(* Callback m joins the slot it may next run from.                         *)
LEMMA JoinsSlot ==
  ASSUME NEW sl \in Wheels, NEW run \in Seq(Nat), NEW c \in Seq(Callbacks), NEW n \in Nat, NEW b \in Nat,
         Waiting(sl, run, c, n, b), NEW d \in Seq(Callbacks), NEW m \in 1..Len(d), ~Waits(c, m),
         OnlyChanged(c, d, m), Waits(d, m), NEW s \in 0..Slots - 1,
         \E t \in b..b + Slots - 1 : t % Slots = s /\ OnTime(d[m], t),
         NEW ql, ql = [sl EXCEPT ![s] = Append(sl[s], m)]
  PROVE  ql \in Wheels /\ Waiting(ql, run, d, n, b)
  <1>1. \A u \in 0..Slots - 1 : sl[u] \in Seq(Nat) /\ Len(sl[u]) \in Nat
    BY LenProperties DEF Wheels
  <1>2. PICK l, a : l = Len(sl[s]) /\ a = Append(sl[s], m)
    OBVIOUS
  <1>3. /\ a \in Seq(Nat) /\ Len(a) = l + 1 /\ l \in Nat /\ a[l + 1] = m
        /\ \A x \in 1..l : a[x] = sl[s][x]
    <2>1. m \in Nat
      OBVIOUS
    <2> QED BY <1>1, <1>2, <2>1, AppendProperties
  <1>4. ql \in Wheels /\ \A u \in 0..Slots - 1 : ql[u] = IF u = s THEN a ELSE sl[u]
    BY <1>2, <1>3 DEF Wheels
  <1>5. \A u \in 0..Slots - 1 : \A x \in 1..Len(ql[u]) :
          \/ u = s /\ x = l + 1 /\ ql[u][x] = m
          \/ x \in 1..Len(sl[u]) /\ ql[u][x] = sl[u][x]
    <2>1. SUFFICES ASSUME NEW u \in 0..Slots - 1, NEW x \in 1..Len(ql[u])
                   PROVE  \/ u = s /\ x = l + 1 /\ ql[u][x] = m
                          \/ x \in 1..Len(sl[u]) /\ ql[u][x] = sl[u][x]
      OBVIOUS
    <2>2. CASE u = s
      <3>1. ql[u] = a /\ x \in 1..l + 1
        BY <1>3, <1>4, <2>1, <2>2
      <3>2. x = l + 1 \/ x \in 1..l
        BY <1>3, <3>1
      <3> QED BY <1>2, <1>3, <2>2, <3>1, <3>2
    <2>3. CASE u # s
      BY <1>4, <2>1, <2>3
    <2> QED BY <2>2, <2>3
  <1>6. \A u \in 0..Slots - 1 : \A x \in 1..Len(sl[u]) : x \in 1..Len(ql[u]) /\ ql[u][x] = sl[u][x]
    <2>1. SUFFICES ASSUME NEW u \in 0..Slots - 1, NEW x \in 1..Len(sl[u])
                   PROVE  x \in 1..Len(ql[u]) /\ ql[u][x] = sl[u][x]
      OBVIOUS
    <2>2. CASE u = s
      <3>1. ql[u] = a /\ x \in 1..l
        BY <1>2, <1>4, <2>1, <2>2
      <3>2. a[x] = sl[s][x] /\ x \in 1..l + 1
        BY <1>3, <3>1
      <3>3. x \in 1..Len(a)
        BY <1>3, <3>2
      <3> QED BY <2>2, <3>1, <3>2, <3>3
    <2>3. CASE u # s
      BY <1>4, <2>1, <2>3
    <2> QED BY <2>2, <2>3
  <1>7. s \in 0..Slots - 1 /\ l + 1 \in 1..Len(ql[s]) /\ ql[s][l + 1] = m
    <2>1. ql[s] = a
      BY <1>4
    <2> QED BY <1>3, <2>1
  <1>8. /\ \A u \in 0..Slots - 1 : \A x \in 1..Len(sl[u]) : sl[u][x] # m
        /\ \A x \in 1..Len(run) : run[x] # m
    BY DEF Waiting, InSlots, InRun
  <1>9. \A z : Waits(c, z) => z # m /\ Waits(d, z) /\ d[z] = c[z]
    BY DEF Waits, OnlyChanged
  <1>10. InSlots(ql, d, b)
    <2>1. SUFFICES ASSUME NEW u \in 0..Slots - 1, NEW x \in 1..Len(ql[u])
                   PROVE  /\ Waits(d, ql[u][x])
                          /\ \E v \in b..b + Slots - 1 : v % Slots = u /\ OnTime(d[ql[u][x]], v)
      BY DEF InSlots
    <2>2. CASE u = s /\ x = l + 1 /\ ql[u][x] = m
      BY <2>2
    <2>3. CASE x \in 1..Len(sl[u]) /\ ql[u][x] = sl[u][x]
      <3>1. /\ Waits(c, sl[u][x])
            /\ \E v \in b..b + Slots - 1 : v % Slots = u /\ OnTime(c[sl[u][x]], v)
        BY <2>1, <2>3 DEF Waiting, InSlots
      <3> QED BY <1>9, <2>3, <3>1
    <2> QED BY <1>5, <2>1, <2>2, <2>3
  <1>11. InRun(run, d, n)
    BY <1>9 DEF Waiting, InRun
  <1>12. OnePlace(ql, run)
    <2>1. ASSUME NEW u \in 0..Slots - 1, NEW v \in 0..Slots - 1, NEW x \in 1..Len(ql[u]),
                 NEW y \in 1..Len(ql[v]), ql[u][x] = ql[v][y]
          PROVE  u = v /\ x = y
      <3>1. CASE u = s /\ x = l + 1 /\ ql[u][x] = m
        <4>1. ~(y \in 1..Len(sl[v]) /\ ql[v][y] = sl[v][y])
          BY <1>8, <2>1, <3>1
        <4>2. v = s /\ y = l + 1
          BY <1>5, <2>1, <4>1
        <4> QED BY <3>1, <4>2
      <3>2. CASE x \in 1..Len(sl[u]) /\ ql[u][x] = sl[u][x]
        <4>1. ql[v][y] # m
          BY <1>8, <2>1, <3>2
        <4>2. y \in 1..Len(sl[v]) /\ ql[v][y] = sl[v][y]
          BY <1>5, <2>1, <4>1
        <4>3. sl[u][x] = sl[v][y] => u = v /\ x = y
          BY <2>1, <3>2, <4>2 DEF Waiting, OnePlace
        <4> QED BY <2>1, <3>2, <4>2, <4>3
      <3> QED BY <1>5, <2>1, <3>1, <3>2
    <2>2. \A u \in 0..Slots - 1 : \A x \in 1..Len(ql[u]), y \in 1..Len(run) : ql[u][x] # run[y]
      <3>1. SUFFICES ASSUME NEW u \in 0..Slots - 1, NEW x \in 1..Len(ql[u]), NEW y \in 1..Len(run)
                     PROVE  ql[u][x] # run[y]
        OBVIOUS
      <3>2. run[y] # m /\ (x \in 1..Len(sl[u]) => sl[u][x] # run[y])
        BY <1>8, <3>1 DEF Waiting, OnePlace
      <3> QED BY <1>5, <3>1, <3>2
    <2>3. \A x, y \in 1..Len(run) : run[x] = run[y] => x = y
      BY DEF Waiting, OnePlace
    <2> QED BY <2>1, <2>2, <2>3 DEF OnePlace
  <1>13. ASSUME NEW z \in 1..Len(d), Waits(d, z)
         PROVE  WaitsIn(ql, run, z)
    <2>1. CASE z = m
      BY <1>7, <2>1 DEF WaitsIn
    <2>2. CASE z # m
      <3>1. Waits(c, z)
        BY <1>13, <2>2 DEF Waits, OnlyChanged
      <3>2. WaitsIn(sl, run, z)
        BY <3>1 DEF Waiting, Waits
      <3> QED BY <1>6, <3>2 DEF WaitsIn
    <2> QED BY <2>1, <2>2
  <1>14. RanOnTime(d)
    BY DEF RanOnTime, Waiting, Waits, OnlyChanged
  <1> QED BY <1>4, <1>10, <1>11, <1>12, <1>13, <1>14 DEF Waiting

(* A callback is announced whose scheduling thread waits for the mutex.    *)
LEMMA Announced ==
  ASSUME NEW sl, NEW run, NEW c \in Seq(Callbacks), NEW n, NEW b, Waiting(sl, run, c, n, b),
         NEW e \in Callbacks, e.ran = {}, e.pushed = -1
  PROVE  Waiting(sl, run, Append(c, e), n, b)
  <1>1. PICK d, l : d = Append(c, e) /\ l = Len(c)
    OBVIOUS
  <1>2. /\ l \in Nat /\ Len(d) = l + 1 /\ d[l + 1] = e /\ \A z \in 1..l : d[z] = c[z]
        /\ \A z \in 1..l + 1 : z \in 1..l \/ z = l + 1
    BY <1>1, AppendProperties, LenProperties
  <1>3. \A z \in 1..l + 1 : z \in 1..l \/ d[z] = e
    BY <1>2
  <1>4. \A z : Waits(d, z) <=> Waits(c, z)
    BY <1>1, <1>2, <1>3 DEF Waits
  <1>5. \A z : Waits(c, z) => d[z] = c[z]
    BY <1>1, <1>2 DEF Waits
  <1>6. InSlots(sl, d, b)
    BY <1>4, <1>5 DEF Waiting, InSlots
  <1>7. InRun(run, d, n)
    BY <1>4, <1>5 DEF Waiting, InRun
  <1>8. RanOnTime(d)
    BY <1>1, <1>2, <1>3 DEF Waiting, RanOnTime
  <1>9. \A z \in 1..Len(d) : Waits(d, z) => WaitsIn(sl, run, z)
    BY <1>4 DEF Waiting, Waits
  <1> QED BY <1>1, <1>6, <1>7, <1>8, <1>9 DEF Waiting

LEMMA CallbackReplaced ==
  ASSUME NEW c \in Seq(Callbacks), NEW h \in 1..Len(c), NEW f \in Callbacks,
         NEW d, d = [c EXCEPT ![h] = f]
  PROVE  d \in Seq(Callbacks) /\ Len(d) = Len(c) /\ \A z \in 1..Len(c) : d[z] = IF z = h THEN f ELSE c[z]
  BY ExceptSeq

(* The first callback of those taken runs.                                 *)
RanAt(c, h, n) == [c EXCEPT ![h].ran = @ \cup {n}]
PendingKept(c, d) ==
  \A z \in 1..Len(c) : d[z].pushed = c[z].pushed /\ (c[z].pushed = -1 => d[z] = c[z])
LEMMA HeadRuns ==
  ASSUME NEW sl, NEW run \in Seq(Nat), run # <<>>, NEW c \in Seq(Callbacks), NEW n \in Nat, NEW b,
         Waiting(sl, run, c, n, b), NEW h, h = Head(run), NEW d, d = RanAt(c, h, n)
  PROVE  d \in Seq(Callbacks) /\ Len(d) = Len(c) /\ Waiting(sl, Tail(run), d, n, b) /\ PendingKept(c, d)
  <1>1. PICK q, l : q = Tail(run) /\ l = Len(run)
    OBVIOUS
  <1>2. /\ l \in Nat \ {0} /\ h = run[1] /\ q \in Seq(Nat) /\ Len(q) = l - 1
        /\ \A x \in 1..l - 1 : q[x] = run[x + 1]
    BY <1>1, EmptySeq, HeadTailProperties
  <1>3. 1 \in 1..l /\ \A x \in 1..l - 1 : x + 1 \in 1..l /\ x + 1 # 1
    <2>1. l \in Nat \ {0}
      BY <1>2
    <2> QED BY <2>1
  <1>4. Waits(c, h) /\ OnTime(c[h], n)
    BY <1>1, <1>2, <1>3 DEF Waiting, InRun
  <1>5. PICK e, f : e = c[h] /\ f = [e EXCEPT !.ran = e.ran \cup {n}]
    OBVIOUS
  <1>6. h \in 1..Len(c) /\ e \in Callbacks /\ e.ran = {} /\ e.pushed # -1
    BY <1>4, <1>5, ElementOfSeq DEF Waits
  <1>7. /\ f \in Callbacks /\ f.ran = {n} /\ f.ticks = e.ticks /\ f.read = e.read
        /\ f.calm = e.calm /\ f.pushed = e.pushed
    BY <1>5, <1>6 DEF Callbacks
  <1>8. d = [c EXCEPT ![h] = f]
    BY <1>1, <1>5, <1>6 DEF RanAt
  <1>9. d \in Seq(Callbacks) /\ Len(d) = Len(c) /\ \A z \in 1..Len(c) : d[z] = IF z = h THEN f ELSE c[z]
    <2>1. h \in 1..Len(c) /\ f \in Callbacks
      BY <1>6, <1>7
    <2> QED BY <1>8, <2>1, CallbackReplaced
  <1>10. \A z : Waits(d, z) <=> Waits(c, z) /\ z # h
    BY <1>6, <1>7, <1>9 DEF Waits
  <1>11. \A z : Waits(d, z) => d[z] = c[z]
    BY <1>9, <1>10 DEF Waits
  <1>12. InSlots(sl, d, b)
    <2>1. \A s \in 0..Slots - 1 : \A x \in 1..Len(sl[s]) : sl[s][x] # h
      BY <1>1, <1>2, <1>3 DEF Waiting, OnePlace
    <2>2. SUFFICES ASSUME NEW s \in 0..Slots - 1, NEW x \in 1..Len(sl[s])
                   PROVE  /\ Waits(d, sl[s][x])
                          /\ \E t \in b..b + Slots - 1 : t % Slots = s /\ OnTime(d[sl[s][x]], t)
      BY DEF InSlots
    <2>3. /\ Waits(c, sl[s][x])
          /\ \E t \in b..b + Slots - 1 : t % Slots = s /\ OnTime(c[sl[s][x]], t)
      BY <2>2 DEF Waiting, InSlots
    <2> QED BY <1>10, <1>11, <2>1, <2>2, <2>3
  <1>13. InRun(q, d, n)
    <2>1. SUFFICES ASSUME NEW x \in 1..l - 1 PROVE Waits(d, q[x]) /\ OnTime(d[q[x]], n)
      BY <1>2 DEF InRun
    <2>2. Waits(c, run[x + 1]) /\ OnTime(c[run[x + 1]], n) /\ run[x + 1] # run[1]
      BY <1>1, <1>3, <2>1 DEF Waiting, InRun, OnePlace
    <2> QED BY <1>2, <1>10, <1>11, <2>1, <2>2
  <1>14. OnePlace(sl, q)
    <2>1. ASSUME NEW x \in 1..l - 1, NEW y \in 1..l - 1, q[x] = q[y]
          PROVE  x = y
      <3>1. x + 1 = y + 1
        BY <1>1, <1>2, <1>3, <2>1 DEF Waiting, OnePlace
      <3> QED BY <3>1
    <2>2. ASSUME NEW s \in 0..Slots - 1, NEW x \in 1..Len(sl[s]), NEW y \in 1..l - 1
          PROVE  sl[s][x] # q[y]
      <3>1. sl[s][x] # run[y + 1]
        BY <1>1, <1>3, <2>2 DEF Waiting, OnePlace
      <3> QED BY <1>2, <3>1
    <2> QED BY <1>2, <2>1, <2>2 DEF Waiting, OnePlace
  <1>15. ASSUME NEW z \in 1..Len(d), Waits(d, z)
         PROVE  WaitsIn(sl, q, z)
    <2>1. Waits(c, z) /\ z # h /\ WaitsIn(sl, run, z)
      BY <1>9, <1>10, <1>15 DEF Waiting
    <2>2. CASE \E x \in 1..Len(run) : run[x] = z
      <3>1. PICK x \in 1..l : run[x] = z
        BY <1>1, <2>2
      <3>2. x # 1
        BY <1>2, <2>1, <3>1
      <3>3. x - 1 \in 1..l - 1 /\ x - 1 + 1 = x
        <4>1. l \in Nat
          BY <1>2
        <4> QED BY <3>1, <3>2, <4>1
      <3>4. q[x - 1] = run[x - 1 + 1]
        BY <1>2, <3>3
      <3> QED BY <1>2, <3>1, <3>3, <3>4 DEF WaitsIn
    <2> QED BY <2>1, <2>2 DEF WaitsIn
  <1>16. RanOnTime(d)
    <2>1. SUFFICES ASSUME NEW z \in 1..Len(c)
                   PROVE  d[z].ran = {} \/ \E t \in Nat : d[z].ran = {t} /\ OnTime(d[z], t)
      BY <1>9 DEF RanOnTime
    <2>2. CASE z = h
      <3>1. OnTime(f, n)
        BY <1>4, <1>5, <1>7 DEF OnTime, Due
      <3> QED BY <1>7, <1>9, <2>1, <2>2, <3>1
    <2>3. CASE z # h
      BY <1>9, <2>1, <2>3 DEF Waiting, RanOnTime
    <2> QED BY <2>2, <2>3
  <1>17. PendingKept(c, d)
    BY <1>5, <1>6, <1>7, <1>9 DEF PendingKept
  <1>18. Waiting(sl, q, d, n, b)
    BY <1>12, <1>13, <1>14, <1>15, <1>16 DEF Waiting
  <1> QED BY <1>1, <1>9, <1>17, <1>18

LEMMA SlotsNat == Slots \in Nat /\ Slots >= 1
  BY SizesAssumption

(* A tick takes the callbacks of its slot: that is the tick they waited    *)
(* for, and the others wait for a later one.                               *)
LEMMA SlotTaken ==
  ASSUME NEW sl \in Wheels, NEW c, NEW n \in Nat, Waiting(sl, <<>>, c, n, n), NEW r, r = n % Slots,
         NEW ql, ql = [sl EXCEPT ![r] = <<>>]
  PROVE  /\ ql \in Wheels /\ sl[r] \in Seq(Nat) /\ Waiting(ql, sl[r], c, n, n + 1)
  <1>1. Slots \in Nat /\ Slots >= 1 /\ r \in 0..Slots - 1
    BY SlotsNat, Division
  <1>2. /\ ql \in Wheels /\ \A s \in 0..Slots - 1 : sl[s] \in Seq(Nat) /\ ql[s] = IF s = r THEN <<>> ELSE sl[s]
    BY <1>1 DEF Wheels
  <1>3. \A s \in 0..Slots - 1 : \A x \in 1..Len(ql[s]) : s # r /\ x \in 1..Len(sl[s]) /\ ql[s][x] = sl[s][x]
    BY <1>2
  <1>4. InSlots(ql, c, n + 1)
    <2>1. SUFFICES ASSUME NEW s \in 0..Slots - 1, NEW x \in 1..Len(ql[s])
                   PROVE  /\ Waits(c, ql[s][x])
                          /\ \E t \in n + 1..n + 1 + Slots - 1 : t % Slots = s /\ OnTime(c[ql[s][x]], t)
      BY DEF InSlots
    <2>2. s # r /\ x \in 1..Len(sl[s]) /\ ql[s][x] = sl[s][x]
      BY <1>3, <2>1
    <2>3. Waits(c, sl[s][x])
      BY <2>1, <2>2 DEF Waiting, InSlots
    <2>4. PICK t \in n..n + Slots - 1 : t % Slots = s /\ OnTime(c[sl[s][x]], t)
      BY <2>1, <2>2 DEF Waiting, InSlots
    <2>5. t \in n + 1..n + 1 + Slots - 1
      BY <1>1, <2>2, <2>4
    <2> QED BY <2>2, <2>3, <2>4, <2>5
  <1>5. InRun(sl[r], c, n)
    <2>1. SUFFICES ASSUME NEW x \in 1..Len(sl[r]) PROVE Waits(c, sl[r][x]) /\ OnTime(c[sl[r][x]], n)
      BY DEF InRun
    <2>2. Waits(c, sl[r][x])
      BY <1>1, <2>1 DEF Waiting, InSlots
    <2>3. PICK t \in n..n + Slots - 1 : t % Slots = r /\ OnTime(c[sl[r][x]], t)
      BY <1>1, <2>1 DEF Waiting, InSlots
    <2>4. t = n
      <3>1. n \in n..n + Slots - 1 /\ t % Slots = n % Slots
        BY <1>1, <2>3
      <3> QED BY <1>1, <3>1, OnlyOncePerRound
    <2> QED BY <2>2, <2>3, <2>4
  <1>6. OnePlace(ql, sl[r])
    <2>1. \A s, u \in 0..Slots - 1 : \A x \in 1..Len(sl[s]), y \in 1..Len(sl[u]) :
            sl[s][x] = sl[u][y] => s = u /\ x = y
      BY DEF Waiting, OnePlace
    <2>2. ASSUME NEW s \in 0..Slots - 1, NEW u \in 0..Slots - 1, NEW x \in 1..Len(ql[s]),
                 NEW y \in 1..Len(ql[u]), ql[s][x] = ql[u][y]
          PROVE  s = u /\ x = y
      BY <1>3, <2>1, <2>2
    <2>3. \A x, y \in 1..Len(sl[r]) : sl[r][x] = sl[r][y] => x = y
      BY <1>1, <2>1
    <2>4. ASSUME NEW s \in 0..Slots - 1, NEW x \in 1..Len(ql[s]), NEW y \in 1..Len(sl[r])
          PROVE  ql[s][x] # sl[r][y]
      BY <1>1, <1>3, <2>1, <2>4
    <2> QED BY <2>2, <2>3, <2>4 DEF OnePlace
  <1>7. ASSUME NEW z \in 1..Len(c), Waits(c, z)
        PROVE  WaitsIn(ql, sl[r], z)
    <2>1. WaitsIn(sl, <<>>, z)
      BY <1>7 DEF Waiting
    <2>2. PICK s \in 0..Slots - 1 : \E x \in 1..Len(sl[s]) : sl[s][x] = z
      BY <2>1 DEF WaitsIn
    <2>3. CASE s = r
      BY <2>2, <2>3 DEF WaitsIn
    <2>4. CASE s # r
      <3>1. ql[s] = sl[s]
        BY <1>2, <2>2, <2>4
      <3> QED BY <2>2, <3>1 DEF WaitsIn
    <2> QED BY <2>3, <2>4
  <1>8. RanOnTime(c)
    BY DEF Waiting
  <1>9. Waiting(ql, sl[r], c, n, n + 1)
    BY <1>4, <1>5, <1>6, <1>7, <1>8 DEF Waiting
  <1> QED BY <1>1, <1>2, <1>9

(* When a tick has run what it took, only the slots matter.                *)
LEMMA NothingTaken ==
  ASSUME NEW sl, NEW c, NEW n, NEW m, NEW b, Waiting(sl, <<>>, c, n, b)
  PROVE  Waiting(sl, <<>>, c, m, b)
  <1>1. InRun(<<>>, c, m)
    BY DEF InRun
  <1> QED BY <1>1 DEF Waiting

(* The next tick after n, or from it on, that takes the slot computed for  *)
(* a delay at n is the one the callback is due at, give or take rounds.    *)
LEMMA NextTurn ==
  ASSUME NEW n \in Nat, NEW b \in {n, n + 1}, NEW e \in Callbacks, e.pushed = n,
         e.calm /\ e.read = n => b = n + 1, NEW s, s = Due(e) % Slots
  PROVE  s \in 0..Slots - 1 /\ \E t \in b..b + Slots - 1 : t % Slots = s /\ OnTime(e, t)
  <1>1. /\ Slots \in Nat /\ Slots >= 1 /\ e.read \in Nat /\ e.ticks \in Nat \ {0} /\ e.calm \in BOOLEAN
        /\ b \in Nat /\ Due(e) \in Nat
    BY SizesAssumption DEF Callbacks, Due
  <1>2. s \in 0..Slots - 1
    BY <1>1, Division
  <1>3. CASE e.calm /\ e.read = n /\ e.ticks <= Slots
    <2>1. b = n + 1 /\ Due(e) = n + e.ticks
      BY <1>3 DEF Due
    <2>2. Due(e) \in b..b + Slots - 1 /\ n < Due(e) /\ n <= Due(e) /\ Due(e) <= n + Slots
      BY <1>1, <1>3, <2>1
    <2>3. OnTime(e, Due(e))
      BY <1>3, <2>2 DEF OnTime
    <2> QED BY <1>2, <2>2, <2>3
  <1>4. CASE ~(e.calm /\ e.read = n /\ e.ticks <= Slots)
    <2>1. PICK t \in b..b + Slots - 1 : t % Slots = s
      BY <1>1, <1>2, OncePerRound
    <2>2. n <= t /\ t <= n + Slots /\ (b = n + 1 => t > n)
      BY <1>1, <2>1
    <2>3. OnTime(e, t)
      BY <1>4, <2>1, <2>2 DEF OnTime
    <2> QED BY <1>2, <2>1, <2>3
  <1> QED BY <1>3, <1>4

(* The callback of the scheduling thread: its slot is the one its delay    *)
(* leads to from the tick it was read at.                                  *)
Pending ==
  /\ slot = -1 => \A z \in 1..Len(cbs) : cbs[z].pushed # -1
  /\ slot # -1 => \E z \in 1..Len(cbs) : cbs[z].pushed = -1
  /\ \A y, z \in 1..Len(cbs) : cbs[y].pushed = -1 /\ cbs[z].pushed = -1 => y = z
  /\ \A z \in 1..Len(cbs) : cbs[z].pushed = -1 =>
       /\ cbs[z].ran = {} /\ slot = Due(cbs[z]) % Slots /\ cbs[z].read <= now
       /\ cbs[z].calm /\ cbs[z].read = now => tp # "swap"
WheelTypes ==
  /\ slots_ \in Wheels /\ to_run \in Seq(Nat) /\ cbs \in Seq(Callbacks) /\ now \in Nat
  /\ current_slot_ = now % Slots /\ tp \in {"idle", "swap", "run"}
  /\ tp # "run" => to_run = <<>>
NextTick == IF tp = "swap" THEN now ELSE now + 1
WheelInv == WheelTypes /\ Pending /\ Waiting(slots_, to_run, cbs, now, NextTick)

LEMMA WheelInit == Init => WheelInv
  <1> SUFFICES ASSUME Init PROVE WheelInv
    OBVIOUS
  <1>1. /\ slots_ = [s \in 0..Slots - 1 |-> <<>>] /\ current_slot_ = 0 /\ slot = -1
        /\ tp = "idle" /\ to_run = <<>> /\ now = 0 /\ cbs = <<>>
    BY DEF Init, Wheel!Init
  <1>2. 0 % Slots = 0
    BY SlotsNat, Z3
  <1>3. slots_ \in Wheels /\ to_run \in Seq(Nat) /\ cbs \in Seq(Callbacks) /\ Len(cbs) = 0
    BY <1>1 DEF Wheels
  <1>4. WheelTypes
    BY <1>1, <1>2, <1>3 DEF WheelTypes
  <1>5. Pending
    BY <1>1, <1>3 DEF Pending
  <1>6. \A s \in 0..Slots - 1 : Len(slots_[s]) = 0
    BY <1>1
  <1>7. Waiting(slots_, to_run, cbs, now, NextTick)
    BY <1>1, <1>3, <1>6 DEF Waiting, InSlots, InRun, OnePlace, RanOnTime
  <1> QED BY <1>4, <1>5, <1>7 DEF WheelInv

(* The slot computed for a delay, as slot number and as a tick.            *)
LEMMA SlotIsDue ==
  ASSUME WheelInv, NEW d \in Delays
  PROVE  /\ Wheel!Ticks(d) \in Nat \ {0}
         /\ Wheel!SlotAfter(d) = (now + Wheel!Ticks(d)) % Slots
         /\ Wheel!SlotAfter(d) \in 0..Slots - 1
  <1>1. Wheel!Ticks(d) \in Nat \ {0}
    BY DelaysAssumption DEF Wheel!Ticks
  <1>2. PICK y : y = Wheel!Ticks(d)
    OBVIOUS
  <1>3. y \in Nat /\ now \in Nat /\ Wheel!SlotAfter(d) = ((now % Slots) + y) % Slots
    BY <1>1, <1>2 DEF Wheel!SlotAfter, WheelInv, WheelTypes
  <1>4. ((now % Slots) + y) % Slots = (now + y) % Slots
    BY <1>3, SlotsNat, RemainderOfSum
  <1>5. now + y \in Nat
    BY <1>3
  <1>6. (now + y) % Slots \in 0..Slots - 1
    BY <1>5, SlotsNat, Division
  <1> QED BY <1>1, <1>2, <1>3, <1>4, <1>6

LEMMA NewCallback ==
  ASSUME WheelInv, NEW d \in Delays, NEW p \in Nat \cup {-1}, NEW e, e = Wheel!Callback(d, p)
  PROVE  /\ e \in Callbacks /\ e.ran = {} /\ e.pushed = p /\ e.read = now
         /\ e.calm <=> tp # "swap"
         /\ Wheel!SlotAfter(d) = Due(e) % Slots
  <1>1. PICK y, a : y = Wheel!Ticks(d) /\ a = (tp # "swap")
    OBVIOUS
  <1>2. y \in Nat \ {0} /\ now \in Nat
    BY <1>1, SlotIsDue DEF WheelInv, WheelTypes
  <1>3. a \in BOOLEAN
    BY <1>1, Zenon
  <1>4. e = [ticks |-> y, read |-> now, calm |-> a, pushed |-> p, ran |-> {}]
    BY <1>1 DEF Wheel!Callback
  <1>5. e \in Callbacks
    BY <1>2, <1>3, <1>4 DEF Callbacks
  <1>6. e.calm = a
    <2>1. [ticks |-> y, read |-> now, calm |-> a, pushed |-> p, ran |-> {}].calm = a
      OBVIOUS
    <2> QED BY <1>4, <2>1, Zenon
  <1>7. e.calm <=> tp # "swap"
    BY <1>1, <1>6, Zenon
  <1>8. e.ran = {} /\ e.pushed = p /\ e.read = now /\ e.ticks = y
    BY <1>4
  <1>9. Due(e) = now + y
    BY <1>8 DEF Due
  <1>10. Wheel!SlotAfter(d) = (now + y) % Slots
    BY <1>1, SlotIsDue
  <1> QED BY <1>5, <1>7, <1>8, <1>9, <1>10

LEMMA ScheduleReads ==
  ASSUME WheelInv, Wheel!ScheduleRead
  PROVE  WheelInv'
  <1>1. PICK d \in Delays : slot' = Wheel!SlotAfter(d) /\ cbs' = Append(cbs, Wheel!Callback(d, -1))
    BY DEF Wheel!ScheduleRead
  <1>2. PICK e, l : e = Wheel!Callback(d, -1) /\ l = Len(cbs)
    OBVIOUS
  <1>3. /\ slot = -1 /\ slots_' = slots_ /\ current_slot_' = current_slot_ /\ tp' = tp
        /\ to_run' = to_run /\ now' = now
    BY DEF Wheel!ScheduleRead
  <1>4. /\ e \in Callbacks /\ e.ran = {} /\ e.pushed = -1 /\ e.read = now
        /\ e.calm <=> tp # "swap"
        /\ slot' = Due(e) % Slots
    BY <1>1, <1>2, NewCallback
  <1>5. cbs \in Seq(Callbacks) /\ now \in Nat
    BY DEF WheelInv, WheelTypes
  <1>6. /\ cbs' \in Seq(Callbacks) /\ l \in Nat /\ Len(cbs') = l + 1 /\ cbs'[l + 1] = e
        /\ \A z \in 1..l : cbs'[z] = cbs[z]
    BY <1>1, <1>2, <1>4, <1>5, AppendProperties, LenProperties
  <1>7. Waiting(slots_, to_run, cbs', now, NextTick)
    BY <1>1, <1>2, <1>4, <1>5, Announced DEF WheelInv
  <1>8. \A z \in 1..l : cbs'[z].pushed # -1
    BY <1>2, <1>3, <1>6 DEF WheelInv, Pending
  <1>9. \A z \in 1..Len(cbs') : cbs'[z].pushed = -1 <=> z = l + 1
    <2>1. \A z \in 1..l + 1 : z \in 1..l \/ z = l + 1
      BY <1>6
    <2> QED BY <1>4, <1>6, <1>8, <2>1
  <1>10. slot' # -1
    <2>1. slot' \in 0..Slots - 1
      BY <1>1, SlotIsDue
    <2> QED BY <2>1, SlotsNat
  <1>11. Pending'
    <2>1. l + 1 \in 1..Len(cbs')
      BY <1>6
    <2> QED BY <1>3, <1>4, <1>5, <1>6, <1>9, <1>10, <2>1 DEF Pending
  <1>12. WheelTypes' /\ NextTick' = NextTick
    BY <1>3, <1>6 DEF WheelInv, WheelTypes, NextTick
  <1> QED BY <1>3, <1>7, <1>11, <1>12 DEF WheelInv

(* The callback is pushed under the mutex: it may wait for a tick that had *)
(* moved on before, or miss it.                                            *)
LEMMA SchedulePushes ==
  ASSUME WheelInv, Wheel!SchedulePush
  PROVE  WheelInv'
  <1>1. /\ slot # -1 /\ slot' = -1 /\ current_slot_' = current_slot_ /\ tp' = tp
        /\ to_run' = to_run /\ now' = now
        /\ slots_' = [slots_ EXCEPT ![slot] = Append(slots_[slot], Wheel!Mine)]
        /\ cbs' = [cbs EXCEPT ![Wheel!Mine] = [cbs[Wheel!Mine] EXCEPT !.pushed = now]]
    BY DEF Wheel!SchedulePush
  <1>2. cbs \in Seq(Callbacks) /\ DOMAIN cbs = 1..Len(cbs) /\ now \in Nat /\ slots_ \in Wheels /\ to_run \in Seq(Nat)
    BY LenProperties DEF WheelInv, WheelTypes
  <1>3. PICK m : m = Wheel!Mine
    OBVIOUS
  <1>4. m \in 1..Len(cbs) /\ cbs[m].pushed = -1
    <2>1. \E z \in DOMAIN cbs : cbs[z].pushed = -1
      BY <1>1, <1>2 DEF WheelInv, Pending
    <2> QED BY <1>2, <1>3, <2>1 DEF Wheel!Mine
  <1>5. PICK e, f : e = cbs[m] /\ f = [e EXCEPT !.pushed = now]
    OBVIOUS
  <1>6. e \in Callbacks /\ f \in Callbacks /\ f.pushed = now /\ f.ran = e.ran /\ f.read = e.read
        /\ f.ticks = e.ticks /\ f.calm = e.calm
    <2>1. e \in Callbacks
      BY <1>2, <1>4, <1>5, ElementOfSeq
    <2> QED BY <1>2, <1>5, <2>1 DEF Callbacks
  <1>7. e.ran = {} /\ slot = Due(e) % Slots /\ (e.calm /\ e.read = now => tp # "swap")
    BY <1>4, <1>5 DEF WheelInv, Pending
  <1>8. cbs' = [cbs EXCEPT ![m] = f] /\ slots_' = [slots_ EXCEPT ![slot] = Append(slots_[slot], m)]
    BY <1>1, <1>3, <1>5
  <1>9. cbs' \in Seq(Callbacks) /\ Len(cbs') = Len(cbs)
        /\ \A z \in 1..Len(cbs) : cbs'[z] = IF z = m THEN f ELSE cbs[z]
    BY <1>2, <1>4, <1>6, <1>8, CallbackReplaced
  <1>10. /\ slot \in 0..Slots - 1
         /\ \E t \in NextTick..NextTick + Slots - 1 : t % Slots = slot /\ OnTime(f, t)
    <2>1. PICK b : b = NextTick
      OBVIOUS
    <2>2. b \in {now, now + 1} /\ (f.calm /\ f.read = now => b = now + 1)
      BY <1>6, <1>7, <2>1 DEF NextTick
    <2>3. slot = Due(f) % Slots
      BY <1>6, <1>7 DEF Due
    <2> QED BY <1>2, <1>6, <2>1, <2>2, <2>3, NextTurn
  <1>11. /\ OnlyChanged(cbs, cbs', m) /\ ~Waits(cbs, m) /\ Waits(cbs', m) /\ m \in 1..Len(cbs')
         /\ cbs'[m] = f
    <2>1. now # -1
      BY <1>2
    <2> QED BY <1>4, <1>6, <1>7, <1>9, <2>1 DEF OnlyChanged, Waits
  <1>12. slots_' \in Wheels /\ Waiting(slots_', to_run, cbs', now, NextTick)
    <2>1. PICK b, q : b = NextTick /\ q = slots_'
      OBVIOUS
    <2>2. Waiting(slots_, to_run, cbs, now, b) /\ b \in Nat /\ slots_ \in Wheels /\ to_run \in Seq(Nat)
      BY <1>2, <2>1 DEF WheelInv, NextTick
    <2>3. cbs' \in Seq(Callbacks) /\ m \in 1..Len(cbs')
      BY <1>9, <1>11
    <2>4. \E t \in b..b + Slots - 1 : t % Slots = slot /\ OnTime(cbs'[m], t)
      BY <1>10, <1>11, <2>1
    <2>5. q \in Wheels /\ Waiting(q, to_run, cbs', now, b)
      BY <1>2, <1>8, <1>10, <1>11, <2>1, <2>2, <2>3, <2>4, JoinsSlot
    <2> QED BY <2>1, <2>5
  <1>13. Pending'
    <2>1. ASSUME NEW z \in 1..Len(cbs') PROVE cbs'[z].pushed # -1
      <3>1. CASE z = m
        BY <1>2, <1>6, <1>9, <2>1, <3>1
      <3>2. CASE z # m
        BY <1>4, <1>9, <2>1, <3>2 DEF WheelInv, Pending
      <3> QED BY <3>1, <3>2
    <2> QED BY <1>1, <2>1 DEF Pending
  <1>14. WheelTypes' /\ NextTick' = NextTick
    BY <1>1, <1>9, <1>12 DEF WheelInv, WheelTypes, NextTick
  <1> QED BY <1>1, <1>12, <1>13, <1>14 DEF WheelInv

LEMMA TickMoves ==
  ASSUME WheelInv, Wheel!TickMove
  PROVE  WheelInv'
  <1>1. /\ tp = "idle" /\ tp' = "swap" /\ current_slot_' = (current_slot_ + 1) % Slots /\ now' = now + 1
        /\ slots_' = slots_ /\ slot' = slot /\ to_run' = to_run /\ cbs' = cbs
    BY DEF Wheel!TickMove
  <1>2. now \in Nat /\ to_run = <<>> /\ current_slot_ = now % Slots
    BY <1>1 DEF WheelInv, WheelTypes
  <1>3. current_slot_' = now' % Slots
    BY <1>1, <1>2, SlotsNat, RemainderOfSum
  <1>4. WheelTypes'
    BY <1>1, <1>2, <1>3 DEF WheelInv, WheelTypes
  <1>5. NextTick' = NextTick
    BY <1>1 DEF NextTick
  <1>6. Waiting(slots_, to_run, cbs, now', NextTick)
    BY <1>2, NothingTaken DEF WheelInv
  <1>7. Pending'
    <2>1. \A z \in 1..Len(cbs) : cbs[z].pushed = -1 => cbs[z].read <= now
      BY DEF WheelInv, Pending
    <2>2. \A z \in 1..Len(cbs) : cbs[z] \in Callbacks
      BY ElementOfSeq DEF WheelInv, WheelTypes
    <2>3. \A z \in 1..Len(cbs) : cbs[z].read \in Nat
      BY <2>2 DEF Callbacks
    <2>4. \A z \in 1..Len(cbs) : cbs[z].pushed = -1 => cbs[z].read <= now' /\ cbs[z].read # now'
      BY <1>1, <1>2, <2>1, <2>3
    <2> QED BY <1>1, <2>4 DEF WheelInv, Pending
  <1> QED BY <1>1, <1>4, <1>5, <1>6, <1>7 DEF WheelInv

LEMMA TickSwaps ==
  ASSUME WheelInv, Wheel!TickSwap
  PROVE  WheelInv'
  <1>1. /\ tp = "swap" /\ tp' = "run" /\ to_run' = slots_[current_slot_]
        /\ slots_' = [slots_ EXCEPT ![current_slot_] = <<>>]
        /\ current_slot_' = current_slot_ /\ slot' = slot /\ now' = now /\ cbs' = cbs
    BY DEF Wheel!TickSwap
  <1>2. /\ now \in Nat /\ to_run = <<>> /\ current_slot_ = now % Slots /\ slots_ \in Wheels
        /\ NextTick = now /\ NextTick' = now + 1
    BY <1>1 DEF WheelInv, WheelTypes, NextTick
  <1>3. Waiting(slots_, <<>>, cbs, now, now)
    BY <1>2 DEF WheelInv
  <1>4. slots_' \in Wheels /\ to_run' \in Seq(Nat) /\ Waiting(slots_', to_run', cbs, now, now + 1)
    BY <1>1, <1>2, <1>3, SlotTaken
  <1>5. WheelTypes'
    BY <1>1, <1>4 DEF WheelInv, WheelTypes
  <1>6. Pending'
    BY <1>1 DEF WheelInv, Pending
  <1> QED BY <1>1, <1>2, <1>4, <1>5, <1>6 DEF WheelInv

LEMMA TickRuns ==
  ASSUME WheelInv, Wheel!TickRun
  PROVE  WheelInv'
  <1>1. /\ tp = "run" /\ to_run # <<>> /\ to_run' = Tail(to_run)
        /\ current_slot_' = current_slot_ /\ slot' = slot /\ tp' = tp /\ now' = now
    BY DEF Wheel!TickRun
  <1>2. /\ now \in Nat /\ to_run \in Seq(Nat) /\ cbs \in Seq(Callbacks) /\ slots_ \in Wheels
        /\ NextTick = now + 1 /\ NextTick' = now + 1
    BY <1>1 DEF WheelInv, WheelTypes, NextTick
  <1>3. PICK c, l : c = Wheel!Ran /\ l = Len(cbs)
    OBVIOUS
  <1>4. c = RanAt(cbs, Head(to_run), now)
    BY <1>3 DEF Wheel!Ran, RanAt
  <1>5. Waiting(slots_, to_run, cbs, now, now + 1)
    BY <1>2 DEF WheelInv
  <1>6. /\ c \in Seq(Callbacks) /\ Len(c) = Len(cbs) /\ Waiting(slots_, to_run', c, now, now + 1)
        /\ \A z \in 1..Len(cbs) : c[z].pushed = cbs[z].pushed /\ (cbs[z].pushed = -1 => c[z] = cbs[z])
    <2>1. PICK b, h : b = now + 1 /\ h = Head(to_run)
      OBVIOUS
    <2>2. Waiting(slots_, to_run, cbs, now, b) /\ c = RanAt(cbs, h, now)
      BY <1>4, <1>5, <2>1
    <2>3. to_run \in Seq(Nat) /\ to_run # <<>> /\ cbs \in Seq(Callbacks) /\ now \in Nat
      BY <1>1, <1>2
    <2>4. /\ c \in Seq(Callbacks) /\ Len(c) = Len(cbs) /\ Waiting(slots_, Tail(to_run), c, now, b)
          /\ PendingKept(cbs, c)
      BY <2>1, <2>2, <2>3, HeadRuns
    <2> QED BY <1>1, <2>1, <2>4 DEF PendingKept
  <1>7. to_run' \in Seq(Nat)
    BY <1>1, <1>2, HeadTailProperties
  <1>8. CASE cbs' = Wheel!Ran /\ UNCHANGED slots_
    <2>1. cbs' = c /\ slots_' = slots_
      BY <1>3, <1>8
    <2>2. WheelTypes'
      BY <1>1, <1>2, <1>6, <1>7, <2>1 DEF WheelInv, WheelTypes
    <2>3. Pending'
      BY <1>1, <1>6, <2>1 DEF WheelInv, Pending
    <2> QED BY <1>1, <1>2, <1>6, <2>1, <2>2, <2>3 DEF WheelInv
  <1>9. ASSUME NEW d \in Delays, cbs' = Append(Wheel!Ran, Wheel!Callback(d, now)),
               slots_' = [slots_ EXCEPT ![Wheel!SlotAfter(d)] = Append(@, Len(cbs) + 1)]
        PROVE  WheelInv'
    <2>1. PICK e, s : e = Wheel!Callback(d, now) /\ s = Wheel!SlotAfter(d)
      OBVIOUS
    <2>2. /\ e \in Callbacks /\ e.ran = {} /\ e.pushed = now /\ e.read = now
          /\ s = Due(e) % Slots
      BY <1>2, <1>9, <2>1, NewCallback
    <2>3. s \in 0..Slots - 1 /\ \E t \in now + 1..now + 1 + Slots - 1 : t % Slots = s /\ OnTime(e, t)
      BY <1>2, <2>2, NextTurn
    <2>4. cbs' = Append(c, e) /\ slots_' = [slots_ EXCEPT ![s] = Append(slots_[s], l + 1)]
      BY <1>3, <1>9, <2>1
    <2>5. /\ cbs' \in Seq(Callbacks) /\ l \in Nat /\ Len(cbs') = l + 1 /\ cbs'[l + 1] = e
          /\ Len(c) = l /\ \A z \in 1..l : cbs'[z] = c[z]
      BY <1>3, <1>6, <2>2, <2>4, AppendProperties, LenProperties
    <2>6. \A z \in 1..Len(cbs') : z \in 1..l \/ z = l + 1
      BY <2>5
    <2>7. l + 1 \in 1..Len(cbs') /\ l + 1 \notin 1..l /\ 1..l \subseteq 1..Len(cbs')
      BY <2>5
    <2>8. OnlyChanged(c, cbs', l + 1) /\ ~Waits(c, l + 1)
      BY <2>5, <2>6, <2>7 DEF OnlyChanged, Waits
    <2>9. Waits(cbs', l + 1)
      <3>1. now # -1
        BY <1>2
      <3> QED BY <2>2, <2>5, <2>7, <3>1 DEF Waits
    <2>10. slots_' \in Wheels /\ Waiting(slots_', to_run', cbs', now, now + 1)
      <3>1. PICK b, q, run, m : b = now + 1 /\ q = slots_' /\ run = to_run' /\ m = l + 1
        OBVIOUS
      <3>2. Waiting(slots_, run, c, now, b) /\ b \in Nat /\ run \in Seq(Nat) /\ c \in Seq(Callbacks)
        BY <1>2, <1>6, <1>7, <3>1
      <3>3. /\ cbs' \in Seq(Callbacks) /\ m \in 1..Len(cbs') /\ ~Waits(c, m)
            /\ OnlyChanged(c, cbs', m) /\ Waits(cbs', m)
        BY <2>5, <2>7, <2>8, <2>9, <3>1
      <3>4. \E t \in b..b + Slots - 1 : t % Slots = s /\ OnTime(cbs'[m], t)
        BY <2>3, <2>5, <3>1
      <3>5. q = [slots_ EXCEPT ![s] = Append(slots_[s], m)]
        BY <2>4, <3>1
      <3>6. q \in Wheels /\ Waiting(q, run, cbs', now, b)
        BY <1>2, <2>3, <3>2, <3>3, <3>4, <3>5, JoinsSlot, ZenonT(60)
      <3> QED BY <3>1, <3>6
    <2>11. WheelTypes'
      BY <1>1, <1>7, <2>5, <2>10 DEF WheelInv, WheelTypes
    <2>12. Pending'
      <3>1. \A z \in 1..Len(cbs') : cbs'[z].pushed = -1 => z \in 1..l /\ cbs'[z] = cbs[z]
        <4>1. now # -1
          BY <1>2
        <4> QED BY <1>3, <1>6, <2>2, <2>5, <2>6, <4>1
      <3>2. \A z \in 1..l : cbs[z].pushed = -1 => z \in 1..Len(cbs') /\ cbs'[z].pushed = -1
        BY <1>3, <1>6, <2>5, <2>7
      <3> QED BY <1>1, <1>3, <3>1, <3>2 DEF WheelInv, Pending
    <2> QED BY <1>1, <1>2, <2>10, <2>11, <2>12 DEF WheelInv
  <1> QED BY <1>8, <1>9 DEF Wheel!TickRun

LEMMA TickReturns ==
  ASSUME WheelInv, Wheel!TickReturn
  PROVE  WheelInv'
  <1>1. /\ tp = "run" /\ tp' = "idle" /\ to_run = <<>> /\ slots_' = slots_ /\ cbs' = cbs
        /\ current_slot_' = current_slot_ /\ slot' = slot /\ to_run' = to_run /\ now' = now
    BY DEF Wheel!TickReturn
  <1>2. NextTick' = NextTick
    BY <1>1 DEF NextTick
  <1> QED BY <1>1, <1>2 DEF WheelInv, WheelTypes, Pending

LEMMA WheelStep ==
  ASSUME WheelInv, [Next]_vars
  PROVE  WheelInv'
  <1>1. CASE UseWheel
    BY <1>1, ScheduleReads, SchedulePushes, TickMoves, TickSwaps, TickRuns, TickReturns
       DEF UseWheel, Wheel!Next
  <1>2. CASE UNCHANGED wheelVars
    BY <1>2 DEF wheelVars, WheelInv, WheelTypes, Pending, NextTick
  <1>3. UseWheel \/ UNCHANGED wheelVars
    BY DEF Next, vars, services, UseContainer, UseCache, UsePool, UseTable, UseBook, UseBucket,
           RunAlgorithm, RunSearch, RunServer
  <1> QED BY <1>1, <1>2, <1>3

LEMMA WheelCardinality == \A S : Wheel!Cardinality(S) = Cardinality(S)
  BY DEF Wheel!Cardinality, Cardinality, IsFiniteSet, Wheel!IsFiniteSet

LEMMA TimersNow ==
  ASSUME WheelInv
  PROVE  TimersOnTime
  <1>1. /\ cbs \in Seq(Callbacks) /\ DOMAIN cbs = 1..Len(cbs) /\ now \in Nat
        /\ \A z \in 1..Len(cbs) : cbs[z] \in Callbacks
    BY LenProperties, ElementOfSeq DEF WheelInv, WheelTypes
  <1>2. SUFFICES ASSUME NEW z \in 1..Len(cbs), NEW c, c = cbs[z]
                 PROVE  /\ Cardinality(c.ran) <= 1
                        /\ c.ran = {} /\ c.pushed # -1 => now <= c.pushed + Slots
                        /\ \A t \in c.ran : OnTime(c, t)
    BY <1>1, WheelCardinality DEF TimersOnTime, Wheel!TimersOnTime, OnTime, Due
  <1>3. c \in Callbacks
    BY <1>1, <1>2
  <1>4. CASE c.ran = {}
    <2>1. Cardinality(c.ran) <= 1
      BY <1>4, FS_EmptySet
    <2>2. ASSUME c.pushed # -1 PROVE now <= c.pushed + Slots
      <3>1. Waits(cbs, z)
        BY <1>2, <1>4, <2>2 DEF Waits
      <3>2. \E t \in Nat : now <= t /\ OnTime(c, t)
        <4>1. WaitsIn(slots_, to_run, z) /\ NextTick \in Nat /\ now <= NextTick
          BY <1>1, <3>1 DEF WheelInv, Waiting, NextTick
        <4>2. CASE \E x \in 1..Len(to_run) : to_run[x] = z
          <5>1. OnTime(c, now)
            BY <1>2, <4>2 DEF WheelInv, Waiting, InRun
          <5> QED BY <1>1, <5>1
        <4>3. CASE \E s \in 0..Slots - 1 : \E x \in 1..Len(slots_[s]) : slots_[s][x] = z
          <5>1. PICK s \in 0..Slots - 1 : \E x \in 1..Len(slots_[s]) : slots_[s][x] = z
            BY <4>3
          <5>2. PICK x \in 1..Len(slots_[s]) : slots_[s][x] = z
            BY <5>1
          <5>3. PICK t \in NextTick..NextTick + Slots - 1 : OnTime(cbs[slots_[s][x]], t)
            BY <5>2 DEF WheelInv, Waiting, InSlots
          <5>4. t \in Nat /\ now <= t
            BY <1>1, <4>1, <5>3
          <5> QED BY <1>2, <5>2, <5>3, <5>4
        <4> QED BY <4>1, <4>2, <4>3 DEF WaitsIn
      <3>3. PICK t \in Nat : now <= t /\ t <= c.pushed + Slots
        BY <3>2 DEF OnTime
      <3>4. c.pushed \in Int
        BY <1>3 DEF Callbacks
      <3> QED BY <1>1, <3>3, <3>4, SlotsNat
    <2> QED BY <1>4, <2>1, <2>2
  <1>5. CASE c.ran # {}
    <2>1. PICK t \in Nat : c.ran = {t} /\ OnTime(c, t)
      BY <1>2, <1>5 DEF WheelInv, Waiting, RanOnTime
    <2>2. Cardinality(c.ran) = 1
      BY <2>1, FS_Singleton
    <2> QED BY <1>5, <2>1, <2>2
  <1> QED BY <1>4, <1>5

(* TimersOnTime: whatever a scheduling thread, a callback that schedules   *)
(* and the ticks do in between, no callback is lost, run twice or later    *)
(* than a round of the wheel, and one scheduled while no tick moves on or  *)
(* takes its slot runs when its delay is over.                             *)
THEOREM NoTimerIsLost == Spec => []TimersOnTime
  <1>1. WheelInv /\ [Next]_vars => WheelInv'
    BY WheelStep
  <1>2. WheelInv => TimersOnTime
    BY TimersNow
  <1> QED BY <1>1, <1>2, WheelInit, PTL DEF Spec

----------------------------------------------------------------------------
(* ClassicAlgorithms.                                                      *)

SearchedTypes ==
  /\ alg \in Algorithm!Searches \cup Algorithm!Sorts \cup {"twoSumHashTable"}
  /\ input \in Seq(Numbers) /\ nums \in Seq(Numbers) /\ Len(nums) = Len(input)
  /\ target \in Numbers /\ i \in Int /\ j \in Int /\ k \in Int

(* While a search goes on the target, or its place, is between the bounds, *)
(* the lower of which moves at most once: the turn that is then taken      *)
(* again and again looks at the element in front of it.                    *)
SearchBounds == nums = input /\ Algorithm!Ascending(nums) /\ i >= 0 /\ j < Len(nums)
TargetBetween ==
  alg = "BinarySearch" =>
    /\ SearchBounds
    /\ \A x \in 1..Len(nums) : nums[x] = target => x > i /\ x <= j + 1
    /\ \/ i = 0 /\ (j >= 0 \/ Len(nums) = 0)
       \/ j >= 0 /\ i = Algorithm!Middle + 1 /\ nums[i] < target
InsertionBetween ==
  alg = "BinarySearchInsertion" =>
    /\ SearchBounds
    /\ \A x \in 1..Len(nums) : (x <= i => nums[x] < target) /\ (x > j + 1 => nums[x] >= target)
    /\ i = 0 \/ i > j \/ i = Algorithm!Middle + 1
NoPairBefore ==
  alg = "twoSumHashTable" =>
    /\ i >= 0 /\ i <= Len(nums)
    /\ \A x, y \in 1..Len(nums) : x < y /\ y <= i => nums[x] + nums[y] # target

(* While a sort goes on its vector is a rearrangement of the input, the    *)
(* hole of insertionSort filled with its base, and sorted at one end.      *)
PlacesExchanged ==
  alg = "selectionSort" =>
    /\ Algorithm!Rearranged(input, nums)
    /\ i >= 0 /\ j >= 0 /\ k >= 0 /\ (k < Len(nums) \/ i >= Len(nums) - 1)
TailSorted ==
  alg = "bubbleSort" =>
    /\ Algorithm!Rearranged(input, nums)
    /\ i < Len(nums) /\ j >= 0 /\ (j <= i \/ i <= 0) /\ k \in {0, 1}
    /\ \A x, y \in 1..Len(nums) : x < y /\ y > i + 1 => nums[x] <= nums[y]
    /\ \A x, y \in 1..Len(nums) : x < y /\ y = j + 1 => nums[x] <= nums[y]
    /\ k = 0 => \A x, y \in 1..Len(nums) : x < y /\ y <= j + 1 => nums[x] <= nums[y]
Hole == j + 2
HeadSorted ==
  alg = "insertionSort" =>
    /\ i >= 1 /\ (i <= Len(nums) \/ Len(nums) = 0)
    /\ k = 0 =>
         /\ Algorithm!Rearranged(input, nums)
         /\ \A x, y \in 1..Len(nums) : x < y /\ y <= i => nums[x] <= nums[y]
    /\ k # 0 =>
         /\ k \in Numbers /\ i < Len(nums) /\ j >= -1 /\ j < i
         /\ Algorithm!Rearranged(input, [nums EXCEPT ![Hole] = k])
         /\ \A x, y \in (1..Len(nums)) \ {Hole} : x < y /\ y <= i + 1 => nums[x] <= nums[y]
         /\ \A x \in 1..Len(nums) : x > Hole /\ x <= i + 1 => nums[x] > k
Answered ==
  ~Algorithm!Goes => IF alg = "selectionSort" THEN Algorithm!Rearranged(input, nums)
                     ELSE Algorithm!Right
AlgorithmInv ==
  /\ SearchedTypes /\ Answered
  /\ Algorithm!Goes =>
       /\ TargetBetween /\ InsertionBetween /\ NoPairBefore
       /\ PlacesExchanged /\ TailSorted /\ HeadSorted

(* The numbers of a vector. *)
LEMMA VectorNumbers ==
  ASSUME NEW s \in Seq(Numbers)
  PROVE  /\ Len(s) \in Nat /\ DOMAIN s = 1..Len(s)
         /\ \A x \in 1..Len(s) : s[x] \in Numbers /\ s[x] \in Int /\ s[x] # 0
  <1>1. Len(s) \in Nat /\ DOMAIN s = 1..Len(s) /\ s \in [1..Len(s) -> Numbers]
    BY LenProperties
  <1>2. \A x \in 1..Len(s) : s[x] \in Numbers
    BY <1>1
  <1> QED BY <1>1, <1>2, NumbersAssumption, ValuesAssumption

(* What the functions return is not the mark of a call that goes on. *)
LEMMA ReturnedIsNotRunning ==
  /\ \A a \in Int : a >= -1 => <<a>> # Algorithm!Running
  /\ <<>> # Algorithm!Running /\ Algorithm!Done # Algorithm!Running
  /\ \A a, b \in Int : <<a, b>> # Algorithm!Running
  BY DEF Algorithm!Running, Algorithm!Done

(* The middle is that of 0 and j. *)
LEMMA MiddleIsHalf ==
  ASSUME i \in Int, j \in Int, j >= 0
  PROVE  Algorithm!Middle \in Nat /\ Algorithm!Middle <= j
  <1>1. i + (j - i) = j
    OBVIOUS
  <1>2. PICK h : h = j \div 2
    OBVIOUS
  <1>3. j \div 2 \in Nat /\ j \div 2 <= j
    BY Z3
  <1> QED BY <1>1, <1>3 DEF Algorithm!Middle

(* A vector is a rearrangement of itself, and stays one when two of its    *)
(* elements change places.                                                 *)
LEMMA SameArrangement ==
  ASSUME NEW s \in Seq(Numbers)
  PROVE  Algorithm!Rearranged(s, s)
  <1> DEFINE p == [x \in DOMAIN s |-> x]
  <1>1. p \in Algorithm!Bijection(DOMAIN s, DOMAIN s)
    BY DEF Algorithm!Bijection, Algorithm!Injection, Algorithm!Surjection, Algorithm!IsInjective
  <1>2. \A x \in DOMAIN s : s[x] = s[p[x]]
    OBVIOUS
  <1> QED BY <1>1, <1>2 DEF Algorithm!Rearranged

LEMMA ElementsChangePlaces ==
  ASSUME NEW s \in Seq(Numbers), NEW v \in Seq(Numbers), NEW u \in Seq(Numbers),
         Len(v) = Len(s), Len(u) = Len(s), Algorithm!Rearranged(s, v),
         NEW a \in 1..Len(s), NEW b \in 1..Len(s), u[a] = v[b], u[b] = v[a],
         \A x \in 1..Len(s) : x \notin {a, b} => u[x] = v[x]
  PROVE  Algorithm!Rearranged(s, u)
  <1>1. DOMAIN s = 1..Len(s) /\ DOMAIN v = 1..Len(s) /\ DOMAIN u = 1..Len(s)
    BY VectorNumbers
  <1> DEFINE D == 1..Len(s)
  <1>2. PICK p \in Algorithm!Bijection(D, D) : \A x \in D : v[x] = s[p[x]]
    BY <1>1 DEF Algorithm!Rearranged
  <1> DEFINE q == [x \in D |-> IF x = a THEN p[b] ELSE IF x = b THEN p[a] ELSE p[x]]
  <1>3. /\ p \in [D -> D] /\ \A x, y \in D : p[x] = p[y] => x = y
        /\ \A y \in D : \E x \in D : p[x] = y
    BY <1>2 DEF Algorithm!Bijection, Algorithm!Injection, Algorithm!Surjection, Algorithm!IsInjective
  <1> HIDE DEF D
  <1>4. a \in D /\ b \in D
    BY DEF D
  <1>5. q \in [D -> D] /\ \A x, y \in D : q[x] = q[y] => x = y
    BY <1>3, <1>4
  <1>6. \A y \in D : \E x \in D : q[x] = y
    <2> SUFFICES ASSUME NEW y \in D PROVE \E x \in D : q[x] = y
      OBVIOUS
    <2>1. PICK x \in D : p[x] = y
      BY <1>3
    <2>2. q[IF x = a THEN b ELSE IF x = b THEN a ELSE x] = y
      BY <1>4, <2>1
    <2> QED BY <1>4, <2>2
  <1>7. q \in Algorithm!Bijection(D, D)
    BY <1>5, <1>6
       DEF Algorithm!Bijection, Algorithm!Injection, Algorithm!Surjection, Algorithm!IsInjective
  <1>8. \A x \in D : u[x] = s[q[x]]
    BY <1>2, <1>4 DEF D
  <1> QED BY <1>1, <1>7, <1>8 DEF Algorithm!Rearranged, D

(* A vector in which one element is written. *)
LEMMA ElementWritten ==
  ASSUME NEW s \in Seq(Numbers), NEW a \in 1..Len(s), NEW v \in Numbers, NEW u,
         u = [s EXCEPT ![a] = v]
  PROVE  /\ u \in Seq(Numbers) /\ Len(u) = Len(s)
         /\ \A x \in 1..Len(s) : u[x] = IF x = a THEN v ELSE s[x]
  BY ExceptSeq

(* Two elements exchanged. *)
LEMMA ElementsExchanged ==
  ASSUME SearchedTypes, Algorithm!Rearranged(input, nums),
         NEW a \in Nat, NEW b \in Nat, a < Len(nums), b < Len(nums),
         nums' = Algorithm!Swapped(a, b)
  PROVE  /\ nums' \in Seq(Numbers) /\ Len(nums') = Len(nums)
         /\ Algorithm!Rearranged(input, nums')
         /\ \A x \in 1..Len(nums) :
              nums'[x] = IF x = a + 1 THEN nums[b + 1] ELSE IF x = b + 1 THEN nums[a + 1] ELSE nums[x]
  <1>1. /\ nums \in Seq(Numbers) /\ input \in Seq(Numbers) /\ Len(nums) = Len(input)
        /\ Len(nums) \in Nat /\ a + 1 \in 1..Len(nums) /\ b + 1 \in 1..Len(nums)
    BY VectorNumbers DEF SearchedTypes
  <1>2. nums[a + 1] \in Numbers /\ nums[b + 1] \in Numbers
    BY <1>1, VectorNumbers
  <1>3. PICK s : s = [nums EXCEPT ![a + 1] = nums[b + 1]]
    OBVIOUS
  <1>4. /\ s \in Seq(Numbers) /\ Len(s) = Len(nums)
        /\ \A x \in 1..Len(nums) : s[x] = IF x = a + 1 THEN nums[b + 1] ELSE nums[x]
    BY <1>1, <1>2, <1>3, ElementWritten
  <1>5. nums' = [s EXCEPT ![b + 1] = nums[a + 1]]
    BY <1>3 DEF Algorithm!Swapped, Algorithm!At
  <1>6. /\ nums' \in Seq(Numbers) /\ Len(nums') = Len(nums)
        /\ \A x \in 1..Len(nums) : nums'[x] = IF x = b + 1 THEN nums[a + 1] ELSE s[x]
    <2>1. b + 1 \in 1..Len(s)
      BY <1>1, <1>4
    <2> QED BY <1>2, <1>4, <1>5, <2>1, ElementWritten
  <1>7. \A x \in 1..Len(nums) :
          nums'[x] = IF x = a + 1 THEN nums[b + 1] ELSE IF x = b + 1 THEN nums[a + 1] ELSE nums[x]
    BY <1>1, <1>4, <1>6
  <1>8. Algorithm!Rearranged(input, nums')
    <2>1. PICK c, d, u : c = a + 1 /\ d = b + 1 /\ u = nums'
      OBVIOUS
    <2>2. /\ u \in Seq(Numbers) /\ Len(u) = Len(input) /\ c \in 1..Len(input) /\ d \in 1..Len(input)
          /\ u[c] = nums[d] /\ u[d] = nums[c]
          /\ \A x \in 1..Len(input) : x \notin {c, d} => u[x] = nums[x]
      BY <1>1, <1>6, <1>7, <2>1
    <2>3. Algorithm!Rearranged(input, u)
      BY <1>1, <2>2, ElementsChangePlaces
    <2> QED BY <2>1, <2>3
  <1> QED BY <1>6, <1>7, <1>8

(* A call starts with its input. *)
LEMMA AlgorithmInit == Init => AlgorithmInv
  <1> SUFFICES ASSUME Algorithm!Init PROVE AlgorithmInv
    BY DEF Init
  <1>1. PICK l \in 0..MaxLength : input \in [1..l -> Numbers]
    BY DEF Algorithm!Init
  <1>2. l \in Nat /\ input \in Seq(Numbers) /\ Len(input) = l /\ nums = input
    <2>1. l \in Nat
      BY <1>1, SizesAssumption
    <2> QED BY <1>1, <2>1, SequenceOf DEF Algorithm!Init
  <1>3. /\ target \in Numbers /\ result = Algorithm!Running /\ Algorithm!Goes /\ k = 0
        /\ Algorithm!n = Len(input)
        /\ alg \in Algorithm!Searches \cup Algorithm!Sorts \cup {"twoSumHashTable"}
        /\ alg \in Algorithm!Searches => Algorithm!Ascending(input)
        /\ i = IF alg = "insertionSort" THEN 1 ELSE IF alg = "bubbleSort" THEN Len(input) - 1 ELSE 0
        /\ j = IF alg \in Algorithm!Searches THEN Len(input) - 1
               ELSE IF alg = "selectionSort" THEN 1 ELSE 0
    BY <1>2 DEF Algorithm!Init, Algorithm!Goes, Algorithm!Searches, Algorithm!Sorts, Algorithm!n
  <1>4. Algorithm!Rearranged(input, nums)
    BY <1>2, SameArrangement
  <1>5. SearchedTypes
    BY <1>2, <1>3 DEF SearchedTypes
  <1>6. TargetBetween /\ InsertionBetween
    BY <1>2, <1>3 DEF TargetBetween, InsertionBetween, SearchBounds, Algorithm!Searches
  <1>7. NoPairBefore
    BY <1>2, <1>3 DEF NoPairBefore, Algorithm!Searches
  <1>8. PlacesExchanged /\ TailSorted
    BY <1>2, <1>3, <1>4 DEF PlacesExchanged, TailSorted, Algorithm!Searches
  <1>9. HeadSorted
    BY <1>2, <1>3, <1>4 DEF HeadSorted, Algorithm!Searches
  <1> QED BY <1>3, <1>5, <1>6, <1>7, <1>8, <1>9 DEF AlgorithmInv, Answered

(* BinarySearch: the upper bound is halved while the lower one is 0; once  *)
(* the lower one has moved, the middle stays in front of it.               *)
LEMMA BinarySearchStep ==
  ASSUME AlgorithmInv, Algorithm!BinarySearch
  PROVE  AlgorithmInv'
  <1>1. /\ alg = "BinarySearch" /\ Algorithm!Goes /\ nums' = nums /\ k' = k
        /\ alg' = alg /\ input' = input /\ target' = target
    BY DEF Algorithm!BinarySearch, Algorithm!Fixed
  <1>2. SearchedTypes /\ TargetBetween
    BY <1>1 DEF AlgorithmInv
  <1>3. /\ Len(nums) \in Nat /\ DOMAIN nums = 1..Len(nums) /\ target \in Int
        /\ \A x \in 1..Len(nums) : nums[x] \in Int
        /\ i \in Int /\ j \in Int /\ i >= 0 /\ j < Len(nums) /\ nums = input
        /\ \A x, y \in 1..Len(nums) : x < y => nums[x] <= nums[y]
        /\ \A x \in 1..Len(nums) : nums[x] = target => x > i /\ x <= j + 1
        /\ \/ i = 0 /\ (j >= 0 \/ Len(nums) = 0)
           \/ j >= 0 /\ i = Algorithm!Middle + 1 /\ nums[i] < target
    <2>1. Len(nums) \in Nat /\ DOMAIN nums = 1..Len(nums) /\ \A x \in 1..Len(nums) : nums[x] \in Int
      BY <1>2, VectorNumbers DEF SearchedTypes
    <2>2. \A x, y \in 1..Len(nums) : x < y => nums[x] <= nums[y]
      BY <1>1, <1>2, <2>1 DEF TargetBetween, SearchBounds, Algorithm!Ascending
    <2> QED BY <1>1, <1>2, <2>1, <2>2, NumbersAssumption DEF SearchedTypes, TargetBetween, SearchBounds
  <1>4. CASE i > j /\ result' = <<-1>> /\ i' = i /\ j' = j
    <2>1. \A x \in 1..Len(nums) : nums[x] # target
      BY <1>3, <1>4
    <2>2. target \notin Algorithm!ToSet(input)
      BY <1>3, <2>1 DEF Algorithm!ToSet
    <2>3. Answered'
      BY <1>1, <1>4, <2>2 DEF Answered, Algorithm!Right
    <2>4. ~Algorithm!Goes'
      BY <1>4, ReturnedIsNotRunning DEF Algorithm!Goes
    <2> QED BY <1>1, <1>2, <1>4, <2>3, <2>4 DEF AlgorithmInv, SearchedTypes
  <1>5. CASE i <= j
    <2>0. PICK m : m = Algorithm!Middle
      OBVIOUS
    <2>1. m \in Nat /\ m <= j /\ m + 1 \in 1..Len(nums) /\ nums[m + 1] \in Int
      BY <1>3, <1>5, <2>0, MiddleIsHalf
    <2>2. CASE nums[m + 1] < target /\ i' = m + 1 /\ j' = j /\ result' = result
      <3>1. Algorithm!Middle' = m
        <4>1. Algorithm!Middle = j \div 2 /\ Algorithm!Middle' = j' \div 2
          <5>1. i + (j - i) = j /\ i' + (j' - i') = j'
            BY <1>3, <2>1, <2>2
          <5> QED BY <5>1 DEF Algorithm!Middle
        <4> QED BY <2>0, <2>2, <4>1
      <3>2. \A x \in 1..Len(nums) : nums[x] = target => x > m + 1
        BY <1>3, <2>1, <2>2
      <3>3. TargetBetween'
        <4>1. SearchBounds'
          BY <1>1, <1>2, <1>3, <2>1, <2>2 DEF TargetBetween, SearchBounds
        <4> QED BY <1>1, <1>3, <1>5, <2>1, <2>2, <3>1, <3>2, <4>1 DEF TargetBetween
      <3>4. SearchedTypes' /\ Algorithm!Goes'
        BY <1>1, <1>2, <1>3, <2>1, <2>2 DEF SearchedTypes, Algorithm!Goes
      <3> QED BY <1>1, <3>3, <3>4 DEF AlgorithmInv, Answered, InsertionBetween, NoPairBefore,
                                     PlacesExchanged, TailSorted, HeadSorted
    <2>3. CASE nums[m + 1] > target /\ j' = m - i /\ i' = i /\ result' = result
      <3>1. i = 0
        BY <1>3, <2>0, <2>1, <2>3
      <3>2. j' = m /\ j' \in Int
        BY <2>1, <2>3, <3>1
      <3>3. \A x \in 1..Len(nums) : nums[x] = target => x <= m + 1
        BY <1>3, <2>1, <2>3
      <3>4. TargetBetween'
        <4>1. SearchBounds'
          BY <1>1, <1>2, <1>3, <2>1, <2>3, <3>2 DEF TargetBetween, SearchBounds
        <4> QED BY <1>1, <1>3, <2>1, <2>3, <3>1, <3>2, <3>3, <4>1 DEF TargetBetween
      <3>5. SearchedTypes' /\ Algorithm!Goes'
        BY <1>1, <1>2, <1>3, <2>3, <3>2 DEF SearchedTypes, Algorithm!Goes
      <3> QED BY <1>1, <3>4, <3>5 DEF AlgorithmInv, Answered, InsertionBetween, NoPairBefore,
                                     PlacesExchanged, TailSorted, HeadSorted
    <2>4. CASE nums[m + 1] = target /\ result' = <<m>> /\ i' = i /\ j' = j
      <3>1. target \in Algorithm!ToSet(input)
        BY <1>3, <2>1, <2>4 DEF Algorithm!ToSet
      <3>2. result'[1] = m /\ result'[1] >= 0
        BY <2>1, <2>4
      <3>3. Answered'
        BY <1>1, <2>4, <3>1, <3>2 DEF Answered, Algorithm!Right, Algorithm!At
      <3>4. ~Algorithm!Goes'
        BY <2>1, <2>4, ReturnedIsNotRunning DEF Algorithm!Goes
      <3> QED BY <1>1, <1>2, <2>4, <3>3, <3>4 DEF AlgorithmInv, SearchedTypes
    <2> QED BY <1>5, <1>3, <2>0, <2>2, <2>3, <2>4
            DEF Algorithm!BinarySearch, Algorithm!At, Algorithm!Returns
  <1> QED BY <1>3, <1>4, <1>5 DEF Algorithm!BinarySearch, Algorithm!Returns

(* BinarySearchInsertion: what is below i is smaller than the target, and  *)
(* what is above j is not.                                                 *)
LEMMA InsertionStep ==
  ASSUME AlgorithmInv, Algorithm!BinarySearchInsertion
  PROVE  AlgorithmInv'
  <1>1. /\ alg = "BinarySearchInsertion" /\ Algorithm!Goes /\ nums' = nums /\ k' = k
        /\ alg' = alg /\ input' = input /\ target' = target
    BY DEF Algorithm!BinarySearchInsertion, Algorithm!Fixed
  <1>2. SearchedTypes /\ InsertionBetween
    BY <1>1 DEF AlgorithmInv
  <1>3. /\ Len(nums) \in Nat /\ DOMAIN nums = 1..Len(nums) /\ target \in Int
        /\ \A x \in 1..Len(nums) : nums[x] \in Int
        /\ i \in Int /\ j \in Int /\ i >= 0 /\ j < Len(nums) /\ nums = input
        /\ \A x, y \in 1..Len(nums) : x < y => nums[x] <= nums[y]
        /\ \A x \in 1..Len(nums) : (x <= i => nums[x] < target) /\ (x > j + 1 => nums[x] >= target)
        /\ i = 0 \/ i > j \/ i = Algorithm!Middle + 1
    <2>1. Len(nums) \in Nat /\ DOMAIN nums = 1..Len(nums) /\ \A x \in 1..Len(nums) : nums[x] \in Int
      BY <1>2, VectorNumbers DEF SearchedTypes
    <2>2. \A x, y \in 1..Len(nums) : x < y => nums[x] <= nums[y]
      BY <1>1, <1>2, <2>1 DEF InsertionBetween, SearchBounds, Algorithm!Ascending
    <2> QED BY <1>1, <1>2, <2>1, <2>2, NumbersAssumption
            DEF SearchedTypes, InsertionBetween, SearchBounds
  <1>4. CASE i > j /\ result' = <<i>> /\ i' = i /\ j' = j
    <2>1. \A x \in 1..Len(nums) : nums[x] < target <=> x <= i
      BY <1>3, <1>4
    <2>2. result'[1] = i
      BY <1>4
    <2>3. Answered'
      BY <1>1, <1>3, <2>1, <2>2 DEF Answered, Algorithm!Right
    <2>4. ~Algorithm!Goes'
      BY <1>3, <1>4, ReturnedIsNotRunning DEF Algorithm!Goes
    <2> QED BY <1>1, <1>2, <1>4, <2>3, <2>4 DEF AlgorithmInv, SearchedTypes
  <1>5. CASE i <= j
    <2>0. PICK m : m = Algorithm!Middle
      OBVIOUS
    <2>1. m \in Nat /\ m <= j /\ m + 1 \in 1..Len(nums) /\ nums[m + 1] \in Int
      BY <1>3, <1>5, <2>0, MiddleIsHalf
    <2>2. /\ i' \in Int /\ j' \in Int /\ result' = result /\ i' >= 0 /\ j' < Len(nums)
          /\ \A x \in 1..Len(nums) : (x <= i' => nums[x] < target) /\ (x > j' + 1 => nums[x] >= target)
          /\ i' = 0 \/ i' > j' \/ i' = Algorithm!Middle' + 1
      <3>1. CASE nums[m + 1] < target /\ i' = m + 1 /\ j' = j /\ result' = result
        <4>1. i + (j - i) = j /\ i' + (j' - i') = j
          BY <1>3, <2>1, <3>1
        <4>2. Algorithm!Middle' = m
          BY <2>0, <4>1 DEF Algorithm!Middle
        <4> QED BY <1>3, <2>1, <3>1, <4>2
      <3>2. CASE nums[m + 1] >= target /\ j' = m - 1 /\ i' = i /\ result' = result
        <4>1. i = 0 \/ i > m - 1
          BY <1>3, <1>5, <2>0, <2>1
        <4> QED BY <1>3, <2>1, <3>2, <4>1
      <3> QED BY <1>3, <1>5, <2>0, <3>1, <3>2 DEF Algorithm!BinarySearchInsertion, Algorithm!At
    <2>3. InsertionBetween'
      <3>1. SearchBounds'
        BY <1>1, <1>2, <2>2 DEF InsertionBetween, SearchBounds
      <3> QED BY <1>1, <2>2, <3>1 DEF InsertionBetween
    <2>4. SearchedTypes' /\ Algorithm!Goes'
      BY <1>1, <1>2, <2>2 DEF SearchedTypes, Algorithm!Goes
    <2> QED BY <1>1, <2>3, <2>4 DEF AlgorithmInv, Answered, TargetBetween, NoPairBefore,
                                   PlacesExchanged, TailSorted, HeadSorted
  <1> QED BY <1>3, <1>4, <1>5 DEF Algorithm!BinarySearchInsertion, Algorithm!Returns

(* twoSumHashTable: no two of the elements looked at make the target.      *)
LEMMA TwoSumStep ==
  ASSUME AlgorithmInv, Algorithm!twoSumHashTable
  PROVE  AlgorithmInv'
  <1> DEFINE earlier == {x \in 0..i - 1 : nums[x + 1] = target - nums[i + 1]}
  <1>1. /\ alg = "twoSumHashTable" /\ Algorithm!Goes /\ nums' = nums /\ j' = j /\ k' = k
        /\ alg' = alg /\ input' = input /\ target' = target
    BY DEF Algorithm!twoSumHashTable, Algorithm!Fixed
  <1>2. SearchedTypes /\ NoPairBefore
    BY <1>1 DEF AlgorithmInv
  <1>3. /\ Len(nums) \in Nat /\ DOMAIN nums = 1..Len(nums) /\ target \in Int
        /\ \A x \in 1..Len(nums) : nums[x] \in Int
        /\ i \in Int /\ i >= 0 /\ i <= Len(nums)
        /\ \A x, y \in 1..Len(nums) : x < y /\ y <= i => nums[x] + nums[y] # target
    <2>1. Len(nums) \in Nat /\ DOMAIN nums = 1..Len(nums) /\ \A x \in 1..Len(nums) : nums[x] \in Int
      BY <1>2, VectorNumbers DEF SearchedTypes
    <2> QED BY <1>1, <1>2, <2>1, NumbersAssumption DEF SearchedTypes, NoPairBefore
  <1>4. \/ i = Len(nums) /\ result' = <<>> /\ i' = i
        \/ /\ i < Len(nums) /\ earlier # {} /\ i' = i
           /\ result' = <<CHOOSE x \in earlier : \A y \in earlier : x <= y, i>>
        \/ i < Len(nums) /\ earlier = {} /\ i' = i + 1 /\ result' = result
    BY DEF Algorithm!twoSumHashTable, Algorithm!At, Algorithm!n, Algorithm!Returns
  <1>5. CASE i = Len(nums) /\ result' = <<>> /\ i' = i
    <2>1. \A x, y \in 1..Len(nums) : x # y => nums[x] + nums[y] # target
      BY <1>3, <1>5
    <2>2. Answered'
      BY <1>1, <1>3, <1>5, <2>1 DEF Answered, Algorithm!Right
    <2>3. ~Algorithm!Goes'
      BY <1>5, ReturnedIsNotRunning DEF Algorithm!Goes
    <2> QED BY <1>1, <1>2, <1>5, <2>2, <2>3 DEF AlgorithmInv, SearchedTypes
  <1>6. CASE /\ i < Len(nums) /\ earlier # {} /\ i' = i
             /\ result' = <<CHOOSE x \in earlier : \A y \in earlier : x <= y, i>>
    <2>1. PICK a : a = CHOOSE x \in earlier : \A y \in earlier : x <= y
      OBVIOUS
    <2>2. \E x \in earlier : \A y \in earlier : x <= y
      <3>1. earlier \subseteq Nat
        BY <1>3
      <3> QED BY <1>6, <3>1, LeastNumber
    <2>3. a \in earlier
      <3> HIDE DEF earlier
      <3> QED BY <2>1, <2>2
    <2>4. a \in Int /\ 0 <= a /\ a < i /\ nums[a + 1] + nums[i + 1] = target
      <3>1. a \in 0..i - 1 /\ nums[a + 1] = target - nums[i + 1]
        BY <2>3
      <3> QED BY <1>3, <1>6, <3>1
    <2>5. result'[1] = a /\ result'[2] = i /\ result' # <<>> /\ result' = <<a, i>>
      BY <1>6, <2>1
    <2>6. Answered'
      BY <1>1, <2>4, <2>5 DEF Answered, Algorithm!Right, Algorithm!At
    <2>7. ~Algorithm!Goes'
      BY <1>3, <2>4, <2>5, ReturnedIsNotRunning DEF Algorithm!Goes
    <2> QED BY <1>1, <1>2, <1>6, <2>6, <2>7 DEF AlgorithmInv, SearchedTypes
  <1>7. CASE i < Len(nums) /\ earlier = {} /\ i' = i + 1 /\ result' = result
    <2>1. ASSUME NEW x \in 1..Len(nums), NEW y \in 1..Len(nums), x < y, y <= i + 1
          PROVE  nums[x] + nums[y] # target
      <3>1. CASE y <= i
        BY <1>3, <2>1, <3>1
      <3>2. CASE y = i + 1
        <4>1. x - 1 \in 0..i - 1 /\ (x - 1) + 1 = x
          BY <1>3, <2>1, <3>2
        <4>2. nums[x] # target - nums[i + 1]
          BY <1>7, <4>1
        <4> QED BY <1>3, <3>2, <4>2
      <3> QED BY <1>3, <2>1, <3>1, <3>2
    <2>2. NoPairBefore'
      BY <1>1, <1>3, <1>7, <2>1 DEF NoPairBefore
    <2>3. SearchedTypes' /\ Algorithm!Goes'
      BY <1>1, <1>2, <1>3, <1>7 DEF SearchedTypes, Algorithm!Goes
    <2> QED BY <1>1, <2>2, <2>3 DEF AlgorithmInv, Answered, TargetBetween, InsertionBetween,
                                   PlacesExchanged, TailSorted, HeadSorted
  <1> QED BY <1>4, <1>5, <1>6, <1>7

(* selectionSort: two elements at a time change places.                    *)
LEMMA SelectionStep ==
  ASSUME AlgorithmInv, Algorithm!selectionSort
  PROVE  AlgorithmInv'
  <1>1. /\ alg = "selectionSort" /\ Algorithm!Goes
        /\ alg' = alg /\ input' = input /\ target' = target
    BY DEF Algorithm!selectionSort, Algorithm!Fixed
  <1>2. SearchedTypes /\ PlacesExchanged /\ Len(nums) \in Nat
    BY <1>1, VectorNumbers DEF AlgorithmInv, SearchedTypes
  <1>3. /\ i \in Int /\ j \in Int /\ k \in Int /\ i >= 0 /\ j >= 0 /\ k >= 0
        /\ (k < Len(nums) \/ i >= Len(nums) - 1)
        /\ Algorithm!Rearranged(input, nums)
    BY <1>1, <1>2 DEF SearchedTypes, PlacesExchanged
  <1>4. CASE i >= Len(nums) - 1 /\ result' = Algorithm!Done /\ UNCHANGED <<nums, i, j, k>>
    <2>1. Answered' /\ ~Algorithm!Goes'
      BY <1>1, <1>3, <1>4, ReturnedIsNotRunning DEF Answered, Algorithm!Goes
    <2> QED BY <1>1, <1>2, <1>4, <2>1 DEF AlgorithmInv, SearchedTypes
  <1>5. CASE /\ i < Len(nums) - 1 /\ j < Len(nums)
             /\ k' \in {j, k} /\ nums' = Algorithm!Swapped(i, k') /\ j' = j + 1
             /\ UNCHANGED <<i, result>>
    <2>1. PICK a, b : a = i /\ b = k'
      OBVIOUS
    <2>2. a \in Nat /\ b \in Nat /\ a < Len(nums) /\ b < Len(nums) /\ nums' = Algorithm!Swapped(a, b)
      BY <1>2, <1>3, <1>5, <2>1
    <2>3. nums' \in Seq(Numbers) /\ Len(nums') = Len(nums) /\ Algorithm!Rearranged(input, nums')
      BY <1>2, <1>3, <2>2, ElementsExchanged
    <2>4. PlacesExchanged'
      BY <1>1, <1>2, <1>3, <1>5, <2>1, <2>2, <2>3 DEF PlacesExchanged
    <2>5. SearchedTypes' /\ Algorithm!Goes'
      BY <1>1, <1>2, <1>3, <1>5, <2>1, <2>2, <2>3 DEF SearchedTypes, Algorithm!Goes
    <2> QED BY <1>1, <2>4, <2>5 DEF AlgorithmInv, Answered, TargetBetween, InsertionBetween,
                                   NoPairBefore, TailSorted, HeadSorted
  <1>6. CASE /\ i < Len(nums) - 1 /\ j = Len(nums) /\ i' = i + 1 /\ k' = i + 1 /\ j' = i + 2
             /\ UNCHANGED <<nums, result>>
    <2>1. PlacesExchanged'
      BY <1>1, <1>2, <1>3, <1>6 DEF PlacesExchanged
    <2>2. SearchedTypes' /\ Algorithm!Goes'
      BY <1>1, <1>2, <1>3, <1>6 DEF SearchedTypes, Algorithm!Goes
    <2> QED BY <1>1, <2>1, <2>2 DEF AlgorithmInv, Answered, TargetBetween, InsertionBetween,
                                   NoPairBefore, TailSorted, HeadSorted
  <1> QED BY <1>4, <1>5, <1>6 DEF Algorithm!selectionSort, Algorithm!n, Algorithm!Returns

(* bubbleSort: behind i the largest elements are in order, at j is the     *)
(* largest of those passed, and as long as nothing was exchanged they are  *)
(* in order, too.                                                          *)
LEMMA BubbleStep ==
  ASSUME AlgorithmInv, Algorithm!bubbleSort
  PROVE  AlgorithmInv'
  <1>1. /\ alg = "bubbleSort" /\ Algorithm!Goes
        /\ alg' = alg /\ input' = input /\ target' = target
    BY DEF Algorithm!bubbleSort, Algorithm!Fixed
  <1>2. SearchedTypes /\ TailSorted
    BY <1>1 DEF AlgorithmInv
  <1>3. /\ Len(nums) \in Nat /\ DOMAIN nums = 1..Len(nums)
        /\ \A x \in 1..Len(nums) : nums[x] \in Int
        /\ i \in Int /\ j \in Int /\ i < Len(nums) /\ j >= 0 /\ (j <= i \/ i <= 0) /\ k \in {0, 1}
    <2>1. Len(nums) \in Nat /\ DOMAIN nums = 1..Len(nums) /\ \A x \in 1..Len(nums) : nums[x] \in Int
      BY <1>2, VectorNumbers DEF SearchedTypes
    <2> QED BY <1>1, <1>2, <2>1 DEF SearchedTypes, TailSorted
  <1>4. /\ Algorithm!Rearranged(input, nums)
        /\ \A x, y \in 1..Len(nums) : x < y /\ y > i + 1 => nums[x] <= nums[y]
        /\ \A x, y \in 1..Len(nums) : x < y /\ y = j + 1 => nums[x] <= nums[y]
        /\ k = 0 => \A x, y \in 1..Len(nums) : x < y /\ y <= j + 1 => nums[x] <= nums[y]
    BY <1>1, <1>2 DEF TailSorted
  <1>5. CASE /\ i <= 0 \/ (j = i /\ k = 0)
             /\ result' = Algorithm!Done /\ UNCHANGED <<nums, i, j, k>>
    <2>1. \A x, y \in 1..Len(nums) : x < y => nums[x] <= nums[y]
      <3>1. CASE i <= 0
        BY <1>3, <1>4, <3>1
      <3>2. CASE j = i /\ k = 0
        BY <1>3, <1>4, <3>2
      <3> QED BY <1>5, <3>1, <3>2
    <2>2. Algorithm!Ascending(nums')
      BY <1>3, <1>5, <2>1 DEF Algorithm!Ascending
    <2>3. Answered' /\ ~Algorithm!Goes'
      BY <1>1, <1>4, <1>5, <2>2, ReturnedIsNotRunning DEF Answered, Algorithm!Goes, Algorithm!Right
    <2> QED BY <1>1, <1>2, <1>5, <2>3 DEF AlgorithmInv, SearchedTypes
  <1>6. CASE i > 0 /\ j < i /\ j' = j + 1 /\ UNCHANGED <<i, result>>
    <2>1. nums[j + 1] \in Int /\ nums[j + 2] \in Int /\ j + 1 \in 1..Len(nums) /\ j + 2 \in 1..Len(nums)
      BY <1>3, <1>6
    <2>2. CASE nums[j + 1] > nums[j + 2] /\ nums' = Algorithm!Swapped(j, j + 1) /\ k' = 1
      <3>1. PICK a, b : a = j /\ b = j + 1
        OBVIOUS
      <3>2. a \in Nat /\ b \in Nat /\ a < Len(nums) /\ b < Len(nums) /\ nums' = Algorithm!Swapped(a, b)
        BY <1>3, <1>6, <2>2, <3>1
      <3>3. /\ nums' \in Seq(Numbers) /\ Len(nums') = Len(nums) /\ Algorithm!Rearranged(input, nums')
            /\ \A x \in 1..Len(nums) :
                 nums'[x] = IF x = a + 1 THEN nums[b + 1] ELSE IF x = b + 1 THEN nums[a + 1] ELSE nums[x]
        BY <1>2, <1>4, <3>2, ElementsExchanged
      <3>4. \A x \in 1..Len(nums) :
              nums'[x] = IF x = j + 1 THEN nums[j + 2] ELSE IF x = j + 2 THEN nums[j + 1] ELSE nums[x]
        <4>1. a + 1 = j + 1 /\ b + 1 = j + 2
          BY <1>3, <3>1
        <4> QED BY <3>3, <4>1
      <3>5. \A x, y \in 1..Len(nums) : x < y /\ y > i + 1 => nums'[x] <= nums'[y]
        BY <1>3, <1>4, <1>6, <2>1, <3>4
      <3>6. \A x, y \in 1..Len(nums) : x < y /\ y = j + 2 => nums'[x] <= nums'[y]
        BY <1>3, <1>4, <1>6, <2>1, <2>2, <3>4
      <3>7. TailSorted'
        <4>1. j' + 1 = j + 2 /\ i' = i
          BY <1>3, <1>6
        <4> QED BY <1>1, <1>3, <1>6, <2>2, <3>3, <3>5, <3>6, <4>1 DEF TailSorted
      <3>8. SearchedTypes' /\ Algorithm!Goes'
        BY <1>1, <1>2, <1>3, <1>6, <2>2, <3>3 DEF SearchedTypes, Algorithm!Goes
      <3> QED BY <1>1, <3>7, <3>8 DEF AlgorithmInv, Answered, TargetBetween, InsertionBetween,
                                     NoPairBefore, PlacesExchanged, HeadSorted
    <2>3. CASE nums[j + 1] <= nums[j + 2] /\ UNCHANGED <<nums, k>>
      <3>1. \A x, y \in 1..Len(nums) : x < y /\ y = j + 2 => nums[x] <= nums[y]
        BY <1>3, <1>4, <1>6, <2>1, <2>3
      <3>2. k = 0 => \A x, y \in 1..Len(nums) : x < y /\ y <= j + 2 => nums[x] <= nums[y]
        BY <1>3, <1>4, <1>6, <2>1, <2>3, <3>1
      <3>3. TailSorted'
        <4>1. j' + 1 = j + 2 /\ i' = i /\ nums' = nums /\ k' = k
          BY <1>3, <1>6, <2>3
        <4> QED BY <1>1, <1>3, <1>4, <1>6, <3>1, <3>2, <4>1 DEF TailSorted
      <3>4. SearchedTypes' /\ Algorithm!Goes'
        BY <1>1, <1>2, <1>3, <1>6, <2>3 DEF SearchedTypes, Algorithm!Goes
      <3> QED BY <1>1, <3>3, <3>4 DEF AlgorithmInv, Answered, TargetBetween, InsertionBetween,
                                     NoPairBefore, PlacesExchanged, HeadSorted
    <2>4. (j + 1) + 1 = j + 2
      BY <1>3
    <2>5. \/ nums[j + 1] > nums[j + 2] /\ nums' = Algorithm!Swapped(j, j + 1) /\ k' = 1
          \/ ~(nums[j + 1] > nums[j + 2]) /\ UNCHANGED <<nums, k>>
      BY <1>3, <1>6, <2>4 DEF Algorithm!bubbleSort, Algorithm!At, Algorithm!Returns
    <2> QED BY <2>1, <2>2, <2>3, <2>5
  <1>7. CASE i > 0 /\ j = i /\ k = 1 /\ i' = i - 1 /\ j' = 0 /\ k' = 0 /\ UNCHANGED <<nums, result>>
    <2>1. \A x, y \in 1..Len(nums) : x < y /\ y > i => nums[x] <= nums[y]
      BY <1>3, <1>4, <1>7
    <2>2. TailSorted'
      <3>1. i' + 1 = i /\ j' + 1 = 1 /\ nums' = nums
        BY <1>3, <1>7
      <3> QED BY <1>1, <1>3, <1>4, <1>7, <2>1, <3>1 DEF TailSorted
    <2>3. SearchedTypes' /\ Algorithm!Goes'
      BY <1>1, <1>2, <1>3, <1>7 DEF SearchedTypes, Algorithm!Goes
    <2> QED BY <1>1, <2>2, <2>3 DEF AlgorithmInv, Answered, TargetBetween, InsertionBetween,
                                   NoPairBefore, PlacesExchanged, HeadSorted
  <1> QED BY <1>3, <1>5, <1>6, <1>7 DEF Algorithm!bubbleSort, Algorithm!n, Algorithm!Returns

(* insertionSort: the elements up to i are in order but for the hole, and  *)
(* those behind the hole are greater than the base.                        *)
LEMMA InsertionSortStep ==
  ASSUME AlgorithmInv, Algorithm!insertionSort
  PROVE  AlgorithmInv'
  <1>1. /\ alg = "insertionSort" /\ Algorithm!Goes
        /\ alg' = alg /\ input' = input /\ target' = target
    BY DEF Algorithm!insertionSort, Algorithm!Fixed
  <1>2. SearchedTypes /\ HeadSorted
    BY <1>1 DEF AlgorithmInv
  <1>3. /\ Len(nums) \in Nat /\ DOMAIN nums = 1..Len(nums)
        /\ \A x \in 1..Len(nums) : nums[x] \in Int /\ nums[x] \in Numbers /\ nums[x] # 0
        /\ i \in Int /\ j \in Int /\ k \in Int /\ i >= 1 /\ (i <= Len(nums) \/ Len(nums) = 0)
    <2>1. /\ Len(nums) \in Nat /\ DOMAIN nums = 1..Len(nums)
          /\ \A x \in 1..Len(nums) : nums[x] \in Int /\ nums[x] \in Numbers /\ nums[x] # 0
      BY <1>2, VectorNumbers DEF SearchedTypes
    <2> QED BY <1>1, <1>2, <2>1 DEF SearchedTypes, HeadSorted
  <1>4. CASE i >= Len(nums) /\ result' = Algorithm!Done /\ UNCHANGED <<nums, i, j, k>>
    <2>1. k = 0
      BY <1>1, <1>2, <1>3, <1>4 DEF HeadSorted
    <2>2. /\ Algorithm!Rearranged(input, nums)
          /\ \A x, y \in 1..Len(nums) : x < y /\ y <= i => nums[x] <= nums[y]
      BY <1>1, <1>2, <2>1 DEF HeadSorted
    <2>3. \A x, y \in 1..Len(nums) : x < y => nums[x] <= nums[y]
      BY <1>3, <1>4, <2>2
    <2>4. Algorithm!Ascending(nums')
      BY <1>3, <1>4, <2>3 DEF Algorithm!Ascending
    <2>5. Answered' /\ ~Algorithm!Goes'
      BY <1>1, <1>4, <2>2, <2>4, ReturnedIsNotRunning DEF Answered, Algorithm!Goes, Algorithm!Right
    <2> QED BY <1>1, <1>2, <1>4, <2>5 DEF AlgorithmInv, SearchedTypes
  <1>5. CASE i < Len(nums) /\ k = 0 /\ k' = nums[i + 1] /\ j' = i - 1 /\ UNCHANGED <<nums, i, result>>
    <2>1. /\ Algorithm!Rearranged(input, nums)
          /\ \A x, y \in 1..Len(nums) : x < y /\ y <= i => nums[x] <= nums[y]
      BY <1>1, <1>2, <1>5 DEF HeadSorted
    <2>2. /\ j' + 2 = i + 1 /\ i + 1 \in 1..Len(nums) /\ k' \in Numbers /\ k' # 0 /\ k' \in Int
          /\ j' \in Int /\ j' >= -1 /\ j' < i
      BY <1>3, <1>5
    <2>3. [nums' EXCEPT ![Hole'] = k'] = nums
      <3>1. nums \in [1..Len(nums) -> Numbers]
        BY <1>2, LenProperties DEF SearchedTypes
      <3> QED BY <1>5, <2>2, <3>1 DEF Hole
    <2>4. /\ \A x, y \in (1..Len(nums)) \ {i + 1} : x < y /\ y <= i + 1 => nums[x] <= nums[y]
          /\ \A x \in 1..Len(nums) : ~(x > i + 1 /\ x <= i + 1)
      BY <1>3, <2>1
    <2>5. HeadSorted'
      <3>1. Algorithm!Rearranged(input', [nums' EXCEPT ![Hole'] = k'])
        BY <1>1, <2>1, <2>3
      <3>2. Hole' = i + 1
        BY <2>2 DEF Hole
      <3> QED BY <1>1, <1>3, <1>5, <2>2, <2>4, <3>1, <3>2 DEF HeadSorted
    <2>6. SearchedTypes' /\ Algorithm!Goes'
      BY <1>1, <1>2, <1>5, <2>2 DEF SearchedTypes, Algorithm!Goes
    <2> QED BY <1>1, <2>5, <2>6 DEF AlgorithmInv, Answered, TargetBetween, InsertionBetween,
                                   NoPairBefore, PlacesExchanged, TailSorted
  <1>6. ASSUME i < Len(nums), k # 0
        PROVE  /\ k \in Numbers /\ j >= -1 /\ j < i /\ Hole = j + 2 /\ Hole \in 1..Len(nums)
               /\ Algorithm!Rearranged(input, [nums EXCEPT ![Hole] = k])
               /\ \A x, y \in (1..Len(nums)) \ {Hole} : x < y /\ y <= i + 1 => nums[x] <= nums[y]
               /\ \A x \in 1..Len(nums) : x > Hole /\ x <= i + 1 => nums[x] > k
    <2>1. k \in Numbers /\ j >= -1 /\ j < i
      BY <1>1, <1>2, <1>6 DEF HeadSorted
    <2>2. Hole = j + 2 /\ Hole \in 1..Len(nums)
      BY <1>3, <1>6, <2>1 DEF Hole
    <2> QED BY <1>1, <1>2, <1>6, <2>1, <2>2 DEF HeadSorted
  <1>7. CASE /\ i < Len(nums) /\ k # 0 /\ j >= 0 /\ nums[j + 1] > k
             /\ nums' = [nums EXCEPT ![j + 2] = nums[j + 1]] /\ j' = j - 1
             /\ UNCHANGED <<i, k, result>>
    <2>0. /\ k \in Numbers /\ j < i /\ Hole = j + 2 /\ i < Len(nums) /\ j >= 0
          /\ nums[j + 1] > k /\ j' = j - 1 /\ i' = i /\ k' = k
      BY <1>6, <1>7
    <2>1. PICK h, v : h = Hole /\ v = nums[j + 1]
      OBVIOUS
    <2>2. /\ h = j + 2 /\ h \in 1..Len(nums) /\ h - 1 \in 1..Len(nums) /\ v = nums[h - 1]
          /\ v \in Numbers /\ v \in Int /\ v > k /\ h <= i + 1
      <3>1. h = j + 2 /\ h - 1 = j + 1 /\ j + 1 \in 1..Len(nums) /\ j + 2 \in 1..Len(nums) /\ h <= i + 1
        BY <1>3, <2>0, <2>1
      <3> QED BY <1>3, <2>0, <2>1, <3>1
    <2>3. nums' = [nums EXCEPT ![h] = v]
      BY <1>7, <2>1, <2>2
    <2>4. /\ nums' \in Seq(Numbers) /\ Len(nums') = Len(nums)
          /\ \A x \in 1..Len(nums) : nums'[x] = IF x = h THEN v ELSE nums[x]
      BY <1>2, <2>2, <2>3, ElementWritten DEF SearchedTypes
    <2>5. Hole' = h - 1
      BY <1>3, <1>7, <2>2 DEF Hole
    <2>6. Algorithm!Rearranged(input, [nums' EXCEPT ![h - 1] = k])
      <3>1. PICK s, u : s = [nums EXCEPT ![h] = k] /\ u = [nums' EXCEPT ![h - 1] = k]
        OBVIOUS
      <3>2. /\ s \in Seq(Numbers) /\ Len(s) = Len(nums)
            /\ \A x \in 1..Len(nums) : s[x] = IF x = h THEN k ELSE nums[x]
        <4>1. nums \in Seq(Numbers) /\ h \in 1..Len(nums) /\ k \in Numbers
          BY <1>2, <2>0, <2>2 DEF SearchedTypes
        <4> QED BY <3>1, <4>1, ElementWritten
      <3>3. /\ u \in Seq(Numbers) /\ Len(u) = Len(nums)
            /\ \A x \in 1..Len(nums) : u[x] = IF x = h - 1 THEN k ELSE nums'[x]
        <4>1. h - 1 \in 1..Len(nums')
          BY <2>2, <2>4
        <4>2. /\ u \in Seq(Numbers) /\ Len(u) = Len(nums')
              /\ \A x \in 1..Len(nums') : u[x] = IF x = h - 1 THEN k ELSE nums'[x]
          BY <1>6, <1>7, <2>4, <3>1, <4>1, ElementWritten
        <4> QED BY <2>4, <4>2
      <3>4. /\ u[h] = s[h - 1] /\ u[h - 1] = s[h]
            /\ \A x \in 1..Len(nums) : x \notin {h, h - 1} => u[x] = s[x]
        BY <1>3, <2>2, <2>4, <3>2, <3>3
      <3>5. Algorithm!Rearranged(input, s)
        BY <1>6, <1>7, <2>1, <3>1
      <3>6. input \in Seq(Numbers) /\ Len(input) = Len(nums)
        BY <1>2 DEF SearchedTypes
      <3>7. PICK c, d : c = h /\ d = h - 1
        OBVIOUS
      <3>8. /\ u[c] = s[d] /\ u[d] = s[c] /\ c \in 1..Len(input) /\ d \in 1..Len(input)
            /\ \A x \in 1..Len(input) : x \notin {c, d} => u[x] = s[x]
            /\ Len(u) = Len(input) /\ Len(s) = Len(input)
        BY <2>2, <3>2, <3>3, <3>4, <3>6, <3>7
      <3>9. Algorithm!Rearranged(input, u)
        BY <3>2, <3>3, <3>5, <3>6, <3>8, ElementsChangePlaces
      <3> QED BY <3>1, <3>9
    <2>7. \A x, y \in (1..Len(nums)) \ {h - 1} : x < y /\ y <= i + 1 => nums'[x] <= nums'[y]
      <3>1. \A x, y \in (1..Len(nums)) \ {h} : x < y /\ y <= i + 1 => nums[x] <= nums[y]
        BY <1>6, <1>7, <2>1
      <3> QED BY <1>3, <2>2, <2>4, <3>1
    <2>8. \A x \in 1..Len(nums) : x > h - 1 /\ x <= i + 1 => nums'[x] > k
      <3>1. \A x \in 1..Len(nums) : x > h /\ x <= i + 1 => nums[x] > k
        BY <1>6, <1>7, <2>1
      <3> QED BY <1>3, <2>2, <2>4, <3>1
    <2>9. HeadSorted'
      <3>1. Algorithm!Rearranged(input', [nums' EXCEPT ![Hole'] = k'])
        BY <1>1, <1>7, <2>5, <2>6
      <3>2. k' = k /\ i' = i /\ j' = j - 1 /\ k \in Numbers /\ j' >= -1 /\ j' < i'
        BY <1>3, <2>0
      <3> QED BY <1>1, <1>3, <1>7, <2>4, <2>5, <2>7, <2>8, <3>1, <3>2 DEF HeadSorted
    <2>10. SearchedTypes' /\ Algorithm!Goes'
      BY <1>1, <1>2, <1>3, <1>7, <2>4 DEF SearchedTypes, Algorithm!Goes
    <2> QED BY <1>1, <2>9, <2>10 DEF AlgorithmInv, Answered, TargetBetween, InsertionBetween,
                                    NoPairBefore, PlacesExchanged, TailSorted
  <1>8. CASE /\ i < Len(nums) /\ k # 0 /\ ~(j >= 0 /\ nums[j + 1] > k)
             /\ nums' = [nums EXCEPT ![j + 2] = k] /\ i' = i + 1 /\ k' = 0
             /\ UNCHANGED <<j, result>>
    <2>1. PICK h : h = Hole
      OBVIOUS
    <2>2. h = j + 2 /\ h \in 1..Len(nums) /\ h <= i + 1 /\ k \in Numbers
      BY <1>3, <1>6, <1>8, <2>1
    <2>3. /\ nums' \in Seq(Numbers) /\ Len(nums') = Len(nums)
          /\ \A x \in 1..Len(nums) : nums'[x] = IF x = h THEN k ELSE nums[x]
      BY <1>2, <1>8, <2>2, ElementWritten DEF SearchedTypes
    <2>4. Algorithm!Rearranged(input, nums')
      BY <1>6, <1>8, <2>1, <2>2
    <2>5. \A x \in 1..Len(nums) : x < h => nums[x] <= k
      <3>1. \A x, y \in (1..Len(nums)) \ {h} : x < y /\ y <= i + 1 => nums[x] <= nums[y]
        BY <1>6, <1>8, <2>1
      <3>2. h - 1 \in 1..Len(nums) => nums[h - 1] <= k
        BY <1>3, <1>8, <2>2
      <3> QED BY <1>3, <2>2, <3>1, <3>2
    <2>6. \A x, y \in 1..Len(nums) : x < y /\ y <= i + 1 => nums'[x] <= nums'[y]
      <3>1. /\ \A x, y \in (1..Len(nums)) \ {h} : x < y /\ y <= i + 1 => nums[x] <= nums[y]
            /\ \A x \in 1..Len(nums) : x > h /\ x <= i + 1 => nums[x] > k
        BY <1>6, <1>8, <2>1
      <3>2. ASSUME NEW x \in 1..Len(nums), NEW y \in 1..Len(nums), x < y, y <= i + 1
            PROVE  nums'[x] <= nums'[y]
        <4>1. CASE x # h /\ y # h
          BY <2>3, <3>1, <3>2, <4>1
        <4>2. CASE x = h
          <5>1. y > h /\ y # h /\ nums[y] > k
            BY <2>2, <3>1, <3>2, <4>2
          <5> QED BY <1>3, <2>3, <4>2, <5>1
        <4>3. CASE y = h
          <5>1. x < h /\ x # h /\ nums[x] <= k
            BY <2>2, <2>5, <3>2, <4>3
          <5> QED BY <1>3, <2>3, <4>3, <5>1
        <4> QED BY <4>1, <4>2, <4>3
      <3> QED BY <3>2
    <2>7. HeadSorted'
      BY <1>1, <1>3, <1>8, <2>3, <2>4, <2>6 DEF HeadSorted
    <2>8. SearchedTypes' /\ Algorithm!Goes'
      BY <1>1, <1>2, <1>3, <1>8, <2>3 DEF SearchedTypes, Algorithm!Goes
    <2> QED BY <1>1, <2>7, <2>8 DEF AlgorithmInv, Answered, TargetBetween, InsertionBetween,
                                   NoPairBefore, PlacesExchanged, TailSorted
  <1> QED BY <1>4, <1>5, <1>7, <1>8 DEF Algorithm!insertionSort, Algorithm!n, Algorithm!Returns,
                                       Algorithm!At

LEMMA AlgorithmStep ==
  ASSUME AlgorithmInv, [Next]_vars
  PROVE  AlgorithmInv'
  <1>1. CASE RunAlgorithm
    BY <1>1, BinarySearchStep, InsertionStep, TwoSumStep, SelectionStep, BubbleStep, InsertionSortStep
       DEF RunAlgorithm, Algorithm!Next
  <1>2. CASE UNCHANGED algorithmVars
    <2>1. SearchedTypes' /\ Answered' /\ Algorithm!Goes' = Algorithm!Goes
      BY <1>2 DEF algorithmVars, AlgorithmInv, SearchedTypes, Answered, Algorithm!Goes,
                  Algorithm!Right, Algorithm!At
    <2>2. Algorithm!Goes =>
            /\ TargetBetween' /\ InsertionBetween' /\ NoPairBefore'
            /\ PlacesExchanged' /\ TailSorted' /\ HeadSorted'
      BY <1>2 DEF algorithmVars, AlgorithmInv, TargetBetween, InsertionBetween, NoPairBefore,
                  PlacesExchanged, TailSorted, HeadSorted, SearchBounds, Hole, Algorithm!Middle
    <2> QED BY <2>1, <2>2 DEF AlgorithmInv
  <1>3. RunAlgorithm \/ UNCHANGED algorithmVars
    BY DEF Next, vars, programs, UseContainer, UseCache, UsePool, UseTable, UseBook, UseBucket,
           UseWheel, RunSearch, RunServer
  <1> QED BY <1>1, <1>2, <1>3

(* AlgorithmsRight, for vectors of any length: the binary searches with    *)
(* the bounds they really compute, whether they end or not, and the sorts  *)
(* with their exchanges.                                                   *)
THEOREM WhatReturnsIsRight == Spec => []AlgorithmsRight
  <1>1. AlgorithmInv /\ [Next]_vars => AlgorithmInv'
    BY AlgorithmStep
  <1>2. AlgorithmInv => AlgorithmsRight
    <2> SUFFICES ASSUME AlgorithmInv PROVE Algorithm!AlgorithmsRight
      BY DEF AlgorithmsRight
    <2>1. CASE ~Algorithm!Goes
      BY <2>1 DEF AlgorithmInv, Answered, Algorithm!AlgorithmsRight
    <2>2. CASE Algorithm!Goes
      <3>1. TargetBetween /\ InsertionBetween /\ DOMAIN nums = 1..Len(nums)
        BY <2>2, VectorNumbers DEF AlgorithmInv, SearchedTypes
      <3>2. Algorithm!KeepsPlace
        BY <3>1 DEF TargetBetween, InsertionBetween, Algorithm!KeepsPlace
      <3>3. Algorithm!MovesOnce
        <4> SUFFICES ASSUME alg \in Algorithm!Searches, i # 0, ~(i > j)
                     PROVE  i = Algorithm!Middle + 1 /\ nums[Algorithm!Middle + 1] < target
          BY DEF Algorithm!MovesOnce, Algorithm!At
        <4>1. alg = "BinarySearch" \/ alg = "BinarySearchInsertion"
          BY DEF Algorithm!Searches
        <4>2. i \in Int /\ j \in Int
          BY <2>2 DEF AlgorithmInv, SearchedTypes
        <4>3. CASE alg = "BinarySearch"
          BY <3>1, <4>3 DEF TargetBetween
        <4>4. CASE alg = "BinarySearchInsertion"
          <5>1. i = Algorithm!Middle + 1 /\ SearchBounds
            BY <3>1, <4>4 DEF InsertionBetween
          <5>2. i \in 1..Len(nums)
            BY <4>2, <5>1 DEF SearchBounds
          <5>3. nums[i] < target
            BY <3>1, <4>4, <5>2 DEF InsertionBetween
          <5> QED BY <5>1, <5>3
        <4> QED BY <4>1, <4>3, <4>4
      <3> QED BY <2>2, <3>2, <3>3 DEF Algorithm!AlgorithmsRight
    <2> QED BY <2>1, <2>2
  <1> QED BY <1>1, <1>2, AlgorithmInit, PTL DEF Spec

----------------------------------------------------------------------------
(* Sums: SumFunction adds up the values of a function in an order that it  *)
(* does not say.  SumsOf(f, h): h gives the sums of all parts of f.        *)
Chosen(s) == CHOOSE x \in s : TRUE
SumsOf(f, h) ==
  /\ h \in [SUBSET DOMAIN f -> Int] /\ h[{}] = 0
  /\ \A s \in SUBSET DOMAIN f : s # {} => h[s] = f[Chosen(s)] + h[s \ {Chosen(s)}]
IntFunction(f) == f \in [DOMAIN f -> Int] /\ IsFiniteSet(DOMAIN f)

LEMMA ChosenIsMember ==
  ASSUME NEW s, s # {}
  PROVE  Chosen(s) \in s
  BY DEF Chosen

(* Parts of a finite set are finite, and smaller without a member. *)
LEMMA PartsAreFinite ==
  ASSUME NEW D, IsFiniteSet(D), NEW s, s \subseteq D
  PROVE  /\ Cardinality(s) \in Nat /\ (Cardinality(s) = 0 <=> s = {})
         /\ \A x \in s : Cardinality(s \ {x}) = Cardinality(s) - 1
  <1>1. IsFiniteSet(s)
    BY FS_Subset
  <1>2. Cardinality(s) \in Nat /\ (Cardinality(s) = 0 <=> s = {})
    BY <1>1, FS_CardinalityType, FS_EmptySet
  <1>3. \A x \in s : Cardinality(s \ {x}) = Cardinality(s) - 1
    BY <1>1, FS_RemoveElement
  <1> QED BY <1>2, <1>3

(* The sums of the parts with at most m members. *)
SumsUpTo(f, m, h) ==
  /\ h \in [SUBSET DOMAIN f -> Int] /\ h[{}] = 0
  /\ \A s \in SUBSET DOMAIN f :
       s # {} /\ Cardinality(s) <= m => h[s] = f[Chosen(s)] + h[s \ {Chosen(s)}]

LEMMA SumsGrow ==
  ASSUME NEW f, IntFunction(f), NEW m \in Nat, NEW h, SumsUpTo(f, m, h)
  PROVE  \E g : SumsUpTo(f, m + 1, g)
  <1> DEFINE D == DOMAIN f
             g == [s \in SUBSET D |-> IF Cardinality(s) <= m THEN h[s]
                                      ELSE f[Chosen(s)] + h[s \ {Chosen(s)}]]
  <1>1. \A s \in SUBSET D : /\ Cardinality(s) \in Nat /\ (Cardinality(s) = 0 <=> s = {})
                            /\ \A x \in s : Cardinality(s \ {x}) = Cardinality(s) - 1
    BY PartsAreFinite DEF IntFunction
  <1>2. \A s \in SUBSET D : s # {} => Chosen(s) \in s /\ s \ {Chosen(s)} \in SUBSET D
    BY ChosenIsMember
  <1>3. h \in [SUBSET D -> Int] /\ f \in [D -> Int] /\ h[{}] = 0
    BY DEF SumsUpTo, IntFunction
  <1>4. \A s \in SUBSET D : ~(Cardinality(s) <= m) => s # {}
    BY <1>1
  <1>5. g \in [SUBSET D -> Int]
    <2>1. SUFFICES ASSUME NEW s \in SUBSET D PROVE g[s] \in Int
      OBVIOUS
    <2>2. CASE Cardinality(s) <= m
      BY <1>3, <2>2
    <2>3. CASE ~(Cardinality(s) <= m)
      <3>1. Chosen(s) \in D /\ s \ {Chosen(s)} \in SUBSET D
        BY <1>2, <1>4, <2>3
      <3>2. f[Chosen(s)] \in Int /\ h[s \ {Chosen(s)}] \in Int
        BY <1>3, <3>1
      <3> QED BY <2>3, <3>2
    <2> QED BY <2>2, <2>3
  <1>6. g[{}] = 0
    <2>1. Cardinality({}) = 0 /\ {} \in SUBSET D
      BY <1>1
    <2> QED BY <1>3, <2>1
  <1>7. ASSUME NEW s \in SUBSET D, s # {}, Cardinality(s) <= m + 1
        PROVE  g[s] = f[Chosen(s)] + g[s \ {Chosen(s)}]
    <2>1. PICK r : r = s \ {Chosen(s)}
      OBVIOUS
    <2>2. r \in SUBSET D /\ Cardinality(r) = Cardinality(s) - 1 /\ Cardinality(s) \in Nat
      BY <1>1, <1>2, <1>7, <2>1
    <2>3. g[r] = h[r]
      <3>1. Cardinality(r) <= m
        BY <1>7, <2>2
      <3> QED BY <2>2, <3>1
    <2>4. g[s] = f[Chosen(s)] + h[r]
      <3>1. CASE Cardinality(s) <= m
        BY <1>7, <2>1, <3>1 DEF SumsUpTo
      <3>2. CASE ~(Cardinality(s) <= m)
        BY <2>1, <3>2
      <3> QED BY <3>1, <3>2
    <2> HIDE DEF g
    <2> QED BY <2>1, <2>3, <2>4
  <1> HIDE DEF g
  <1>8. SumsUpTo(f, m + 1, g)
    BY <1>5, <1>6, <1>7 DEF SumsUpTo
  <1> QED BY <1>8

LEMMA SumsExist ==
  ASSUME NEW f, IntFunction(f)
  PROVE  \E h : SumsOf(f, h)
  <1> DEFINE Bad == {m \in Nat : ~\E h : SumsUpTo(f, m, h)}
  <1>1. Bad = {}
    <2>1. SUFFICES ASSUME Bad # {} PROVE FALSE
      OBVIOUS
    <2>2. PICK m \in Bad : \A x \in Bad : m <= x
      <3>1. Bad \subseteq Nat
        OBVIOUS
      <3> HIDE DEF Bad
      <3> QED BY <2>1, <3>1, LeastNumber
    <2>3. m # 0
      <3>1. PICK h : h = [s \in SUBSET DOMAIN f |-> 0]
        OBVIOUS
      <3>2. \A s \in SUBSET DOMAIN f : s # {} => ~(Cardinality(s) <= 0)
        <4>1. SUFFICES ASSUME NEW s \in SUBSET DOMAIN f, s # {} PROVE ~(Cardinality(s) <= 0)
          OBVIOUS
        <4>2. Cardinality(s) \in Nat /\ Cardinality(s) # 0
          BY <4>1, PartsAreFinite DEF IntFunction
        <4> QED BY <4>2
      <3>3. SumsUpTo(f, 0, h)
        BY <3>1, <3>2 DEF SumsUpTo
      <3> QED BY <3>3
    <2>4. m - 1 \in Nat /\ (m - 1) + 1 = m /\ ~(m <= m - 1)
      BY <2>3
    <2>5. PICK h : SumsUpTo(f, m - 1, h)
      BY <2>2, <2>4
    <2>6. \E g : SumsUpTo(f, (m - 1) + 1, g)
      BY <2>4, <2>5, SumsGrow
    <2> QED BY <2>4, <2>6
  <1>2. PICK c : c = Cardinality(DOMAIN f)
    OBVIOUS
  <1>3. c \in Nat
    BY <1>2, PartsAreFinite DEF IntFunction
  <1>4. PICK h : SumsUpTo(f, c, h)
    BY <1>1, <1>3
  <1>5. \A s \in SUBSET DOMAIN f : Cardinality(s) <= c
    BY <1>2, FS_Subset DEF IntFunction
  <1>6. SumsOf(f, h)
    BY <1>4, <1>5 DEF SumsOf, SumsUpTo
  <1> QED BY <1>6

(* Where two functions agree their sums agree. *)
LEMMA SumsAgree ==
  ASSUME NEW f, NEW g, NEW a, NEW b, SumsOf(f, a), SumsOf(g, b), NEW S, IsFiniteSet(S),
         S \subseteq DOMAIN f, S \subseteq DOMAIN g, \A x \in S : f[x] = g[x]
  PROVE  a[S] = b[S]
  <1> DEFINE Bad == {Cardinality(s) : s \in {s \in SUBSET S : a[s] # b[s]}}
  <1>1. \A s \in SUBSET S : /\ Cardinality(s) \in Nat
                            /\ \A x \in s : Cardinality(s \ {x}) = Cardinality(s) - 1
    BY PartsAreFinite
  <1>2. Bad = {}
    <2>1. SUFFICES ASSUME Bad # {} PROVE FALSE
      OBVIOUS
    <2>2. PICK m \in Bad : \A x \in Bad : m <= x
      <3>1. Bad \subseteq Nat
        BY <1>1
      <3> HIDE DEF Bad
      <3> QED BY <2>1, <3>1, LeastNumber
    <2>3. PICK s \in SUBSET S : a[s] # b[s] /\ m = Cardinality(s)
      OBVIOUS
    <2>4. s # {}
      BY <2>3 DEF SumsOf
    <2>5. Chosen(s) \in S /\ Chosen(s) \in s /\ s \ {Chosen(s)} \in SUBSET S
      BY <2>4, ChosenIsMember
    <2>6. a[s \ {Chosen(s)}] = b[s \ {Chosen(s)}]
      <3>1. SUFFICES ASSUME a[s \ {Chosen(s)}] # b[s \ {Chosen(s)}] PROVE FALSE
        OBVIOUS
      <3>2. Cardinality(s \ {Chosen(s)}) \in Bad
        BY <2>5, <3>1
      <3>3. m <= Cardinality(s \ {Chosen(s)})
        <4> HIDE DEF Bad
        <4> QED BY <2>2, <3>2
      <3>4. Cardinality(s \ {Chosen(s)}) = m - 1 /\ m \in Nat
        BY <1>1, <2>3, <2>5
      <3> QED BY <3>3, <3>4
    <2>7. a[s] = f[Chosen(s)] + a[s \ {Chosen(s)}] /\ b[s] = g[Chosen(s)] + b[s \ {Chosen(s)}]
      BY <2>4 DEF SumsOf
    <2> QED BY <2>3, <2>5, <2>6, <2>7
  <1> QED BY <1>2

(* Any member may be taken first. *)
LEMMA SumsOfAny ==
  ASSUME NEW f, IntFunction(f), NEW h, SumsOf(f, h), NEW S, S \subseteq DOMAIN f, NEW y \in S
  PROVE  h[S] = f[y] + h[S \ {y}]
  <1> DEFINE Off(s) == \E x \in s : h[s] # f[x] + h[s \ {x}]
             Bad == {Cardinality(s) : s \in {s \in SUBSET DOMAIN f : Off(s)}}
  <1>1. \A s \in SUBSET DOMAIN f : /\ Cardinality(s) \in Nat
                                   /\ \A x \in s : Cardinality(s \ {x}) = Cardinality(s) - 1
    BY PartsAreFinite DEF IntFunction
  <1>2. /\ \A s \in SUBSET DOMAIN f : h[s] \in Int
        /\ \A s \in SUBSET DOMAIN f : s # {} => h[s] = f[Chosen(s)] + h[s \ {Chosen(s)}]
        /\ \A x \in DOMAIN f : f[x] \in Int
    BY DEF SumsOf, IntFunction
  <1>3. Bad = {}
    <2>1. SUFFICES ASSUME Bad # {} PROVE FALSE
      OBVIOUS
    <2>2. PICK m \in Bad : \A z \in Bad : m <= z
      <3>1. Bad \subseteq Nat
        BY <1>1
      <3> HIDE DEF Bad
      <3> QED BY <2>1, <3>1, LeastNumber
    <2>3. PICK s \in SUBSET DOMAIN f : Off(s) /\ m = Cardinality(s)
      OBVIOUS
    <2>4. PICK x \in s : h[s] # f[x] + h[s \ {x}]
      BY <2>3
    <2>5. PICK c : c = Chosen(s)
      OBVIOUS
    <2>6. c \in s /\ h[s] = f[c] + h[s \ {c}] /\ c # x
      BY <1>2, <2>4, <2>5, ChosenIsMember
    <2>7. ASSUME NEW r, r \in {s \ {c}, s \ {x}}, NEW z \in r
          PROVE  h[r] = f[z] + h[r \ {z}]
      <3>1. SUFFICES ASSUME h[r] # f[z] + h[r \ {z}] PROVE FALSE
        OBVIOUS
      <3>2. r \in SUBSET DOMAIN f /\ Cardinality(r) = m - 1 /\ m \in Nat
        BY <1>1, <2>3, <2>6, <2>7
      <3>3. Off(r)
        BY <2>7, <3>1
      <3>4. Cardinality(r) \in Bad
        BY <3>2, <3>3
      <3>5. m <= Cardinality(r)
        <4> HIDE DEF Bad
        <4> QED BY <2>2, <3>4
      <3> QED BY <3>2, <3>5
    <2>8. PICK w : w = (s \ {c}) \ {x}
      OBVIOUS
    <2>9. (s \ {x}) \ {c} = w /\ w \in SUBSET DOMAIN f
      BY <2>8
    <2>10. h[s \ {c}] = f[x] + h[w] /\ h[s \ {x}] = f[c] + h[w]
      BY <2>4, <2>6, <2>7, <2>8, <2>9
    <2>11. f[c] \in Int /\ f[x] \in Int /\ h[w] \in Int
      BY <1>2, <2>6, <2>9
    <2>12. h[s] = f[x] + h[s \ {x}]
      BY <2>6, <2>10, <2>11
    <2> QED BY <2>4, <2>12
  <1>4. ~Off(S)
    BY <1>3
  <1> QED BY <1>4

(* SumFunction is what SumsOf says of the whole function. *)
LEMMA SumIsSums ==
  ASSUME NEW f, IntFunction(f)
  PROVE  \E h : SumsOf(f, h) /\ Book!SumFunction(f) = h[DOMAIN f]
  <1> DEFINE D == DOMAIN f
             Sums(h) == h = [s \in SUBSET D |->
                               IF s = {} THEN 0
                               ELSE f[CHOOSE x \in s : TRUE] + h[s \ {CHOOSE x \in s : TRUE}]]
             iter == CHOOSE h : Sums(h)
  <1>1. Book!SumFunction(f) = iter[D]
    BY DEF Book!SumFunction, Book!SumFunctionOnSet, Book!FoldFunctionOnSet, Book!MapThenFoldSet
  <1>2. PICK h : SumsOf(f, h)
    BY SumsExist
  <1>3. Sums(h)
    <2>1. PICK g : g = [s \in SUBSET D |->
                           IF s = {} THEN 0
                           ELSE f[CHOOSE x \in s : TRUE] + h[s \ {CHOOSE x \in s : TRUE}]]
      OBVIOUS
    <2>2. h \in [SUBSET D -> Int]
      BY <1>2 DEF SumsOf
    <2>3. \A s \in SUBSET D : h[s] = g[s]
      BY <1>2, <2>1 DEF SumsOf, Chosen
    <2>4. h = g
      BY <2>1, <2>2, <2>3
    <2> QED BY <2>1, <2>4
  <1>4. Sums(iter)
    BY <1>3, Zenon
  <1>5. iter[{}] = 0 /\ \A s \in SUBSET D : s # {} => iter[s] = f[Chosen(s)] + iter[s \ {Chosen(s)}]
    <2> HIDE DEF iter
    <2>1. PICK g : g = iter
      OBVIOUS
    <2>2. Sums(g)
      BY <1>4, <2>1
    <2>3. g[{}] = 0 /\ \A s \in SUBSET D : s # {} => g[s] = f[Chosen(s)] + g[s \ {Chosen(s)}]
      BY <2>2 DEF Chosen
    <2> QED BY <2>1, <2>3
  <1> HIDE DEF iter
  <1>6. \A s \in SUBSET D : iter[s] = h[s]
    <2> DEFINE Bad == {Cardinality(s) : s \in {s \in SUBSET D : iter[s] # h[s]}}
    <2>1. \A s \in SUBSET D : /\ Cardinality(s) \in Nat
                              /\ \A x \in s : Cardinality(s \ {x}) = Cardinality(s) - 1
      BY PartsAreFinite DEF IntFunction
    <2>2. Bad = {}
      <3>1. SUFFICES ASSUME Bad # {} PROVE FALSE
        OBVIOUS
      <3>2. PICK m \in Bad : \A z \in Bad : m <= z
        <4>1. Bad \subseteq Nat
          BY <2>1
        <4> HIDE DEF Bad
        <4> QED BY <3>1, <4>1, LeastNumber
      <3>3. PICK s \in SUBSET D : iter[s] # h[s] /\ m = Cardinality(s)
        OBVIOUS
      <3>4. s # {}
        BY <1>2, <1>5, <3>3 DEF SumsOf
      <3>5. PICK r : r = s \ {Chosen(s)}
        OBVIOUS
      <3>6. r \in SUBSET D /\ Cardinality(r) = m - 1 /\ m \in Nat
        BY <2>1, <3>3, <3>4, <3>5, ChosenIsMember
      <3>7. iter[r] = h[r]
        <4>1. SUFFICES ASSUME iter[r] # h[r] PROVE FALSE
          OBVIOUS
        <4>2. Cardinality(r) \in Bad
          BY <3>6, <4>1
        <4>3. m <= Cardinality(r)
          <5> HIDE DEF Bad
          <5> QED BY <3>2, <4>2
        <4> QED BY <3>6, <4>3
      <3>8. iter[s] = f[Chosen(s)] + iter[r] /\ h[s] = f[Chosen(s)] + h[r]
        BY <1>2, <1>5, <3>4, <3>5 DEF SumsOf
      <3> QED BY <3>3, <3>7, <3>8
    <2> QED BY <2>2
  <1> QED BY <1>1, <1>2, <1>6

(* The sum over no members, and the sum with one member taken out. *)
LEMMA SumOfNone ==
  ASSUME NEW f, f \in [{} -> Int]
  PROVE  IntFunction(f) /\ Book!SumFunction(f) = 0
  <1>1. DOMAIN f = {} /\ IntFunction(f)
    BY FS_EmptySet DEF IntFunction
  <1>2. PICK h : SumsOf(f, h) /\ Book!SumFunction(f) = h[DOMAIN f]
    BY <1>1, SumIsSums
  <1> QED BY <1>1, <1>2 DEF SumsOf

LEMMA SumWithout ==
  ASSUME NEW f, IntFunction(f), NEW a \in DOMAIN f, NEW g, g = [x \in DOMAIN f \ {a} |-> f[x]]
  PROVE  /\ IntFunction(g) /\ Book!SumFunction(g) \in Int /\ f[a] \in Int
         /\ Book!SumFunction(f) = f[a] + Book!SumFunction(g)
  <1>1. IntFunction(g) /\ f[a] \in Int /\ DOMAIN g = DOMAIN f \ {a} /\ IsFiniteSet(DOMAIN f)
    <2>1. IsFiniteSet(DOMAIN f \ {a})
      BY FS_RemoveElement DEF IntFunction
    <2> QED BY <2>1 DEF IntFunction
  <1>2. PICK h : SumsOf(f, h) /\ Book!SumFunction(f) = h[DOMAIN f]
    BY SumIsSums
  <1>3. PICK u : SumsOf(g, u) /\ Book!SumFunction(g) = u[DOMAIN g]
    BY <1>1, SumIsSums
  <1>4. h[DOMAIN f] = f[a] + h[DOMAIN f \ {a}]
    BY <1>2, SumsOfAny
  <1>5. h[DOMAIN f \ {a}] = u[DOMAIN g]
    <2>1. IsFiniteSet(DOMAIN g) /\ DOMAIN g \subseteq DOMAIN f /\ \A x \in DOMAIN g : f[x] = g[x]
      BY <1>1 DEF IntFunction
    <2>2. h[DOMAIN g] = u[DOMAIN g]
      BY <1>2, <1>3, <2>1, SumsAgree
    <2> QED BY <1>1, <2>2
  <1>6. u[DOMAIN g] \in Int
    BY <1>3 DEF SumsOf
  <1> QED BY <1>1, <1>2, <1>3, <1>4, <1>5, <1>6

(* A value changes, and a value is added. *)
LEMMA SumChanges ==
  ASSUME NEW f, NEW g, IntFunction(f), IntFunction(g), NEW a, a \in DOMAIN f, DOMAIN g = DOMAIN f,
         \A x \in DOMAIN f : x # a => g[x] = f[x]
  PROVE  Book!SumFunction(g) = Book!SumFunction(f) + (g[a] - f[a])
  <1>1. PICK r : r = [x \in DOMAIN f \ {a} |-> f[x]]
    OBVIOUS
  <1>2. r = [x \in DOMAIN g \ {a} |-> g[x]]
    BY <1>1
  <1>3. /\ Book!SumFunction(r) \in Int /\ f[a] \in Int
        /\ Book!SumFunction(f) = f[a] + Book!SumFunction(r)
    BY <1>1, SumWithout
  <1>4. g[a] \in Int /\ Book!SumFunction(g) = g[a] + Book!SumFunction(r)
    BY <1>2, SumWithout
  <1> QED BY <1>3, <1>4

LEMMA SumAddsOne ==
  ASSUME NEW f, NEW g, IntFunction(f), IntFunction(g), NEW a, a \notin DOMAIN f,
         DOMAIN g = DOMAIN f \cup {a}, \A x \in DOMAIN f : g[x] = f[x]
  PROVE  Book!SumFunction(g) = Book!SumFunction(f) + g[a]
  <1>1. f = [x \in DOMAIN g \ {a} |-> g[x]]
    <2>1. DOMAIN g \ {a} = DOMAIN f /\ f = [x \in DOMAIN f |-> f[x]]
      BY DEF IntFunction
    <2> QED BY <2>1
  <1>2. /\ Book!SumFunction(f) \in Int /\ g[a] \in Int
        /\ Book!SumFunction(g) = g[a] + Book!SumFunction(f)
    BY <1>1, SumWithout
  <1> QED BY <1>2

----------------------------------------------------------------------------
(* OrderBook: what is open and what was traded.  The orders open are those *)
(* in the levels and the one being added, at most one of each id.          *)
RestingOf(b) == UNION {Book!ToSet(b[p]) : p \in DOMAIN b}
OneOfEach(S) == S \subseteq Orders /\ \A x, y \in S : x.id = y.id => x = y
QtyOf(S, n) == Book!SumFunction([o \in {o \in S : o.id = n} |-> o.qty])
SoldOf(orders, S, s) ==
  [n \in {n \in DOMAIN orders : orders[n].side = s} |-> orders[n].qty - QtyOf(S, n)]
TradedOf(orders, S, s) == Book!SumFunction(SoldOf(orders, S, s))
SoldParts(orders, S, s, f) ==
  /\ IntFunction(f) /\ DOMAIN f = {n \in 1..Len(orders) : orders[n].side = s}
  /\ \A n \in DOMAIN f : f[n] = orders[n].qty - QtyOf(S, n)

LEMMA QtyOfOrder ==
  ASSUME NEW S, OneOfEach(S)
  PROVE  /\ \A o \in S : QtyOf(S, o.id) = o.qty /\ o.qty \in Int
         /\ \A n : (\A o \in S : o.id # n) => QtyOf(S, n) = 0
         /\ \A n : QtyOf(S, n) \in Int
  <1>1. ASSUME NEW o \in S
        PROVE  QtyOf(S, o.id) = o.qty /\ o.qty \in Int
    <2>1. o.qty \in Int /\ {v \in S : v.id = o.id} = {o}
      BY DEF OneOfEach, Orders
    <2>2. PICK f : f = [v \in {o} |-> v.qty]
      OBVIOUS
    <2>3. f \in [{o} -> Int] /\ DOMAIN f = {o} /\ f[o] = o.qty
      BY <2>1, <2>2
    <2>4. IntFunction(f)
      BY <2>3, FS_Singleton DEF IntFunction
    <2>5. PICK g : g = [x \in DOMAIN f \ {o} |-> f[x]]
      OBVIOUS
    <2>6. Book!SumFunction(f) = f[o] + Book!SumFunction(g)
      BY <2>3, <2>4, <2>5, SumWithout
    <2>7. Book!SumFunction(g) = 0
      <3>1. g \in [{} -> Int]
        BY <2>3, <2>5
      <3> QED BY <3>1, SumOfNone
    <2>8. QtyOf(S, o.id) = Book!SumFunction(f)
      BY <2>1, <2>2 DEF QtyOf
    <2> QED BY <2>1, <2>3, <2>6, <2>7, <2>8
  <1>2. ASSUME NEW n, \A o \in S : o.id # n
        PROVE  QtyOf(S, n) = 0
    <2>1. PICK f : f = [o \in {o \in S : o.id = n} |-> o.qty]
      OBVIOUS
    <2>2. f \in [{} -> Int]
      BY <1>2, <2>1
    <2>3. QtyOf(S, n) = Book!SumFunction(f)
      BY <2>1 DEF QtyOf
    <2> QED BY <2>2, <2>3, SumOfNone
  <1>3. ASSUME NEW n
        PROVE  QtyOf(S, n) \in Int
    <2>1. CASE \E o \in S : o.id = n
      BY <1>1, <2>1
    <2>2. CASE \A o \in S : o.id # n
      BY <1>2, <2>2
    <2> QED BY <2>1, <2>2
  <1> QED BY <1>1, <1>2, <1>3

LEMMA SoldIsInt ==
  ASSUME NEW orders \in Seq(Orders), NEW S, OneOfEach(S), NEW s, NEW f, f = SoldOf(orders, S, s)
  PROVE  SoldParts(orders, S, s, f)
  <1>1. Len(orders) \in Nat /\ DOMAIN orders = 1..Len(orders)
        /\ \A n \in 1..Len(orders) : orders[n] \in Orders
    BY LenProperties, ElementOfSeq
  <1>2. IsFiniteSet({n \in 1..Len(orders) : orders[n].side = s})
    <2>1. IsFiniteSet(1..Len(orders))
      BY <1>1, FS_Interval
    <2> QED BY <2>1, FS_Subset
  <1>3. \A n \in 1..Len(orders) : orders[n].qty \in Int /\ QtyOf(S, n) \in Int
    BY <1>1, QtyOfOrder DEF Orders
  <1>5. f = [n \in {n \in 1..Len(orders) : orders[n].side = s} |-> orders[n].qty - QtyOf(S, n)]
    BY <1>1 DEF SoldOf
  <1>6. f \in [DOMAIN f -> Int] /\ DOMAIN f = {n \in 1..Len(orders) : orders[n].side = s}
    BY <1>3, <1>5
  <1> QED BY <1>2, <1>5, <1>6 DEF IntFunction, SoldParts

(* What is open of an order grows less, and what was traded more. *)
SoldMore(orders, S, T, a, q, s) ==
  /\ orders \in Seq(Orders) /\ OneOfEach(S) /\ OneOfEach(T)
  /\ a \in 1..Len(orders) /\ q \in Int /\ QtyOf(T, a) = QtyOf(S, a) - q /\ orders[a].side = s
  /\ \A n \in 1..Len(orders) : orders[n].side = s /\ n # a => QtyOf(T, n) = QtyOf(S, n)

LEMMA TradedMore ==
  ASSUME NEW orders, NEW S, NEW T, NEW a, NEW q, NEW s, SoldMore(orders, S, T, a, q, s)
  PROVE  TradedOf(orders, T, s) = TradedOf(orders, S, s) + q
  <1>0. /\ orders \in Seq(Orders) /\ OneOfEach(S) /\ OneOfEach(T)
        /\ a \in 1..Len(orders) /\ q \in Int /\ QtyOf(T, a) = QtyOf(S, a) - q /\ orders[a].side = s
        /\ \A n \in 1..Len(orders) : orders[n].side = s /\ n # a => QtyOf(T, n) = QtyOf(S, n)
    BY DEF SoldMore
  <1>1. PICK f, g : f = SoldOf(orders, S, s) /\ g = SoldOf(orders, T, s)
    OBVIOUS
  <1>2. /\ IntFunction(f) /\ IntFunction(g) /\ DOMAIN g = DOMAIN f /\ a \in DOMAIN f
        /\ \A n \in DOMAIN f : n \in 1..Len(orders) /\ orders[n].side = s
        /\ \A n \in DOMAIN f : f[n] = orders[n].qty - QtyOf(S, n)
        /\ \A n \in DOMAIN f : g[n] = orders[n].qty - QtyOf(T, n)
    <2>1. SoldParts(orders, S, s, f) /\ SoldParts(orders, T, s, g)
      BY <1>0, <1>1, SoldIsInt
    <2> QED BY <1>0, <2>1 DEF SoldParts
  <1>3. \A n \in DOMAIN f : n # a => g[n] = f[n]
    BY <1>0, <1>2
  <1>4. Book!SumFunction(g) = Book!SumFunction(f) + (g[a] - f[a])
    BY <1>2, <1>3, SumChanges
  <1>5. g[a] - f[a] = q
    <2>1. orders[a].qty \in Int /\ QtyOf(S, a) \in Int
      BY <1>0, QtyOfOrder, ElementOfSeq DEF Orders
    <2> QED BY <1>0, <1>2, <2>1
  <1> QED BY <1>1, <1>4, <1>5 DEF TradedOf

LEMMA TradedStays ==
  ASSUME NEW orders \in Seq(Orders), NEW S, OneOfEach(S), NEW T, OneOfEach(T), NEW s,
         \A n \in 1..Len(orders) : QtyOf(T, n) = QtyOf(S, n)
  PROVE  TradedOf(orders, T, s) = TradedOf(orders, S, s)
  <1>1. PICK f, g : f = SoldOf(orders, S, s) /\ g = SoldOf(orders, T, s)
    OBVIOUS
  <1>2. /\ IntFunction(f) /\ IntFunction(g) /\ DOMAIN g = DOMAIN f
        /\ \A n \in DOMAIN f : g[n] = f[n]
    <2>1. SoldParts(orders, S, s, f) /\ SoldParts(orders, T, s, g)
      BY <1>1, SoldIsInt
    <2> QED BY <2>1 DEF SoldParts
  <1>3. f = g
    BY <1>2 DEF IntFunction
  <1> QED BY <1>1, <1>3 DEF TradedOf

(* Nothing was traded yet of an order just sent. *)
JustSent(orders, S, o, longer, T) ==
  /\ orders \in Seq(Orders) /\ OneOfEach(S) /\ o \in Orders /\ o.id = Len(orders) + 1
  /\ \A x \in S : x.id \in 1..Len(orders)
  /\ longer = Append(orders, o) /\ T = S \cup {o}
LEMMA TradedNew ==
  ASSUME NEW orders, NEW S, NEW o, NEW longer, NEW T, JustSent(orders, S, o, longer, T), NEW s
  PROVE  TradedOf(longer, T, s) = TradedOf(orders, S, s)
  <1> longer = Append(orders, o) /\ T = S \cup {o}
    BY DEF JustSent
  <1> orders \in Seq(Orders) /\ OneOfEach(S) /\ o \in Orders /\ o.id = Len(orders) + 1
    BY DEF JustSent
  <1> \A x \in S : x.id \in 1..Len(orders)
    BY DEF JustSent
  <1>0. PICK c : c = Len(orders)
    OBVIOUS
  <1>1. /\ c \in Nat /\ longer \in Seq(Orders) /\ Len(longer) = c + 1 /\ longer[c + 1] = o
        /\ \A n \in 1..c : longer[n] = orders[n]
    BY <1>0, AppendProperties, LenProperties
  <1>2. OneOfEach(T)
    BY <1>0, <1>1 DEF OneOfEach
  <1>3. \A n \in 1..c : QtyOf(T, n) = QtyOf(S, n)
    <2>1. SUFFICES ASSUME NEW n \in 1..c PROVE QtyOf(T, n) = QtyOf(S, n)
      OBVIOUS
    <2>2. {x \in T : x.id = n} = {x \in S : x.id = n}
      BY <1>0, <1>1
    <2> QED BY <2>2 DEF QtyOf
  <1>4. QtyOf(T, c + 1) = o.qty /\ o.qty \in Int
    BY <1>0, <1>2, QtyOfOrder
  <1>5. PICK f, g : f = SoldOf(orders, S, s) /\ g = SoldOf(longer, T, s)
    OBVIOUS
  <1>6. /\ IntFunction(f) /\ DOMAIN f = {n \in 1..c : orders[n].side = s}
        /\ \A n \in DOMAIN f : f[n] = orders[n].qty - QtyOf(S, n)
    <2>1. SoldParts(orders, S, s, f)
      BY <1>5, SoldIsInt
    <2> QED BY <1>0, <2>1 DEF SoldParts
  <1>7. /\ IntFunction(g) /\ DOMAIN g = {n \in 1..c + 1 : longer[n].side = s}
        /\ \A n \in DOMAIN g : g[n] = longer[n].qty - QtyOf(T, n)
    <2>1. SoldParts(longer, T, s, g)
      BY <1>1, <1>2, <1>5, SoldIsInt
    <2> QED BY <1>1, <2>1 DEF SoldParts
  <1>8. ASSUME NEW n \in DOMAIN f
        PROVE  n \in DOMAIN g /\ g[n] = f[n]
    <2>1. n \in 1..c /\ orders[n].side = s
      BY <1>6
    <2>2. n \in 1..c + 1 /\ longer[n] = orders[n]
      BY <1>1, <2>1
    <2>3. n \in DOMAIN g
      BY <1>7, <2>1, <2>2
    <2> QED BY <1>3, <1>6, <1>7, <2>1, <2>2, <2>3
  <1>9. CASE o.side = s
    <2>1. DOMAIN g = DOMAIN f \cup {c + 1} /\ c + 1 \notin DOMAIN f
      BY <1>1, <1>6, <1>7, <1>9
    <2>2. g[c + 1] = 0
      <3>1. c + 1 \in DOMAIN g
        BY <2>1
      <3>2. g[c + 1] = longer[c + 1].qty - QtyOf(T, c + 1)
        BY <1>7, <3>1
      <3> QED BY <1>1, <1>4, <3>2
    <2>3. Book!SumFunction(g) = Book!SumFunction(f) + g[c + 1] /\ Book!SumFunction(f) \in Int
      <3>1. Book!SumFunction(g) = Book!SumFunction(f) + g[c + 1]
        <4>1. PICK a : a = c + 1
          OBVIOUS
        <4>2. Book!SumFunction(g) = Book!SumFunction(f) + g[a]
          BY <1>6, <1>7, <1>8, <2>1, <4>1, SumAddsOne
        <4> QED BY <4>1, <4>2
      <3>2. PICK h : SumsOf(f, h) /\ Book!SumFunction(f) = h[DOMAIN f]
        BY <1>6, SumIsSums
      <3> QED BY <3>1, <3>2 DEF SumsOf
    <2> QED BY <1>2, <1>5, <2>2, <2>3 DEF TradedOf
  <1>10. CASE o.side # s
    <2>1. DOMAIN g = DOMAIN f
      BY <1>1, <1>6, <1>7, <1>10
    <2>2. g = f
      BY <1>6, <1>7, <1>8, <2>1 DEF IntFunction
    <2> QED BY <1>2, <1>5, <2>2 DEF TradedOf
  <1> QED BY <1>9, <1>10

(* The orders of one side: each in the level of its price, one of each id. *)
InLevels(b) ==
  /\ \A o : o \in RestingOf(b) <=> \E p \in DOMAIN b : \E x \in 1..Len(b[p]) : o = b[p][x]
  /\ \A p \in DOMAIN b : \A x \in 1..Len(b[p]) : b[p][x].price = p /\ b[p][x] \in Orders
OfSide(b, s, n, orders) ==
  /\ \A o \in RestingOf(b) : /\ o \in Orders /\ o.side = s /\ o.id \in 1..n
                             /\ o.price \in DOMAIN b /\ orders[o.id].side = s
  /\ OneOfEach(RestingOf(b))
LEMMA RestingIn ==
  ASSUME NEW b, NEW s, NEW n \in Nat, NEW orders, SideOf(b, s, n, orders)
  PROVE  InLevels(b) /\ OfSide(b, s, n, orders)
  <1>1. \A p \in DOMAIN b : b[p] \in Seq(Orders) /\ DOMAIN b[p] = 1..Len(b[p])
    BY LenProperties DEF SideOf, LevelOf
  <1>2. \A o : o \in RestingOf(b) <=> \E p \in DOMAIN b : \E x \in 1..Len(b[p]) : o = b[p][x]
    BY <1>1 DEF RestingOf, Book!ToSet
  <1>3. ASSUME NEW p \in DOMAIN b, NEW x \in 1..Len(b[p]), NEW o, o = b[p][x]
        PROVE  /\ o \in Orders /\ o.side = s /\ o.id \in 1..n /\ o.price = p
               /\ orders[o.id].side = s /\ orders[o.id].price = p
    <2>1. o \in Orders
      BY <1>1, <1>3, ElementOfSeq
    <2> QED BY <1>3, <2>1 DEF SideOf, LevelOf
  <1>4. ASSUME NEW o \in RestingOf(b)
        PROVE  /\ o \in Orders /\ o.side = s /\ o.id \in 1..n
               /\ o.price \in DOMAIN b /\ orders[o.id].side = s /\ orders[o.id].price = o.price
    <2>1. PICK p \in DOMAIN b : \E x \in 1..Len(b[p]) : o = b[p][x]
      BY <1>2, <1>4
    <2> QED BY <1>3, <2>1
  <1>5. ASSUME NEW o \in RestingOf(b), NEW v \in RestingOf(b), o.id = v.id
        PROVE  o = v
    <2>a. PICK p \in DOMAIN b : \E x \in 1..Len(b[p]) : o = b[p][x]
      BY <1>2, <1>5
    <2>1. PICK x \in 1..Len(b[p]) : o = b[p][x]
      BY <2>a
    <2>b. PICK q \in DOMAIN b : \E y \in 1..Len(b[q]) : v = b[q][y]
      BY <1>2, <1>5
    <2>2. PICK y \in 1..Len(b[q]) : v = b[q][y]
      BY <2>b
    <2>3. p = q
      <3>1. orders[o.id].price = p
        BY <1>3, <2>1
      <3>2. orders[v.id].price = q
        BY <1>3, <2>2
      <3> QED BY <1>5, <3>1, <3>2
    <2>4. \A z, w \in 1..Len(b[p]) : z < w => b[p][z].id < b[p][w].id
      BY DEF SideOf, LevelOf
    <2>5. Len(b[p]) \in Nat /\ o.id \in Nat
      BY <1>1, <1>4, LenProperties
    <2>6. ~(x < y) /\ ~(y < x)
      BY <1>5, <2>1, <2>2, <2>3, <2>4, <2>5
    <2>7. x = y
      BY <2>3, <2>5, <2>6
    <2> QED BY <2>1, <2>2, <2>3, <2>7
  <1> QED BY <1>2, <1>3, <1>4, <1>5 DEF OneOfEach, InLevels, OfSide

(* A level is replaced: the orders at other prices stay. *)
Rests(b, p, l, d) ==
  \A o : o \in RestingOf(d) <=> \/ o \in RestingOf(b) /\ o.price # p
                                \/ \E x \in 1..Len(l) : o = l[x]
LEMMA RestingReplaced ==
  ASSUME NEW b, NEW s, NEW n \in Nat, NEW orders, SideOf(b, s, n, orders), NEW p \in Int,
         NEW l \in Seq(Orders), NEW d, d = Book!WithLevel(b, p, l)
  PROVE  Rests(b, p, l, d)
  <1>1. DOMAIN l = 1..Len(l) /\ (l = <<>> => Len(l) = 0)
    BY LenProperties
  <1>2. /\ DOMAIN d = (DOMAIN b \ {p}) \cup (IF l = <<>> THEN {} ELSE {p})
        /\ \A q \in DOMAIN d : d[q] = IF q = p THEN l ELSE b[q]
    BY DEF Book!WithLevel
  <1>3. /\ \A o : o \in RestingOf(b) <=> \E q \in DOMAIN b : \E x \in 1..Len(b[q]) : o = b[q][x]
        /\ \A q \in DOMAIN b : \A x \in 1..Len(b[q]) : b[q][x].price = q
    <2>1. InLevels(b)
      BY RestingIn
    <2> QED BY <2>1 DEF InLevels
  <1>4. \A q \in DOMAIN d : DOMAIN d[q] = 1..Len(d[q])
    <2>1. \A q \in DOMAIN b : DOMAIN b[q] = 1..Len(b[q])
      BY LenProperties DEF SideOf, LevelOf
    <2> QED BY <1>1, <1>2, <2>1
  <1>5. \A o : o \in RestingOf(d) <=> \E q \in DOMAIN d : \E x \in 1..Len(d[q]) : o = d[q][x]
    BY <1>4 DEF RestingOf, Book!ToSet
  <1>6. ASSUME NEW o, o \in RestingOf(d)
        PROVE  (o \in RestingOf(b) /\ o.price # p) \/ \E x \in 1..Len(l) : o = l[x]
    <2>a. PICK q \in DOMAIN d : \E x \in 1..Len(d[q]) : o = d[q][x]
      BY <1>5, <1>6
    <2>1. PICK x \in 1..Len(d[q]) : o = d[q][x]
      BY <2>a
    <2>2. CASE q = p
      BY <1>2, <2>1, <2>2
    <2>3. CASE q # p
      <3>1. q \in DOMAIN b /\ d[q] = b[q]
        BY <1>2, <2>3
      <3> QED BY <1>3, <2>1, <2>3, <3>1
    <2> QED BY <2>2, <2>3
  <1>7. ASSUME NEW o, o \in RestingOf(b), o.price # p
        PROVE  o \in RestingOf(d)
    <2>a. PICK q \in DOMAIN b : \E x \in 1..Len(b[q]) : o = b[q][x]
      BY <1>3, <1>7
    <2>1. PICK x \in 1..Len(b[q]) : o = b[q][x]
      BY <2>a
    <2>2. q # p /\ q \in DOMAIN d /\ d[q] = b[q]
      BY <1>2, <1>3, <1>7, <2>1
    <2> QED BY <1>5, <2>1, <2>2
  <1>8. ASSUME NEW o, NEW x \in 1..Len(l), o = l[x]
        PROVE  o \in RestingOf(d)
    <2>1. l # <<>>
      BY <1>1
    <2>2. p \in DOMAIN d /\ d[p] = l
      BY <1>2, <2>1
    <2> QED BY <1>5, <1>8, <2>2
  <1> QED BY <1>6, <1>7, <1>8 DEF Rests

(* The parts of the book and of its properties. *)
OpenOrders(b, a, o) == RestingOf(b) \cup RestingOf(a) \cup (IF o = Book!NoOrder THEN {} ELSE {o})
Uncrossed == \A p \in DOMAIN bids_, q \in DOMAIN asks_ : p < q
SoundInv ==
  /\ BookInv /\ Uncrossed
  /\ order # Book!NoOrder => order.qty >= 0
  /\ TradedOf(sent, OpenOrders(bids_, asks_, order), "Buy")
     = TradedOf(sent, OpenOrders(bids_, asks_, order), "Sell")

LEMMA OpenIsOpen ==
  /\ Book!Open = OpenOrders(bids_, asks_, order)
  /\ \A s : Book!Traded(s) = TradedOf(sent, OpenOrders(bids_, asks_, order), s)
  <1>1. Book!Resting("Buy") = RestingOf(bids_) /\ Book!Resting("Sell") = RestingOf(asks_)
    BY DEF Book!Resting, Book!Book, RestingOf
  <1>2. Book!Open = OpenOrders(bids_, asks_, order)
    BY <1>1 DEF Book!Open, OpenOrders
  <1> QED BY <1>2 DEF Book!Traded, Book!OpenOf, TradedOf, SoldOf, QtyOf

(* One of each id is open, and has the side it was sent with. *)
LEMMA OneOpenOfEach ==
  ASSUME BookInv, NEW S, S = OpenOrders(bids_, asks_, order)
  PROVE  /\ OneOfEach(S) /\ sent \in Seq(Orders) /\ Len(sent) \in Nat /\ Added \in Nat
         /\ \A o \in S : o.id \in 1..Len(sent) /\ sent[o.id].side = o.side
         /\ \A o \in RestingOf(bids_) : o.side = "Buy" /\ o.id \in 1..Added
         /\ \A o \in RestingOf(asks_) : o.side = "Sell" /\ o.id \in 1..Added
         /\ order # Book!NoOrder => order \in S /\ order \notin RestingOf(bids_) \cup RestingOf(asks_)
  <1>1. /\ sent \in Seq(Orders) /\ Len(sent) \in Nat /\ Added \in Nat /\ Added <= Len(sent)
        /\ order # Book!NoOrder => /\ order \in Orders /\ order.id = Len(sent) /\ Added = Len(sent) - 1
                                   /\ order.id \in 1..Len(sent)
                                   /\ sent[order.id].side = order.side
    BY LenProperties DEF BookInv, BookTypes, Added
  <1>2. SideOf(bids_, "Buy", Added, sent) /\ SideOf(asks_, "Sell", Added, sent)
    BY DEF BookInv
  <1>3. /\ OneOfEach(RestingOf(bids_))
        /\ \A o \in RestingOf(bids_) : o \in Orders /\ o.side = "Buy" /\ o.id \in 1..Added
                                       /\ sent[o.id].side = "Buy"
    <2>1. OfSide(bids_, "Buy", Added, sent)
      BY <1>1, <1>2, RestingIn
    <2> QED BY <2>1 DEF OfSide
  <1>4. /\ OneOfEach(RestingOf(asks_))
        /\ \A o \in RestingOf(asks_) : o \in Orders /\ o.side = "Sell" /\ o.id \in 1..Added
                                       /\ sent[o.id].side = "Sell"
    <2>1. OfSide(asks_, "Sell", Added, sent)
      BY <1>1, <1>2, RestingIn
    <2> QED BY <2>1 DEF OfSide
  <1>5. \A o \in RestingOf(bids_) \cup RestingOf(asks_) :
          o.id \in 1..Len(sent) /\ sent[o.id].side = o.side /\ o.id <= Added
    BY <1>1, <1>3, <1>4
  <1>6. order # Book!NoOrder =>
          order \in S /\ \A o \in RestingOf(bids_) \cup RestingOf(asks_) : o.id # order.id
    <2>1. \A o \in RestingOf(bids_) \cup RestingOf(asks_) : o.id \in Int /\ o.id <= Added
      BY <1>1, <1>5
    <2> QED BY <1>1, <2>1 DEF OpenOrders
  <1>7. OneOfEach(S)
    <2>1. S \subseteq Orders
      BY <1>1, <1>3, <1>4 DEF OpenOrders
    <2>2. ASSUME NEW x \in S, NEW y \in S, x.id = y.id
          PROVE  x = y
      <3>1. CASE x \in RestingOf(bids_) /\ y \in RestingOf(bids_)
        BY <1>3, <2>2, <3>1 DEF OneOfEach
      <3>2. CASE x \in RestingOf(asks_) /\ y \in RestingOf(asks_)
        BY <1>4, <2>2, <3>2 DEF OneOfEach
      <3>3. ~(x \in RestingOf(bids_) /\ y \in RestingOf(asks_))
            /\ ~(x \in RestingOf(asks_) /\ y \in RestingOf(bids_))
        BY <1>3, <1>4, <2>2
      <3>4. CASE order # Book!NoOrder /\ (x = order \/ y = order)
        BY <1>6, <2>2, <3>4 DEF OpenOrders
      <3> QED BY <3>1, <3>2, <3>3, <3>4 DEF OpenOrders
    <2> QED BY <2>1, <2>2 DEF OneOfEach
  <1>8. \A o \in S : o.id \in 1..Len(sent) /\ sent[o.id].side = o.side
    BY <1>1, <1>5 DEF OpenOrders
  <1> QED BY <1>1, <1>3, <1>4, <1>6, <1>7, <1>8

LEMMA SoundStarts == Init => SoundInv
  <1> SUFFICES ASSUME Init PROVE SoundInv
    OBVIOUS
  <1>1. /\ bids_ = [p \in {} |-> <<>>] /\ asks_ = [p \in {} |-> <<>>]
        /\ order = Book!NoOrder /\ sent = <<>>
    BY DEF Init, Book!Init
  <1>2. BookInv /\ Uncrossed
    BY <1>1, BookInit DEF Uncrossed
  <1>3. \A S, s : TradedOf(sent, S, s) = 0
    <2>1. SUFFICES ASSUME NEW S, NEW s PROVE TradedOf(sent, S, s) = 0
      OBVIOUS
    <2>2. PICK f : f = SoldOf(sent, S, s)
      OBVIOUS
    <2>3. f \in [{} -> Int]
      BY <1>1, <2>2 DEF SoldOf
    <2> QED BY <2>2, <2>3, SumOfNone DEF TradedOf
  <1> QED BY <1>1, <1>2, <1>3 DEF SoundInv

LEMMA SoundArrives ==
  ASSUME SoundInv, Book!add_order
  PROVE  SoundInv'
  <1>1. BookInv /\ BookInv' /\ Uncrossed
    BY OrderArrives DEF SoundInv
  <1>2. PICK s \in {"Buy", "Sell"}, p \in Prices, q \in Quantities :
          order' = [id |-> Len(sent) + 1, side |-> s, price |-> p, qty |-> q]
    BY DEF Book!add_order
  <1>3. /\ order = Book!NoOrder /\ sent' = Append(sent, order')
        /\ bids_' = bids_ /\ asks_' = asks_
    BY DEF Book!add_order
  <1>4. PICK S : S = OpenOrders(bids_, asks_, order)
    OBVIOUS
  <1>5. /\ OneOfEach(S) /\ sent \in Seq(Orders) /\ Len(sent) \in Nat
        /\ \A o \in S : o.id \in 1..Len(sent)
    BY <1>1, <1>4, OneOpenOfEach
  <1>6. order' \in Orders /\ order'.id = Len(sent) + 1 /\ order'.qty >= 0
    BY <1>2, <1>5, BookAssumption DEF Orders
  <1>7. PICK T : T = S \cup {order'}
    OBVIOUS
  <1>8. \A z : TradedOf(sent', T, z) = TradedOf(sent, S, z)
    <2>1. PICK c, longer : c = order' /\ longer = Append(sent, c)
      OBVIOUS
    <2>2. JustSent(sent, S, c, longer, T)
      BY <1>5, <1>6, <1>7, <2>1 DEF JustSent
    <2>3. ASSUME NEW z
          PROVE  TradedOf(longer, T, z) = TradedOf(sent, S, z)
      BY <2>2, TradedNew
    <2> QED BY <1>3, <2>1, <2>3
  <1>9. T = OpenOrders(bids_', asks_', order')
    <2>1. Book!NoOrder.id = 0
      BY DEF Book!NoOrder
    <2>2. order' # Book!NoOrder
      BY <1>5, <1>6, <2>1
    <2> QED BY <1>3, <1>4, <1>7, <2>2 DEF OpenOrders
  <1>10. TradedOf(sent', T, "Buy") = TradedOf(sent', T, "Sell")
    BY <1>4, <1>8 DEF SoundInv
  <1> QED BY <1>1, <1>3, <1>6, <1>9, <1>10 DEF SoundInv, Uncrossed

(* What is left of the order joins the level of its price; the book is not *)
(* crossed by it, because the order crosses no price of the other side.    *)
LEMMA SoundRests ==
  ASSUME SoundInv, Book!Rest
  PROVE  SoundInv'
  <1>1. BookInv /\ BookInv' /\ Uncrossed
    BY OrderRests DEF SoundInv
  <1>2. /\ order # Book!NoOrder /\ order' = Book!NoOrder /\ sent' = sent
        /\ order \in Orders /\ order.qty >= 0 /\ ~Book!Crosses(order)
    BY <1>1 DEF Book!Rest, BookInv, BookTypes, SoundInv
  <1>3. PICK S : S = OpenOrders(bids_, asks_, order)
    OBVIOUS
  <1>4. /\ OneOfEach(S) /\ sent \in Seq(Orders) /\ Added \in Nat /\ order \in S
        /\ order \notin RestingOf(bids_) \cup RestingOf(asks_)
    BY <1>1, <1>2, <1>3, OneOpenOfEach
  <1>5. TradedOf(sent, S, "Buy") = TradedOf(sent, S, "Sell")
    BY <1>3 DEF SoundInv
  <1>6. CASE ~(order.qty > 0)
    <2>1. bids_' = bids_ /\ asks_' = asks_
      BY <1>6 DEF Book!Rest
    <2>2. PICK T : T = S \ {order}
      OBVIOUS
    <2>3. T = OpenOrders(bids_', asks_', order')
      BY <1>2, <1>3, <1>4, <2>1, <2>2 DEF OpenOrders
    <2>4. OneOfEach(T)
      BY <1>4, <2>2 DEF OneOfEach
    <2>5. ASSUME NEW n
          PROVE  QtyOf(T, n) = QtyOf(S, n)
      <3>1. CASE n = order.id
        <4>1. QtyOf(S, n) = order.qty /\ order.qty = 0
          <5>1. QtyOf(S, n) = order.qty
            BY <1>4, <3>1, QtyOfOrder
          <5>2. order.qty \in Int
            BY <1>2 DEF Orders
          <5> QED BY <1>2, <1>6, <5>1, <5>2
        <4>2. \A o \in T : o.id # n
          BY <1>4, <2>2, <3>1 DEF OneOfEach
        <4> QED BY <2>4, <4>1, <4>2, QtyOfOrder
      <3>2. CASE n # order.id
        <4>1. {o \in T : o.id = n} = {o \in S : o.id = n}
          BY <2>2, <3>2
        <4> QED BY <4>1 DEF QtyOf
      <3> QED BY <3>1, <3>2
    <2>6. \A s : TradedOf(sent, T, s) = TradedOf(sent, S, s)
      BY <1>4, <2>4, <2>5, TradedStays
    <2>7. TradedOf(sent', T, "Buy") = TradedOf(sent', T, "Sell")
      BY <1>2, <1>5, <2>6
    <2> QED BY <1>1, <1>2, <2>1, <2>3, <2>7 DEF SoundInv, Uncrossed
  <1>7. CASE order.qty > 0
    <2>1. PICK b, s, p : b = Book!Book(order.side) /\ s = order.side /\ p = order.price
      OBVIOUS
    <2>2. s \in {"Buy", "Sell"} /\ p \in Int /\ SideOf(b, s, Added, sent)
      BY <1>1, <1>2, <2>1 DEF Orders, Book!Book, BookInv
    <2>3. PICK l : l = IF p \in DOMAIN b THEN b[p] ELSE <<>>
      OBVIOUS
    <2>4. PICK t : t = Append(l, order)
      OBVIOUS
    <2>5. PICK d : d = Book!WithLevel(b, p, t)
      OBVIOUS
    <2>6. Book!SetBook(s, d)
      BY <1>7, <2>1, <2>3, <2>4, <2>5 DEF Book!Rest
    <2>7. l \in Seq(Orders) /\ (p \notin DOMAIN b => Len(l) = 0)
      BY <2>2, <2>3, EmptySeq, LenProperties DEF SideOf, LevelOf
    <2>8. /\ t \in Seq(Orders) /\ Len(l) \in Nat /\ Len(t) = Len(l) + 1
          /\ \A x \in 1..Len(l) : t[x] = l[x]
          /\ t[Len(l) + 1] = order /\ t # <<>>
      BY <1>2, <2>4, <2>7, AppendProperties, LenProperties
    <2>9. RestingOf(d) = RestingOf(b) \cup {order}
      <3>1. \A o : o \in RestingOf(d) <=> \/ o \in RestingOf(b) /\ o.price # p
                                          \/ \E x \in 1..Len(t) : o = t[x]
        <4>1. Rests(b, p, t, d)
          BY <1>4, <2>2, <2>5, <2>8, RestingReplaced
        <4> QED BY <4>1 DEF Rests
      <3>2. InLevels(b)
        BY <1>4, <2>2, RestingIn
      <3>3. \A o : (o \in RestingOf(b) /\ o.price = p) <=> \E x \in 1..Len(l) : o = l[x]
        BY <2>3, <2>7, <3>2 DEF InLevels
      <3>4. \A o : (\E x \in 1..Len(t) : o = t[x]) <=> o = order \/ \E x \in 1..Len(l) : o = l[x]
        <4>1. \A x \in 1..Len(t) : x \in 1..Len(l) \/ x = Len(l) + 1
          BY <2>8
        <4>2. Len(l) + 1 \in 1..Len(t) /\ \A x \in 1..Len(l) : x \in 1..Len(t)
          BY <2>8
        <4> QED BY <2>8, <4>1, <4>2
      <3> QED BY <3>1, <3>3, <3>4
    <2>10. OpenOrders(bids_', asks_', order') = S
      BY <1>2, <1>3, <2>1, <2>2, <2>6, <2>9 DEF OpenOrders, Book!SetBook, Book!Book
    <2>11. DOMAIN d = DOMAIN b \cup {p}
      <3>1. DOMAIN d = (DOMAIN b \ {p}) \cup {p}
        BY <2>5, <2>8 DEF Book!WithLevel
      <3> QED BY <3>1
    <2>12. CASE s = "Buy"
      <3>1. bids_' = d /\ asks_' = asks_ /\ b = bids_
        BY <2>1, <2>6, <2>12 DEF Book!SetBook, Book!Book
      <3>2. ASSUME NEW w \in DOMAIN asks_
            PROVE  p < w
        <4>1. IsFiniteSet(DOMAIN asks_) /\ DOMAIN asks_ \subseteq Int /\ DOMAIN asks_ # {}
          BY <1>1, <3>2 DEF BookInv, SideOf
        <4>2. PICK m : m = Book!Min(DOMAIN asks_)
          OBVIOUS
        <4>3. m \in DOMAIN asks_ /\ \A u \in DOMAIN asks_ : m <= u
          BY <4>1, <4>2, LeastOfFinite DEF Book!Min
        <4>4. ~(m <= p)
          BY <1>2, <1>7, <2>1, <2>12, <4>1, <4>2 DEF Book!Crosses, Book!Opposite, Book!Best
        <4> QED BY <2>2, <4>1, <4>3, <4>4
      <3>3. Uncrossed'
        BY <1>1, <2>11, <3>1, <3>2 DEF Uncrossed
      <3> QED BY <1>1, <1>2, <1>5, <2>10, <3>3 DEF SoundInv
    <2>13. CASE s = "Sell"
      <3>1. asks_' = d /\ bids_' = bids_ /\ b = asks_
        BY <2>1, <2>6, <2>13 DEF Book!SetBook, Book!Book
      <3>2. ASSUME NEW w \in DOMAIN bids_
            PROVE  w < p
        <4>1. IsFiniteSet(DOMAIN bids_) /\ DOMAIN bids_ \subseteq Int /\ DOMAIN bids_ # {}
          BY <1>1, <3>2 DEF BookInv, SideOf
        <4>2. PICK m : m = Book!Max(DOMAIN bids_)
          OBVIOUS
        <4>3. m \in DOMAIN bids_ /\ \A u \in DOMAIN bids_ : m >= u
          BY <4>1, <4>2, GreatestOfFinite DEF Book!Max
        <4>4. ~(m >= p)
          BY <1>2, <1>7, <2>1, <2>13, <4>1, <4>2 DEF Book!Crosses, Book!Opposite, Book!Best
        <4> QED BY <2>2, <4>1, <4>3, <4>4
      <3>3. Uncrossed'
        BY <1>1, <2>11, <3>1, <3>2 DEF Uncrossed
      <3> QED BY <1>1, <1>2, <1>5, <2>10, <3>3 DEF SoundInv
    <2> QED BY <2>2, <2>12, <2>13
  <1> QED BY <1>6, <1>7

(* A fill takes its quantity off what is open of the two orders.           *)
Exchanged(S, T, r, o, q, v, w) ==
  /\ OneOfEach(S) /\ r \in S /\ o \in S /\ r.id # o.id /\ q \in Int
  /\ v \in Orders /\ v.id = o.id /\ v.qty = o.qty - q
  /\ w \in Orders /\ w.id = r.id /\ w.qty = r.qty - q
  /\ T = (S \ {r, o}) \cup {v} \cup (IF r.qty = q THEN {} ELSE {w})
QtysExchanged(S, T, a, c, q) ==
  /\ OneOfEach(T) /\ QtyOf(T, a) = QtyOf(S, a) - q /\ QtyOf(T, c) = QtyOf(S, c) - q
  /\ \A n : n # a /\ n # c => QtyOf(T, n) = QtyOf(S, n)
LEMMA FillTakes ==
  ASSUME NEW S, NEW T, NEW r, NEW o, NEW q, NEW v, NEW w, Exchanged(S, T, r, o, q, v, w)
  PROVE  QtysExchanged(S, T, r.id, o.id, q)
  <1>1. /\ OneOfEach(S) /\ r \in S /\ o \in S /\ r.id # o.id /\ q \in Int
        /\ v \in Orders /\ v.id = o.id /\ v.qty = o.qty - q
        /\ w \in Orders /\ w.id = r.id /\ w.qty = r.qty - q
    BY DEF Exchanged
  <1>2. T = (S \ {r, o}) \cup {v} \cup (IF r.qty = q THEN {} ELSE {w})
    BY DEF Exchanged
  <1>3. \A x \in S : (x.id = r.id => x = r) /\ (x.id = o.id => x = o) /\ x \in Orders
    BY <1>1 DEF OneOfEach
  <1>4. \A x \in T : (x.id = r.id => x = w /\ r.qty # q) /\ (x.id = o.id => x = v) /\ x \in Orders
    BY <1>1, <1>2, <1>3
  <1>5. OneOfEach(T)
    <2>1. ASSUME NEW x \in T, NEW y \in T, x.id = y.id
          PROVE  x = y
      <3>1. CASE x.id = r.id \/ x.id = o.id
        BY <1>4, <2>1, <3>1
      <3>2. CASE x.id # r.id /\ x.id # o.id
        <4>1. x \in S /\ y \in S
          BY <1>1, <1>2, <2>1, <3>2
        <4> QED BY <1>1, <2>1, <4>1 DEF OneOfEach
      <3> QED BY <3>1, <3>2
    <2> QED BY <1>4, <2>1 DEF OneOfEach
  <1>6. QtyOf(S, r.id) = r.qty /\ QtyOf(S, o.id) = o.qty /\ r.qty \in Int /\ o.qty \in Int
    BY <1>1, QtyOfOrder
  <1>7. QtyOf(T, r.id) = QtyOf(S, r.id) - q
    <2>1. CASE r.qty = q
      <3>1. \A x \in T : x.id # r.id
        BY <1>4, <2>1
      <3>2. QtyOf(T, r.id) = 0
        BY <1>5, <3>1, QtyOfOrder
      <3> QED BY <1>1, <1>6, <2>1, <3>2
    <2>2. CASE r.qty # q
      <3>1. w \in T
        BY <1>2, <2>2
      <3>2. QtyOf(T, w.id) = w.qty
        BY <1>5, <3>1, QtyOfOrder
      <3> QED BY <1>1, <1>6, <3>2
    <2> QED BY <2>1, <2>2
  <1>8. QtyOf(T, o.id) = QtyOf(S, o.id) - q
    <2>1. v \in T
      BY <1>2
    <2>2. QtyOf(T, v.id) = v.qty
      BY <1>5, <2>1, QtyOfOrder
    <2> QED BY <1>1, <1>6, <2>2
  <1>9. ASSUME NEW n, n # r.id, n # o.id
        PROVE  QtyOf(T, n) = QtyOf(S, n)
    <2>1. {x \in T : x.id = n} = {x \in S : x.id = n}
      BY <1>1, <1>2, <1>9
    <2> QED BY <2>1 DEF QtyOf
  <1> QED BY <1>5, <1>7, <1>8, <1>9 DEF QtysExchanged

(* The orders left in the level of the fill. *)
LeavesOf(l, r, q, w, t) ==
  /\ r = l[1] /\ w = [r EXCEPT !.qty = r.qty - q]
  /\ t = IF r.qty = q THEN Tail(l) ELSE [l EXCEPT ![1].qty = @ - q]
IsLeft(l, r, q, w, t) ==
  \A o : (\E x \in 1..Len(t) : o = t[x]) <=>
            \/ o # r /\ \E x \in 1..Len(l) : o = l[x]
            \/ r.qty # q /\ o = w
LEMMA LeftInLevel ==
  ASSUME NEW l, NEW s, NEW p, NEW n, NEW orders, LevelOf(l, s, p, n, orders), NEW q \in Int,
         NEW r, NEW w, NEW t, LeavesOf(l, r, q, w, t)
  PROVE  IsLeft(l, r, q, w, t)
  <1>1. PICK c : c = Len(l)
    OBVIOUS
  <1>2. l \in Seq(Orders) /\ l # <<>> /\ c \in Nat /\ 1 \in 1..c /\ r \in Orders
    BY <1>1, EmptySeq, LenProperties, ElementOfSeq DEF LevelOf, LeavesOf
  <1>a. \A x, y \in 1..c : x < y => l[x].id < l[y].id
    BY <1>1 DEF LevelOf
  <1>b. r = l[1]
    BY DEF LeavesOf
  <1>3. \A x \in 1..c : x # 1 => l[x] # r
    <2>1. SUFFICES ASSUME NEW x \in 1..c, x # 1 PROVE l[x] # r
      OBVIOUS
    <2>2. 1 < x
      BY <1>2, <2>1
    <2>3. r.id < l[x].id
      BY <1>2, <1>a, <1>b, <2>1, <2>2
    <2>4. r.id \in Int
      BY <1>2 DEF Orders
    <2> QED BY <2>3, <2>4
  <1>4. CASE r.qty = q
    <2>0. t = Tail(l)
      BY <1>4 DEF LeavesOf
    <2>1. Len(t) = c - 1 /\ \A x \in 1..c - 1 : t[x] = l[x + 1]
      BY <1>1, <1>2, <2>0, HeadTailProperties
    <2>2. \A o : (\E x \in 1..c - 1 : o = l[x + 1]) <=> \E y \in 1..c : y # 1 /\ o = l[y]
      <3>1. ASSUME NEW o, NEW x \in 1..c - 1, o = l[x + 1]
            PROVE  \E y \in 1..c : y # 1 /\ o = l[y]
        <4>1. x + 1 \in 1..c /\ x + 1 # 1
          BY <1>2
        <4> QED BY <3>1, <4>1
      <3>2. ASSUME NEW o, NEW y \in 1..c, y # 1, o = l[y]
            PROVE  \E x \in 1..c - 1 : o = l[x + 1]
        <4>1. y - 1 \in 1..c - 1 /\ (y - 1) + 1 = y
          BY <1>2, <3>2
        <4> QED BY <3>2, <4>1
      <3> QED BY <3>1, <3>2
    <2>3. \A o : (\E x \in 1..Len(t) : o = t[x]) <=> \E y \in 1..c : y # 1 /\ o = l[y]
      <3>1. ASSUME NEW o
            PROVE  (\E x \in 1..Len(t) : o = t[x]) <=> \E x \in 1..c - 1 : o = l[x + 1]
        BY <2>1
      <3> QED BY <2>2, <3>1
    <2>4. \A o : (\E y \in 1..c : y # 1 /\ o = l[y]) <=> o # r /\ \E x \in 1..c : o = l[x]
      BY <1>3, <1>b
    <2>5. ASSUME NEW o
          PROVE  (\E x \in 1..Len(t) : o = t[x]) <=>
                    \/ o # r /\ \E x \in 1..Len(l) : o = l[x]
                    \/ r.qty # q /\ o = w
      <3>1. (\E x \in 1..Len(l) : o = l[x]) <=> \E x \in 1..c : o = l[x]
        BY <1>1
      <3>2. (\E x \in 1..Len(t) : o = t[x]) <=> o # r /\ \E x \in 1..c : o = l[x]
        BY <2>3, <2>4
      <3> QED BY <1>4, <3>1, <3>2
    <2> QED BY <2>5 DEF IsLeft
  <1>5. CASE r.qty # q
    <2>1. w \in Orders /\ t = [l EXCEPT ![1] = w]
      <3>1. w \in Orders
        <4>1. w = [r EXCEPT !.qty = r.qty - q]
          BY DEF LeavesOf
        <4>2. r \in Orders /\ r.qty - q \in Int
          BY <1>2 DEF Orders
        <4> QED BY <4>1, <4>2 DEF Orders
      <3>2. t = [l EXCEPT ![1] = [l[1] EXCEPT !.qty = l[1].qty - q]]
        BY <1>2, <1>5 DEF LeavesOf
      <3>3. w = [l[1] EXCEPT !.qty = l[1].qty - q]
        BY <1>b DEF LeavesOf
      <3> QED BY <3>1, <3>2, <3>3
    <2>2. Len(t) = c /\ \A x \in 1..c : t[x] = IF x = 1 THEN w ELSE l[x]
      BY <1>1, <1>2, <2>1, ExceptSeq
    <2>3. \A o : (\E x \in 1..Len(t) : o = t[x]) <=> o = w \/ \E y \in 1..c : y # 1 /\ o = l[y]
      BY <1>2, <2>2
    <2>4. \A o : (\E y \in 1..c : y # 1 /\ o = l[y]) <=> o # r /\ \E x \in 1..c : o = l[x]
      BY <1>3, <1>b
    <2>5. ASSUME NEW o
          PROVE  (\E x \in 1..Len(t) : o = t[x]) <=>
                    \/ o # r /\ \E x \in 1..Len(l) : o = l[x]
                    \/ r.qty # q /\ o = w
      <3>1. (\E x \in 1..Len(l) : o = l[x]) <=> \E x \in 1..c : o = l[x]
        BY <1>1
      <3>2. (\E x \in 1..Len(t) : o = t[x]) <=> o = w \/ (o # r /\ \E x \in 1..c : o = l[x])
        BY <2>3, <2>4
      <3> QED BY <1>5, <3>1, <3>2
    <2> QED BY <2>5 DEF IsLeft
  <1> QED BY <1>4, <1>5

(* What rests on the side of the fill afterwards. *)
LEMMA RestingAfterFill ==
  ASSUME Added \in Nat, NEW b, NEW m, NEW s, NEW l, NEW r, NEW q, NEW t, NEW d,
         FillWith(b, m, s, l, r, q, t, d), NEW w, w = [r EXCEPT !.qty = r.qty - q]
  PROVE  /\ r \in RestingOf(b)
         /\ RestingOf(d) = (RestingOf(b) \ {r}) \cup (IF r.qty = q THEN {} ELSE {w})
  <1>1. /\ SideOf(b, s, Added, sent) /\ m \in Int /\ m \in DOMAIN b /\ l = b[m] /\ r = l[1]
        /\ r.price = m /\ r \in Orders /\ q \in Int /\ t \in Seq(Orders)
        /\ d = Book!WithLevel(b, m, t)
    BY DEF FillWith
  <1>2. \A o : o \in RestingOf(d) <=> \/ o \in RestingOf(b) /\ o.price # m
                                      \/ \E x \in 1..Len(t) : o = t[x]
    <2>1. PICK a : a = Added
      OBVIOUS
    <2>2. SideOf(b, s, a, sent) /\ a \in Nat
      BY <1>1, <2>1
    <2>3. Rests(b, m, t, d)
      BY <1>1, <2>2, RestingReplaced
    <2> QED BY <2>3 DEF Rests
  <1>3. IsLeft(l, r, q, w, t)
    <2>1. LevelOf(l, s, m, Added, sent)
      BY <1>1 DEF SideOf
    <2>2. LeavesOf(l, r, q, w, t)
      BY DEF LeavesOf, FillWith
    <2> QED BY <1>1, <2>1, <2>2, LeftInLevel
  <1>4. InLevels(b)
    BY <1>1, RestingIn
  <1>5. \A o : (\E x \in 1..Len(l) : o = l[x]) <=> o \in RestingOf(b) /\ o.price = m
    BY <1>1, <1>4 DEF InLevels
  <1>6. r \in RestingOf(b)
    <2>1. 1 \in 1..Len(l)
      BY <1>1, EmptySeq, LenProperties DEF SideOf, LevelOf
    <2> QED BY <1>1, <1>5, <2>1
  <1>7. \A o : o \in RestingOf(d) <=> \/ o \in RestingOf(b) /\ o # r
                                      \/ r.qty # q /\ o = w
    <2>1. ASSUME NEW o
          PROVE  o \in RestingOf(d) <=> \/ o \in RestingOf(b) /\ o # r
                                        \/ r.qty # q /\ o = w
      <3>1. (\E x \in 1..Len(t) : o = t[x]) <=>
              \/ o # r /\ \E x \in 1..Len(l) : o = l[x]
              \/ r.qty # q /\ o = w
        BY <1>3 DEF IsLeft
      <3> QED BY <1>1, <1>2, <1>5, <3>1
    <2> QED BY <2>1
  <1> QED BY <1>6, <1>7

LEMMA SoundFills ==
  ASSUME SoundInv, Book!Match
  PROVE  SoundInv'
  <1>1. BookInv /\ BookInv' /\ Uncrossed /\ order # Book!NoOrder
    BY FillIsRight DEF SoundInv, Book!Match
  <1>2. PICK b, m, s, l, r, q, t, d : FillWith(b, m, s, l, r, q, t, d) /\ FilledWith(s, r, q, d)
    BY <1>1, FillParts
  <1>3. PICK S : S = OpenOrders(bids_, asks_, order)
    OBVIOUS
  <1>4. /\ OneOfEach(S) /\ sent \in Seq(Orders) /\ Added \in Nat /\ order \in S
        /\ \A o \in S : o.id \in 1..Len(sent) /\ sent[o.id].side = o.side
        /\ order \notin RestingOf(bids_) \cup RestingOf(asks_)
        /\ \A o \in RestingOf(bids_) : o.side = "Buy"
        /\ \A o \in RestingOf(asks_) : o.side = "Sell"
    BY <1>1, <1>3, OneOpenOfEach
  <1>5. TradedOf(sent, S, "Buy") = TradedOf(sent, S, "Sell")
    BY <1>3 DEF SoundInv
  <1>6. PICK w : w = [r EXCEPT !.qty = r.qty - q]
    OBVIOUS
  <1>7. /\ r \in RestingOf(b)
        /\ RestingOf(d) = (RestingOf(b) \ {r}) \cup (IF r.qty = q THEN {} ELSE {w})
    BY <1>2, <1>4, <1>6, RestingAfterFill
  <1>8. /\ s = (IF order.side = "Buy" THEN "Sell" ELSE "Buy") /\ b = Book!Opposite(order)
        /\ r \in Orders /\ r.side = s /\ q \in Int /\ q <= order.qty /\ order \in Orders
        /\ m \in DOMAIN b /\ \A p \in DOMAIN d : p # m => p \in DOMAIN b
    BY <1>2 DEF FillWith
  <1>9. /\ sent' = sent /\ order' \in Orders /\ order'.id = order.id
        /\ order'.qty = order.qty - q /\ order' # Book!NoOrder /\ Book!SetBook(s, d)
    BY <1>2 DEF FilledWith
  <1>10. order.side \in {"Buy", "Sell"} /\ order.qty \in Int
    BY <1>8 DEF Orders
  <1>11. order'.qty >= 0
    BY <1>8, <1>9, <1>10
  <1>12. Uncrossed'
    <2>1. DOMAIN d \subseteq DOMAIN b
      BY <1>8
    <2>2. \/ bids_' = bids_ /\ asks_' = d /\ b = asks_
          \/ asks_' = asks_ /\ bids_' = d /\ b = bids_
      BY <1>8, <1>9, <1>10 DEF Book!SetBook, Book!Opposite
    <2> QED BY <1>1, <2>1, <2>2 DEF Uncrossed
  <1>13. PICK v : v = order'
    OBVIOUS
  <1>14. PICK T : T = (S \ {r, order}) \cup {v} \cup (IF r.qty = q THEN {} ELSE {w})
    OBVIOUS
  <1>15. r \in S /\ r.id # order.id
    <2>1. r \in RestingOf(bids_) \cup RestingOf(asks_)
      BY <1>7, <1>8 DEF Book!Opposite
    <2> QED BY <1>3, <1>4, <2>1 DEF OpenOrders, OneOfEach
  <1>16. T = OpenOrders(bids_', asks_', order')
    <2>1. OpenOrders(bids_', asks_', order') = RestingOf(bids_') \cup RestingOf(asks_') \cup {v}
      BY <1>9, <1>13 DEF OpenOrders
    <2>2. S = RestingOf(bids_) \cup RestingOf(asks_) \cup {order}
      BY <1>1, <1>3 DEF OpenOrders
    <2>3. CASE order.side = "Buy"
      <3>1. s = "Sell" /\ b = asks_ /\ bids_' = bids_ /\ asks_' = d
        BY <1>8, <1>9, <2>3 DEF Book!SetBook, Book!Opposite
      <3>2. r \notin RestingOf(bids_)
        BY <1>4, <1>8, <3>1
      <3> QED BY <1>4, <1>7, <1>14, <2>1, <2>2, <3>1, <3>2
    <2>4. CASE order.side = "Sell"
      <3>1. s = "Buy" /\ b = bids_ /\ asks_' = asks_ /\ bids_' = d
        BY <1>8, <1>9, <2>4 DEF Book!SetBook, Book!Opposite
      <3>2. r \notin RestingOf(asks_)
        BY <1>4, <1>8, <3>1
      <3> QED BY <1>4, <1>7, <1>14, <2>1, <2>2, <3>1, <3>2
    <2> QED BY <1>10, <2>3, <2>4
  <1>17. PICK o : o = order
    OBVIOUS
  <1>18. QtysExchanged(S, T, r.id, o.id, q)
    <2>1. w \in Orders /\ w.id = r.id /\ w.qty = r.qty - q
      <3>1. r \in Orders /\ r.qty - q \in Int
        BY <1>8 DEF Orders
      <3> QED BY <1>6, <3>1 DEF Orders
    <2>2. Exchanged(S, T, r, o, q, v, w)
      BY <1>4, <1>8, <1>9, <1>13, <1>14, <1>15, <1>17, <2>1 DEF Exchanged
    <2> QED BY <2>2, FillTakes
  <1>19. /\ OneOfEach(T) /\ QtyOf(T, r.id) = QtyOf(S, r.id) - q
         /\ QtyOf(T, o.id) = QtyOf(S, o.id) - q
         /\ \A n : n # r.id /\ n # o.id => QtyOf(T, n) = QtyOf(S, n)
    BY <1>18 DEF QtysExchanged
  <1>20. /\ r.id \in 1..Len(sent) /\ sent[r.id].side = s
         /\ o.id \in 1..Len(sent) /\ sent[o.id].side = o.side /\ o.side # s
    BY <1>4, <1>8, <1>10, <1>15, <1>17
  <1>21. TradedOf(sent, T, s) = TradedOf(sent, S, s) + q
    <2>1. \A n \in 1..Len(sent) : sent[n].side = s /\ n # r.id => QtyOf(T, n) = QtyOf(S, n)
      BY <1>19, <1>20
    <2>2. SoldMore(sent, S, T, r.id, q, s)
      BY <1>4, <1>8, <1>19, <1>20, <2>1 DEF SoldMore
    <2> QED BY <2>2, TradedMore
  <1>22. TradedOf(sent, T, o.side) = TradedOf(sent, S, o.side) + q
    <2>1. \A n \in 1..Len(sent) : sent[n].side = o.side /\ n # o.id => QtyOf(T, n) = QtyOf(S, n)
      BY <1>19, <1>20
    <2>2. SoldMore(sent, S, T, o.id, q, o.side)
      BY <1>4, <1>8, <1>19, <1>20, <2>1 DEF SoldMore
    <2> QED BY <2>2, TradedMore
  <1>23. TradedOf(sent', T, "Buy") = TradedOf(sent', T, "Sell")
    BY <1>5, <1>8, <1>9, <1>10, <1>17, <1>21, <1>22
  <1> QED BY <1>1, <1>11, <1>12, <1>16, <1>23 DEF SoundInv

LEMMA SoundStep ==
  ASSUME SoundInv, [Next]_vars
  PROVE  SoundInv'
  <1>1. CASE UseBook
    BY <1>1, SoundArrives, SoundFills, SoundRests DEF UseBook, Book!Next
  <1>2. CASE UNCHANGED bookVars
    <2>1. BookInv'
      BY BookStep DEF SoundInv
    <2>2. bids_' = bids_ /\ asks_' = asks_ /\ order' = order /\ sent' = sent
      BY <1>2 DEF bookVars
    <2> QED BY <2>1, <2>2 DEF SoundInv, Uncrossed
  <1>3. UseBook \/ UNCHANGED bookVars
    BY DEF Next, vars, services, UseContainer, UseCache, UsePool, UseTable, UseBucket, UseWheel,
           RunAlgorithm, RunSearch, RunServer
  <1> QED BY <1>1, <1>2, <1>3

(* BookIsSound: over any history of orders and fills in part, the book is  *)
(* not crossed between two orders and as much was bought as was sold.      *)
THEOREM TheBookBalances == Spec => []BookIsSound
  <1>1. SoundInv => BookIsSound
    <2> SUFFICES ASSUME SoundInv PROVE Book!BookIsSound
      BY DEF BookIsSound
    <2>1. Book!Traded("Buy") = Book!Traded("Sell")
      BY OpenIsOpen DEF SoundInv
    <2>2. ASSUME Book!best_bid > 0, Book!best_ask > 0
          PROVE  Book!best_bid < Book!best_ask
      <3>1. /\ IsFiniteSet(DOMAIN bids_) /\ DOMAIN bids_ \subseteq Int
            /\ IsFiniteSet(DOMAIN asks_) /\ DOMAIN asks_ \subseteq Int
        BY DEF SoundInv, BookInv, SideOf
      <3>2. /\ DOMAIN bids_ # {} /\ Book!best_bid = Book!Max(DOMAIN bids_)
            /\ DOMAIN asks_ # {} /\ Book!best_ask = Book!Min(DOMAIN asks_)
        <4>1. ~(0 > 0)
          OBVIOUS
        <4>2. DOMAIN bids_ # {} /\ Book!best_bid = Book!Max(DOMAIN bids_)
          BY <2>2, <4>1, Zenon DEF Book!best_bid
        <4>3. DOMAIN asks_ # {} /\ Book!best_ask = Book!Min(DOMAIN asks_)
          BY <2>2, <4>1, Zenon DEF Book!best_ask
        <4> QED BY <4>2, <4>3
      <3>3. Book!best_bid \in DOMAIN bids_
        BY <3>1, <3>2, GreatestOfFinite DEF Book!Max
      <3>4. Book!best_ask \in DOMAIN asks_
        BY <3>1, <3>2, LeastOfFinite DEF Book!Min
      <3> QED BY <3>3, <3>4 DEF SoundInv, Uncrossed
    <2> QED BY <2>1, <2>2 DEF Book!BookIsSound
  <1>2. SoundInv /\ [Next]_vars => SoundInv'
    BY SoundStep
  <1> QED BY <1>1, <1>2, SoundStarts, PTL DEF Spec

----------------------------------------------------------------------------
(* FactorSearch: what is in the maps depends on whose results are there,   *)
(* not on the order they came in.                                          *)
NumbersOf(l) == {l[x] : x \in DOMAIN l}
DescendingPairs(S) == {p \in S \X S : p[1] > p[2]}
NthPair(l, x) == <<l[((x - 1) \div Len(l)) + 1], l[((x - 1) % Len(l)) + 1]>>
PairsOf(l) ==
  [x \in {x \in 1..Len(l) * Len(l) : NthPair(l, x)[1] > NthPair(l, x)[2]} |-> NthPair(l, x)]
FactorsOf(S) == [a \in S |-> Search!get_factors(a)]
CommonOf(S) ==
  [p \in S |-> Search!get_common_factors(Search!get_factors(p[1]), Search!get_factors(p[2]))]

SearchInv ==
  /\ args \in Seq(Arguments) /\ phase \in {"factors", "common", "printed"}
  /\ phase = "factors" => /\ collected \subseteq DOMAIN args
                          /\ factors = FactorsOf({args[x] : x \in collected})
  /\ phase = "factors" => common_factors = Search!Maps
  /\ phase # "factors" => factors = FactorsOf(NumbersOf(args))
  /\ phase = "common" => /\ collected \subseteq DOMAIN PairsOf(args)
                         /\ common_factors = CommonOf({PairsOf(args)[x] : x \in collected})
  /\ phase = "printed" => common_factors = CommonOf(DescendingPairs(NumbersOf(args)))

LEMMA Quotients ==
  ASSUME NEW c \in Nat, c >= 1, NEW a \in Nat, NEW b \in 0..c - 1
  PROVE  (c * a + b) \div c = a
  BY Z3T(60)

LEMMA PlaceOfPair ==
  ASSUME NEW n \in Nat, n >= 1, NEW x \in 1..n * n
  PROVE  ((x - 1) \div n) + 1 \in 1..n /\ ((x - 1) % n) + 1 \in 1..n
  <1>1. PICK y : y = x - 1
    OBVIOUS
  <1>2. n * n \in Nat
    BY Z3
  <1>3. y \in Nat /\ y < n * n
    BY <1>1, <1>2
  <1>4. PICK a \in Nat, b \in 0..n - 1 : y = n * a + b /\ y % n = b
    BY <1>3, Division
  <1>5. y \div n = a
    BY <1>4, Quotients
  <1>6. a < n
    <2>1. SUFFICES ASSUME a >= n PROVE FALSE
      OBVIOUS
    <2>2. n * a >= n * n
      BY <2>1, Z3
    <2>3. n * a \in Int
      BY Z3
    <2> QED BY <1>2, <1>3, <1>4, <2>2, <2>3
  <1> QED BY <1>1, <1>4, <1>5, <1>6

IsPlaceOf(n, z, x, y) == ((z - 1) \div n) + 1 = x /\ ((z - 1) % n) + 1 = y

LEMMA PairOfPlaces ==
  ASSUME NEW n \in Nat, n >= 1, NEW x \in 1..n, NEW y \in 1..n
  PROVE  \E z \in 1..n * n : IsPlaceOf(n, z, x, y)
  <1>1. PICK a, b, m : a = x - 1 /\ b = y - 1 /\ m = n * a
    OBVIOUS
  <1>2. a \in Nat /\ b \in 0..n - 1 /\ a <= n - 1
    BY <1>1
  <1>3. m \in Nat /\ m + n <= n * n /\ n * n \in Nat
    <2>1. n * a <= n * (n - 1) /\ n * (n - 1) = n * n - n /\ n * a \in Nat /\ n * n \in Nat
      BY <1>2, Z3
    <2> QED BY <1>1, <2>1
  <1>4. (m + b) \div n = a /\ (m + b) % n = b
    BY <1>1, <1>2, Quotients, Remainder
  <1>5. PICK z : z = m + b + 1
    OBVIOUS
  <1>6. z \in 1..n * n /\ z - 1 = m + b
    BY <1>2, <1>3, <1>5
  <1>7. (z - 1) \div n = a /\ (z - 1) % n = b
    BY <1>4, <1>6, Zenon
  <1>8. a + 1 = x /\ b + 1 = y
    BY <1>1
  <1>9. IsPlaceOf(n, z, x, y)
    BY <1>7, <1>8, Zenon DEF IsPlaceOf
  <1> QED BY <1>6, <1>9

(* The pairs of the two loops are the descending pairs of arguments. *)
LEMMA PairsAreAll ==
  ASSUME NEW l \in Seq(Arguments)
  PROVE  /\ {PairsOf(l)[x] : x \in DOMAIN PairsOf(l)} = DescendingPairs(NumbersOf(l))
         /\ \A x \in DOMAIN PairsOf(l) : PairsOf(l)[x][1] \in NumbersOf(l)
                                         /\ PairsOf(l)[x][2] \in NumbersOf(l)
  <1>1. PICK n \in Nat : n = Len(l) /\ DOMAIN l = 1..n
    BY LenProperties
  <1>2. PICK F : F = PairsOf(l)
    OBVIOUS
  <1>3. /\ DOMAIN F = {x \in 1..n * n : NthPair(l, x)[1] > NthPair(l, x)[2]}
        /\ \A x \in DOMAIN F : F[x] = NthPair(l, x)
    BY <1>1, <1>2 DEF PairsOf
  <1>4. ASSUME NEW x \in DOMAIN F
        PROVE  F[x] \in DescendingPairs(NumbersOf(l))
    <2>1. x \in 1..n * n /\ NthPair(l, x)[1] > NthPair(l, x)[2] /\ F[x] = NthPair(l, x)
      BY <1>3
    <2>2. n >= 1
      BY <1>1, <2>1
    <2>3. PICK a \in 1..n, b \in 1..n : a = ((x - 1) \div n) + 1 /\ b = ((x - 1) % n) + 1
      BY <2>1, <2>2, PlaceOfPair
    <2>4. NthPair(l, x) = <<l[a], l[b]>>
      BY <1>1, <2>3 DEF NthPair
    <2>5. l[a] \in NumbersOf(l) /\ l[b] \in NumbersOf(l)
      BY <1>1 DEF NumbersOf
    <2> QED BY <2>1, <2>4, <2>5 DEF DescendingPairs
  <1>5. ASSUME NEW p \in DescendingPairs(NumbersOf(l))
        PROVE  \E x \in DOMAIN F : F[x] = p
    <2>1. p \in NumbersOf(l) \X NumbersOf(l) /\ p[1] > p[2] /\ p = <<p[1], p[2]>>
      BY DEF DescendingPairs
    <2>2. PICK a \in 1..n : l[a] = p[1]
      BY <1>1, <2>1 DEF NumbersOf
    <2>3. PICK b \in 1..n : l[b] = p[2]
      BY <1>1, <2>1 DEF NumbersOf
    <2>4. n >= 1
      BY <2>2
    <2>5. PICK z \in 1..n * n : IsPlaceOf(n, z, a, b)
      BY <1>1, <2>4, PairOfPlaces, Zenon
    <2>6. NthPair(l, z) = p
      <3>1. NthPair(l, z) = <<l[a], l[b]>>
        BY <1>1, <2>5, Zenon DEF NthPair, IsPlaceOf
      <3> QED BY <2>1, <2>2, <2>3, <3>1
    <2> QED BY <1>3, <2>1, <2>6
  <1>6. \A p \in DescendingPairs(NumbersOf(l)) : p[1] \in NumbersOf(l) /\ p[2] \in NumbersOf(l)
    BY DEF DescendingPairs
  <1> QED BY <1>2, <1>4, <1>5, <1>6

LEMMA SearchStarts == Init => SearchInv
  <1> SUFFICES ASSUME Init PROVE SearchInv
    OBVIOUS
  <1>1. MaxArgs \in Nat
    BY SizesAssumption
  <1>2. args \in [1..MaxArgs -> Arguments] /\ phase = "factors" /\ collected = {}
        /\ factors = Search!Maps /\ common_factors = Search!Maps
    BY DEF Init, Search!Init
  <1>3. args \in Seq(Arguments)
    BY <1>1, <1>2, SequenceOf
  <1>4. {args[x] : x \in collected} = {} /\ FactorsOf({}) = Search!Maps
    <2>1. {args[x] : x \in collected} = {}
      BY <1>2
    <2>2. FactorsOf({}) = Search!Maps
      BY DEF FactorsOf, Search!Maps
    <2> QED BY <2>1, <2>2
  <1> QED BY <1>2, <1>3, <1>4 DEF SearchInv

LEMMA FactorsWith ==
  ASSUME NEW S, NEW a
  PROVE  Search!With(FactorsOf(S), a, Search!get_factors(a)) = FactorsOf(S \cup {a})
  <1>1. DOMAIN FactorsOf(S) = S
    BY DEF FactorsOf
  <1>2. Search!With(FactorsOf(S), a, Search!get_factors(a))
          = [x \in S \cup {a} |-> IF x = a THEN Search!get_factors(a) ELSE FactorsOf(S)[x]]
    BY <1>1 DEF Search!With
  <1>3. \A x \in S \cup {a} : (IF x = a THEN Search!get_factors(a) ELSE FactorsOf(S)[x])
                                = Search!get_factors(x)
    BY Zenon DEF FactorsOf
  <1> QED BY <1>2, <1>3, Zenon DEF FactorsOf

LEMMA CommonWith ==
  ASSUME NEW S, NEW p
  PROVE  Search!With(CommonOf(S), p,
           Search!get_common_factors(Search!get_factors(p[1]), Search!get_factors(p[2])))
             = CommonOf(S \cup {p})
  <1> DEFINE Line(x) ==
        Search!get_common_factors(Search!get_factors(x[1]), Search!get_factors(x[2]))
  <1>1. DOMAIN CommonOf(S) = S
    BY DEF CommonOf
  <1>2. Search!With(CommonOf(S), p, Line(p))
          = [x \in S \cup {p} |-> IF x = p THEN Line(p) ELSE CommonOf(S)[x]]
    BY <1>1, Zenon DEF Search!With
  <1>3. \A x \in S \cup {p} : (IF x = p THEN Line(p) ELSE CommonOf(S)[x]) = Line(x)
    BY Zenon DEF CommonOf
  <1>4. CommonOf(S \cup {p}) = [x \in S \cup {p} |-> Line(x)]
    BY Zenon DEF CommonOf
  <1> HIDE DEF Line
  <1>5. Search!With(CommonOf(S), p, Line(p)) = CommonOf(S \cup {p})
    BY <1>2, <1>3, <1>4, Zenon
  <1> QED BY <1>5 DEF Line

(* What a worker hands over in the second phase was computed from both of  *)
(* its arguments' factors.                                                 *)
LEMMA SearchCollects ==
  ASSUME SearchInv, NEW w, w \in DOMAIN Search!Jobs, Search!Collect(w)
  PROVE  SearchInv'
  <1>1. args' = args /\ phase' = phase /\ collected' = collected \cup {w}
    BY DEF Search!Collect
  <1>2. CASE phase = "factors"
    <2>1. Search!Jobs = args /\ w \in DOMAIN args
      BY <1>2 DEF Search!Jobs
    <2>2. /\ factors' = Search!With(factors, args[w], Search!get_factors(args[w]))
          /\ common_factors' = common_factors
      BY <1>2, <2>1 DEF Search!Collect
    <2>3. PICK S : S = {args[x] : x \in collected}
      OBVIOUS
    <2>4. factors' = FactorsOf(S \cup {args[w]})
      BY <1>2, <2>2, <2>3, FactorsWith DEF SearchInv
    <2>5. S \cup {args[w]} = {args'[x] : x \in collected'}
      BY <1>1, <2>3
    <2> QED BY <1>1, <1>2, <2>1, <2>2, <2>4, <2>5 DEF SearchInv
  <1>3. CASE phase = "common"
    <2>1. PICK F : F = PairsOf(args)
      OBVIOUS
    <2>2. Search!Jobs = F /\ w \in DOMAIN F
      <3>1. Search!Jobs = Search!Pairs
        BY <1>3 DEF Search!Jobs
      <3>2. Search!Pairs = PairsOf(args)
        BY DEF Search!Pairs, Search!PairAt, PairsOf, NthPair
      <3> QED BY <2>1, <3>1, <3>2
    <2>3. /\ factors' = factors
          /\ common_factors' = Search!With(common_factors, F[w],
               Search!get_common_factors(factors[F[w][1]], factors[F[w][2]]))
      BY <1>3, <2>2, Zenon DEF Search!Collect
    <2>4. F[w][1] \in NumbersOf(args) /\ F[w][2] \in NumbersOf(args)
      BY <2>1, <2>2, PairsAreAll DEF SearchInv
    <2>5. /\ factors[F[w][1]] = Search!get_factors(F[w][1])
          /\ factors[F[w][2]] = Search!get_factors(F[w][2])
      <3>1. factors = FactorsOf(NumbersOf(args))
        BY <1>3 DEF SearchInv
      <3> QED BY <2>4, <3>1, Zenon DEF FactorsOf
    <2>6. PICK S : S = {F[x] : x \in collected}
      OBVIOUS
    <2>7. common_factors = CommonOf(S) /\ collected \subseteq DOMAIN F
      BY <1>3, <2>1, <2>6, Zenon DEF SearchInv
    <2>8. common_factors' = CommonOf(S \cup {F[w]})
      BY <2>3, <2>5, <2>7, CommonWith, Zenon
    <2>9. S \cup {F[w]} = {F[x] : x \in collected'}
      BY <1>1, <2>6
    <2>10. PairsOf(args)' = F /\ NumbersOf(args)' = NumbersOf(args)
      BY <1>1, <2>1 DEF PairsOf, NthPair, NumbersOf
    <2>11. /\ collected' \subseteq DOMAIN PairsOf(args)'
           /\ common_factors' = CommonOf({PairsOf(args)'[x] : x \in collected'})
      BY <1>1, <2>2, <2>7, <2>8, <2>9, <2>10, Zenon
    <2>12. factors' = FactorsOf(NumbersOf(args))
      BY <1>3, <2>3 DEF SearchInv
    <2> QED BY <1>1, <1>3, <2>10, <2>11, <2>12 DEF SearchInv
  <1> QED BY <1>2, <1>3 DEF Search!Collect

LEMMA SearchJoins ==
  ASSUME SearchInv, Search!Join
  PROVE  SearchInv'
  <1>1. /\ args' = args /\ collected' = {} /\ factors' = factors
        /\ common_factors' = common_factors
        /\ phase # "printed" /\ collected = DOMAIN Search!Jobs
        /\ phase' = IF phase = "factors" THEN "common" ELSE "printed"
    BY DEF Search!Join
  <1>2. CASE phase = "factors"
    <2>1. phase' = "common" /\ collected = DOMAIN args
      BY <1>1, <1>2 DEF Search!Jobs
    <2>2. factors' = FactorsOf(NumbersOf(args))
      BY <1>1, <1>2, <2>1 DEF SearchInv, NumbersOf
    <2>3. common_factors' = Search!Maps
      BY <1>1, <1>2 DEF SearchInv
    <2>4. CommonOf({PairsOf(args')[x] : x \in collected'}) = Search!Maps
      <3>1. {PairsOf(args')[x] : x \in collected'} = {}
        BY <1>1
      <3>2. CommonOf({}) = Search!Maps
        BY DEF CommonOf, Search!Maps
      <3> QED BY <3>1, <3>2
    <2>5. args' \in Seq(Arguments) /\ NumbersOf(args') = NumbersOf(args)
      BY <1>1 DEF SearchInv
    <2> QED BY <1>1, <2>1, <2>2, <2>3, <2>4, <2>5 DEF SearchInv
  <1>3. CASE phase = "common"
    <2>1. Search!Jobs = PairsOf(args)
      <3>1. Search!Jobs = Search!Pairs
        BY <1>3 DEF Search!Jobs
      <3>2. Search!Pairs = PairsOf(args)
        BY DEF Search!Pairs, Search!PairAt, PairsOf, NthPair
      <3> QED BY <3>1, <3>2
    <2>2. phase' = "printed" /\ collected = DOMAIN PairsOf(args)
      BY <1>1, <1>3, <2>1
    <2>3. common_factors' = CommonOf(DescendingPairs(NumbersOf(args)))
      <3>1. common_factors = CommonOf({PairsOf(args)[x] : x \in DOMAIN PairsOf(args)})
        BY <1>3, <2>2, Zenon DEF SearchInv
      <3> QED BY <1>1, <3>1, PairsAreAll DEF SearchInv
    <2>4. factors' = FactorsOf(NumbersOf(args))
      BY <1>1, <1>3 DEF SearchInv
    <2>5. args' \in Seq(Arguments) /\ NumbersOf(args') = NumbersOf(args)
      BY <1>1 DEF SearchInv
    <2> QED BY <2>2, <2>3, <2>4, <2>5 DEF SearchInv
  <1> QED BY <1>1, <1>2, <1>3 DEF SearchInv

LEMMA SearchStep == SearchInv /\ [Next]_vars => SearchInv'
  <1> SUFFICES ASSUME SearchInv, [Next]_vars PROVE SearchInv'
    OBVIOUS
  <1>1. CASE UNCHANGED searchVars
    BY <1>1 DEF searchVars, SearchInv
  <1>2. CASE Search!Next
    <2>1. ASSUME NEW w \in DOMAIN Search!Jobs, Search!Compute(w) PROVE SearchInv'
      <3>1. /\ args' = args /\ phase' = phase /\ collected' = collected
            /\ factors' = factors /\ common_factors' = common_factors
        BY <2>1 DEF Search!Compute
      <3> QED BY <3>1 DEF SearchInv
    <2>2. ASSUME NEW w \in DOMAIN Search!Jobs, Search!Collect(w) PROVE SearchInv'
      BY <2>2, SearchCollects
    <2>3. CASE Search!Join
      BY <2>3, SearchJoins
    <2> QED BY <1>2, <2>1, <2>2, <2>3 DEF Search!Next
  <1> QED
    BY <1>1, <1>2 DEF Next, UseContainer, UseCache, UsePool, UseTable, UseBook, UseBucket,
                      UseWheel, RunAlgorithm, RunSearch, RunServer, programs, vars

(* The maps of the parallel factor search hold the factors of every        *)
(* argument after the first phase and those of every pair when the lines   *)
(* are printed, each the same whichever thread was first.                  *)
MapsAreComplete ==
  /\ Search!FindsEveryPair
  /\ phase # "factors" => factors = FactorsOf(NumbersOf(args))
  /\ phase = "printed" => common_factors = CommonOf(DescendingPairs(NumbersOf(args)))

(* FactorSearch: the threads may finish, take the mutex or be read in any  *)
(* order (main2.cpp:28-64, main.cpp:23-60): the maps that are printed have *)
(* every key and the values a loop without threads would have put there.   *)
THEOREM EveryOrderPrintsTheSame == Spec => []MapsAreComplete
  <1>1. SearchInv => MapsAreComplete
    <2> SUFFICES ASSUME SearchInv PROVE MapsAreComplete
      OBVIOUS
    <2>1. phase # "factors" => factors = FactorsOf(NumbersOf(args))
      BY DEF SearchInv
    <2>2. phase = "printed" => common_factors = CommonOf(DescendingPairs(NumbersOf(args)))
      BY DEF SearchInv
    <2>3. Search!ToSet(args) = NumbersOf(args)
      BY DEF Search!ToSet, NumbersOf
    <2>4. phase # "factors" => DOMAIN factors = Search!ToSet(args)
      BY <2>1, <2>3 DEF FactorsOf
    <2>5. phase = "printed" =>
            DOMAIN common_factors
              = {p \in Search!ToSet(args) \X Search!ToSet(args) : p[1] > p[2]}
      BY <2>2, <2>3 DEF CommonOf, DescendingPairs
    <2> QED BY <2>1, <2>2, <2>4, <2>5 DEF MapsAreComplete, Search!FindsEveryPair
  <1>2. SearchInv /\ [Next]_vars => SearchInv'
    BY SearchStep
  <1> QED BY <1>1, <1>2, SearchStarts, PTL DEF Spec
=============================================================================
